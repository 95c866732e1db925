CONSTANTS
    RawValues = {"unset", "number", "true"}
SPECIFICATION Spec
INVARIANT ExitZeroOnlyOnSuccess
\* The process exits: a state with an exit code has no successor.
CHECK_DEADLOCK FALSE
