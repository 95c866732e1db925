--------------------------- MODULE AccountsFetch ---------------------------
(***************************************************************************)
(* What get_multiple_accounts_chunked (observability/indexer/src/common.rs)*)
(* promises its caller, with chunks, futures and retries abstracted away:  *)
(* the keys are read from the chain in any number of reads, each read      *)
(* seeing some of the keys at one moment while the chain keeps changing;   *)
(* a read may fail instead.  The call returns once every key was read, or  *)
(* once a read failed: the error, or the keys some read found an account   *)
(* for.  No single moment is promised: two keys may be read at different   *)
(* moments, and a key read twice is in the map if either read found it.   *)
(***************************************************************************)
EXTENDS Integers, SequencesExt

CONSTANTS
    KeySet,     \* pubkeys (model values)
    MaxKeys     \* bound on the length of the keys argument

VARIABLES
    keys,       \* the keys argument
    onChain,    \* the keys that have an account on chain now
    answered,   \* the keys some read has seen
    found,      \* the keys some read found an account for
    failed,     \* a read failed for good
    ret         \* the call's result: [done, ok, map]

avars == <<keys, onChain, answered, found, failed, ret>>

NotReturned == [done |-> FALSE, ok |-> FALSE, map |-> {}]

Init ==
    /\ keys \in BoundedSeq(KeySet, MaxKeys)
    /\ onChain \in SUBSET KeySet
    /\ answered = {}
    /\ found = {}
    /\ failed = FALSE
    /\ ret = NotReturned

(* A read of the keys S, at this moment of the chain.                     *)
Read(S) ==
    /\ ~ret.done
    /\ S # {} /\ S \subseteq ToSet(keys)
    /\ answered' = answered \cup S
    /\ found' = found \cup (S \cap onChain)
    /\ UNCHANGED <<keys, onChain, failed, ret>>

(* A read fails for good.                                                 *)
ReadFails ==
    /\ ~ret.done
    /\ failed' = TRUE
    /\ UNCHANGED <<keys, onChain, answered, found, ret>>

(* The call returns: the error, or the found keys once all were read.     *)
Return ==
    /\ ~ret.done
    /\ answered = ToSet(keys) \/ failed
    /\ ret' = IF failed THEN [done |-> TRUE, ok |-> FALSE, map |-> {}]
                        ELSE [done |-> TRUE, ok |-> TRUE, map |-> found]
    /\ UNCHANGED <<keys, onChain, answered, found, failed>>

ChainChanges(k) ==
    /\ onChain' = IF k \in onChain THEN onChain \ {k} ELSE onChain \cup {k}
    /\ UNCHANGED <<keys, answered, found, failed, ret>>

Next ==
    \/ \E S \in SUBSET KeySet : Read(S)
    \/ ReadFails
    \/ Return
    \/ \E k \in KeySet : ChainChanges(k)

(* Once every key was read, or a read failed, the call does not wait.     *)
Spec == Init /\ [][Next]_avars /\ WF_avars(Return)

=============================================================================
