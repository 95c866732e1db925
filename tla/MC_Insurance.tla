--------------------------- MODULE MC_Insurance ---------------------------
(* A fuzzed action sequence of at most MaxSteps instructions, with token   *)
(* amounts large enough that a liquidation's insurance fee reaches a whole *)
(* token and a later bankruptcy draws on the insurance vault before it     *)
(* socializes the rest of the loss.                                        *)
EXTENDS FuzzHarness, TLC

CONSTANTS b1, b2, s, u1, MaxSteps

VARIABLE steps      \* instructions of the fuzzed sequence processed so far

MC_Banks == {b1, b2}
MC_Accounts == {s, u1}
MC_AssetWeightInit == [b \in MC_Banks |-> 50]
MC_AssetWeightMaint == [b \in MC_Banks |-> 60]
MC_LiabWeightInit == [b \in MC_Banks |-> 100]
MC_LiabWeightMaint == [b \in MC_Banks |-> 100]
MC_DepositLimit == [b \in MC_Banks |-> 6]
MC_BorrowLimit == [b \in MC_Banks |-> 6]
MC_InitPrice == [b \in MC_Banks |-> 1]
MC_PriceChanges == {-1, 1}
MC_Symmetry == Permutations(MC_Banks)

MC_Init == Init /\ steps = 0
MC_Next == Next /\ steps' = steps + 1
MC_Spec == MC_Init /\ [][MC_Next]_<<vars, steps>>

(* The length of the fuzzed sequence.                                      *)
MC_StepBound == steps < MaxSteps

(* ... and, as in MC_FuzzHarness, no state past a bankruptcy whose loss    *)
(* exceeded the bank's deposits.                                           *)
MC_SequenceBound == MC_StepBound /\ AssetShareValuePositive
====
