---------------------------- MODULE MC_TwoUsers ----------------------------
(* Two banks, the seeding account and two users, over fuzzed sequences of *)
(* at most MaxSteps instructions: one user can liquidate the other while  *)
(* the seeder's deposits absorb what a bankruptcy socializes.             *)
EXTENDS FuzzHarness, TLC

CONSTANTS b1, b2, s, u1, u2, MaxSteps

VARIABLE steps      \* instructions of the fuzzed sequence processed so far

MC_Banks == {b1, b2}
MC_Accounts == {s, u1, u2}
MC_AssetWeightInit == [b \in MC_Banks |-> 50]
MC_AssetWeightMaint == [b \in MC_Banks |-> 60]
MC_LiabWeightInit == [b \in MC_Banks |-> 100]
MC_LiabWeightMaint == [b \in MC_Banks |-> 100]
MC_DepositLimit == [b \in MC_Banks |-> 4]
MC_BorrowLimit == [b \in MC_Banks |-> 2]
MC_InitPrice == [b \in MC_Banks |-> 1]
MC_PriceChanges == {-1, 1}
(* Identically configured banks, and the two users, are interchangeable.  *)
MC_Symmetry == {p @@ q : p \in Permutations(MC_Banks), q \in Permutations({u1, u2})}

MC_Init == Init /\ steps = 0
MC_Next == Next /\ steps' = steps + 1
MC_Spec == MC_Init /\ [][MC_Next]_<<vars, steps>>

MC_SequenceBound == steps < MaxSteps /\ AssetShareValuePositive
====
