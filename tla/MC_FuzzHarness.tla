-------------------------- MODULE MC_FuzzHarness --------------------------
(* Two banks, the seeding account and one user; small amounts and prices  *)
(* chosen so that interest, rounding, liquidation and bankruptcy occur.    *)
EXTENDS FuzzHarness, TLC

CONSTANTS b1, b2, s, u1

MC_Banks == {b1, b2}
MC_Accounts == {s, u1}
MC_AssetWeightInit == [b \in MC_Banks |-> 50]
MC_AssetWeightMaint == [b \in MC_Banks |-> 60]
MC_LiabWeightInit == [b \in MC_Banks |-> 100]
MC_LiabWeightMaint == [b \in MC_Banks |-> 100]
MC_DepositLimit == [b \in MC_Banks |-> 4]
MC_BorrowLimit == [b \in MC_Banks |-> 2]
MC_InitPrice == [b \in MC_Banks |-> 1]
MC_PriceChanges == {-1, 1}
(* Users are interchangeable, and so are banks of identical configuration. *)
MC_Symmetry == Permutations(MC_Banks)
(* Behaviours are not extended past a bankruptcy whose loss exceeded the   *)
(* bank's deposits: the spec leaves the bank's state after it undefined    *)
(* (run asv_positive shows it happening).                                  *)
MC_DepositsNotWipedOut == AssetShareValuePositive
====
