------------------------- MODULE MC_StakedSettings -------------------------
(* Up to two groups, two bank addresses and two oracles; asset weights     *)
(* that make valid and invalid settings (init above maint, above 100%).    *)
EXTENDS StakedSettings, TLC

CONSTANTS g1, g2, b1, b2, o1, o2

MC_OneGroup == {g1}
MC_TwoGroups == {g1, g2}
MC_Banks == {b1, b2}
MC_OneBank == {b1}
MC_Oracles == {o1, o2}
MC_OneOracle == {o1}
(* The groups, the addresses and the oracles are each interchangeable.    *)
MC_Symmetry == Permutations(MC_Banks) \cup Permutations(MC_Oracles)
MC_GroupSymmetry == Permutations(MC_TwoGroups) \cup Permutations(MC_Banks)
====
