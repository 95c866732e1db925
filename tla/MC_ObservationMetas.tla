------------------------ MODULE MC_ObservationMetas ------------------------
(* Three banks, two oracles, an account of two slots, lists of two.        *)
EXTENDS ObservationMetas, TLC

CONSTANTS k1, k2, k3, o1, o2

MC_BankKeys == {k1, k2, k3}
MC_Oracles == {o1, o2}
(* Banks and oracles are interchangeable.                                 *)
MC_Symmetry == Permutations(MC_BankKeys) \cup Permutations(MC_Oracles)
====
