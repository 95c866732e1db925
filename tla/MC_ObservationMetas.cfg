CONSTANTS
    k1 = k1
    k2 = k2
    k3 = k3
    o1 = o1
    o2 = o2
    BankKeys <- MC_BankKeys
    Oracles <- MC_Oracles
    Slots = {1, 2}
    MaxList = 2
SPECIFICATION Spec
INVARIANTS MetasExact MetasOrdered
SYMMETRY MC_Symmetry
