CONSTANTS
    g1 = g1
    g2 = g2
    Groups <- MC_OneGroup
    b1 = b1
    b2 = b2
    o1 = o1
    o2 = o2
    NoBank = NoBank
    Banks <- MC_Banks
    Oracles <- MC_Oracles
    Weights = {50, 80, 110}
    LiabWeights = {100, 150}
    Limits = {1}
SPECIFICATION Spec
PROPERTY PermissionlessLeavesDefaultBanks
SYMMETRY MC_Symmetry
