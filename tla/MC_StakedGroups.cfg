CONSTANTS
    g1 = g1
    g2 = g2
    b1 = b1
    b2 = b2
    o1 = o1
    o2 = o2
    NoBank = NoBank
    Groups <- MC_TwoGroups
    Banks <- MC_Banks
    Oracles <- MC_OneOracle
    Weights = {50, 80}
    LiabWeights = {150}
    Limits = {1}
SPECIFICATION Spec
PROPERTY SettingsFromOwnGroup
SYMMETRY MC_GroupSymmetry
