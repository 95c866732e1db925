CONSTANTS
    k1 = k1
    k2 = k2
    k3 = k3
    KeySet <- MC_KeySet
    MaxKeys = 4
    ChunkSize = 2
    MaxTries = 2
SPECIFICATION Spec
PROPERTIES Returns FetchRefinement
