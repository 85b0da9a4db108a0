CONSTANTS
    NoKey = NoKey
    h1 = h1
    h2 = h2
    m1 = m1
    Keys = {h1, h2, m1}
    Calls = {c1, c2, c3}
    Requests <- MCRequests
    Seeds <- MCSeeds
    MaxPlays = 3
SPECIFICATION Spec
INVARIANTS
    
    SuffixAfterPrefix
    UnopenableOnlyIfKeyless
PROPERTIES
    HeardIsSaved
SYMMETRY CallSymmetry
CHECK_DEADLOCK FALSE
