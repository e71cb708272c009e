SPECIFICATION Spec
CONSTANTS
    a = a
    b = b
    c = c
    t = t
    k = k
    Amounts <- MCAmounts
    MaxWeight <- MCMaxWeight
    VNames <- MCVNames
    ENames <- MCENames
    VTNames <- MCVTNames
    MaxV <- MCMaxV
    Pairs <- MCPairsOnly
INVARIANT PairSymmetric
