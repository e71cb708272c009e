SPECIFICATION Spec
CONSTANTS
    a = a
    b = b
    c = c
    t = t
    k = k
    VTNames <- MCVTNames
    Amounts <- MCAmounts
    MaxWeight <- MCMaxWeight
    VNames <- MCVNames
    ENames <- MCENames
    MaxV <- MCMaxV
    Pairs <- MCPairsOnly
INVARIANT NoStrayVertexWrite
