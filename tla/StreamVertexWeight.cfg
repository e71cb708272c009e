CONSTANTS
    Names = {a}
    TypeNames = {t}
    NULL = NULL
    Wild = Wild
    None = None
    TrueDivision = FALSE
    Ids <- MCIds
    TypeIds <- MCTypeIds
    Weights <- MCWeights
    InitSize <- MCInitSize
    MaxPending <- MCPendingVertexUpdates

SPECIFICATION Spec

INVARIANT VertexWeightDelivered
