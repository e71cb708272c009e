CONSTANTS
    FieldNames = {x, y}
    u = u
    w = w
    VertexNames <- MCVertexNames
    Garbage = Garbage
    NV <- MCNV
    MaxFields <- MCMaxFields
    Mapping <- MCMapping
    Indices <- MCInBounds
    Values <- MCSmallValues
    Factors <- MCFactors
    MaxValue <- MCMaxValue
    Scalable <- MCAllTags

SPECIFICATION Spec

PROPERTY GetReturnsLastSet
