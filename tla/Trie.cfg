SPECIFICATION Spec
CONSTANTS
    Chars <- SmallChars
    Keys <- SixKeys
    Values = {v1, v2}
    Ops <- AllOps
    ClearAnyTrie = FALSE
    Strict = FALSE
    NoNode = NoNode
    NoValue = NoValue
    NoCall = NoCall
VIEW WithoutAnswer
SYMMETRY Symmetry
INVARIANTS
    TypeOK
    ListIsTreeOrder
    SizeCounts
PROPERTIES
    ImplementsOrderedMap
