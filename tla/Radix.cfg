SPECIFICATION Spec
CONSTANTS
    Chars <- SmallChars
    Keys <- SplitKeys
    Values = {v1}
    Ops <- AllOps
    ClearAnyTree = FALSE
    Strict = FALSE
    StableIterators = FALSE
    NoNode = NoNode
    NoValue = NoValue
    NoCall = NoCall
VIEW WithoutAnswer
INVARIANTS
    TypeOK
    PathsSpellKeys
    ListIsTreeOrder
    SizeCounts
PROPERTIES
    ImplementsOrderedMap
