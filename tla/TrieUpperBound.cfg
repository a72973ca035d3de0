SPECIFICATION Spec
CONSTANTS
    Chars <- SmallChars
    Keys <- PrefixKeys
    Values = {v1, v2}
    Ops = {"insert", "upper_bound"}
    ClearAnyTrie = FALSE
    Strict = TRUE
    NoNode = NoNode
    NoValue = NoValue
    NoCall = NoCall
SYMMETRY Symmetry
PROPERTIES
    ImplementsOrderedMap
