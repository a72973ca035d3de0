SPECIFICATION Spec
CONSTANTS
    Chars <- SmallChars
    Keys <- PrefixKeys
    Values = {v1, v2}
    Ops = {"insert", "clear"}
    ClearAnyTrie = TRUE
    Strict = TRUE
    NoNode = NoNode
    NoValue = NoValue
    NoCall = NoCall
SYMMETRY Symmetry
INVARIANTS
    NothingDangles
