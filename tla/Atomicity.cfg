SPECIFICATION Spec
CONSTANTS
    Threads = {t1, t2}
    Chars <- TwoChars
    Keys <- PrefixKeys
    Values = {v1, v2}
    Ops <- PointOps
    SizeModulus = 1
    EraseAnyIterator = FALSE
    NoNode = NoNode
    NoThread = NoThread
    NoValue = NoValue
    NoOp = NoOp
SYMMETRY Symmetry
PROPERTIES
    ImplementsAtomicMap
