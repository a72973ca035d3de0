SPECIFICATION Spec
CONSTANTS
    Threads = {t1}
    Chars <- SmallChars
    Keys <- FiveKeys
    Values = {v1}
    Ops <- CountedOps
    SizeModulus = 8
    EraseAnyIterator = TRUE
    NoNode = NoNode
    NoThread = NoThread
    NoValue = NoValue
    NoOp = NoOp
CHECK_DEADLOCK FALSE
INVARIANTS
    SizeCounts
