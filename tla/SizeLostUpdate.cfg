SPECIFICATION Spec
CONSTANTS
    Threads = {t1, t2}
    Chars <- SmallChars
    Keys <- SmallKeys
    Values = {v1}
    Ops = {"insert"}
    SizeModulus = 8
    EraseAnyIterator = FALSE
    NoNode = NoNode
    NoThread = NoThread
    NoValue = NoValue
    NoOp = NoOp
INVARIANTS
    SizeCounts
