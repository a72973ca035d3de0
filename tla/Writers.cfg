SPECIFICATION Spec
CONSTANTS
    Threads = {t1, t2, t3}
    Chars <- SmallChars
    Keys <- SmallKeys
    Values = {v1}
    Ops <- Writers
    SizeModulus = 1
    EraseAnyIterator = FALSE
    NoNode = NoNode
    NoThread = NoThread
    NoValue = NoValue
    NoOp = NoOp
SYMMETRY Symmetry
INVARIANTS
    ListIsTreeOrder
    NoDeadlock
