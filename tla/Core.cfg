SPECIFICATION Spec
CONSTANTS
    Threads = {t1, t2}
    Chars <- SmallChars
    Keys <- SmallKeys
    Values = {v1}
    Ops <- AllOps
    SizeModulus = 1
    EraseAnyIterator = FALSE
    NoNode = NoNode
    NoThread = NoThread
    NoValue = NoValue
    NoOp = NoOp
SYMMETRY Symmetry
INVARIANTS
    TypeOK
    LockDiscipline
    LockOrder
    NoDeadlock
    BoundNotBelowKey
PROPERTIES
    HeldNodesFrozen
