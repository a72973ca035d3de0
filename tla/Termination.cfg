SPECIFICATION LiveSpec
CONSTANTS
    Threads = {t1, t2}
    Chars <- SmallChars
    Keys <- SmallKeys
    Values = {v1}
    Ops = {"insert", "erase", "shared_begin"}
    SizeModulus = 4
    EraseAnyIterator = FALSE
    MaxUses = 2
    NoNode = NoNode
    NoThread = NoThread
    NoValue = NoValue
    NoOp = NoOp
CHECK_DEADLOCK FALSE
INVARIANTS
    ClearStaysBehind
    NothingIsLeft
PROPERTIES
    EveryCallReturns
    ClearReturns
