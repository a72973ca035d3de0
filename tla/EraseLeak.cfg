SPECIFICATION Spec
CONSTANTS
    Threads = {t1}
    Chars <- TwoChars
    Keys <- InnerKeys
    Values = {v1}
    Ops = {"insert"}
    SizeModulus = 8
    EraseAnyIterator = TRUE
    NoNode = NoNode
    NoThread = NoThread
    NoValue = NoValue
    NoOp = NoOp
INVARIANTS
    IdleHoldsNothing
