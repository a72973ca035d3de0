SPECIFICATION ScanSpec
CONSTANTS
    Threads = {t1, t2}
    Chars <- SmallChars
    Keys <- FourKeys
    Values = {v1}
    Ops <- ScanAndWrite
    SizeModulus = 1
    EraseAnyIterator = FALSE
    NoNode = NoNode
    NoThread = NoThread
    NoValue = NoValue
    NoOp = NoOp
SYMMETRY Symmetry
INVARIANTS
    NothingSkipped
PROPERTIES
    EndIsTheEnd
    CursorMovesForward
