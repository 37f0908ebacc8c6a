SPECIFICATION ScreenSpec
CONSTANTS
    k = k
    m = m
    nl = nl
    Rows = 2
    Cols = 3
    CardRows = 3
    U8 = 4
    Keys = {k}
    Messages <- MCMessages
    Newline = nl
    Erase = bs
    Blank = blank
    E = e
    Places = {1}
    Followed = 2
INVARIANTS LineShown CursorBounded
PROPERTY PrintReturns
