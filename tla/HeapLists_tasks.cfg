SPECIFICATION ListSpec
CONSTANTS
    W = 64
    Base = 1
    Limit = 11
    NBlocks = 3
    SplitThresh = 4
    Alignment = 2
    Sizes = {2, 6}
    AlignedSizes = {}
    CallocSizes = {}
    Owners = {c1, c2, c3}
    Tasks = {t1, t2}
INVARIANTS OnlyDisturbedWritesBreak
SYMMETRY Symmetry
CHECK_DEADLOCK FALSE
