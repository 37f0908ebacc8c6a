SPECIFICATION Spec
CONSTANTS
    W = 64
    Base = 1
    Limit = 17
    NBlocks = 4
    SplitThresh = 4
    Alignment = 2
    Sizes = {1, 3, 6}
    CallocSizes <- MCCallocSizes
    AlignedSizes <- MCAlignedSizes
    Owners = {c1, c2, c3}
SYMMETRY Symmetry
INVARIANTS TypeOK BlocksConserved Tiling FreeListCanonical
PROPERTIES FreesOwnBlock ImplementsAllocator
