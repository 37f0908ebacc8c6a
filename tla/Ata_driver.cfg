SPECIFICATION Spec
CONSTANTS
    DiskSectors = 3
    CountWrap = 4
    Words = 2
    Data = {d1, d2}
    Blank = blank
    Junk = junk
INVARIANT TypeOK
PROPERTIES ImplementsSectorStore DataWhileRequested CallsReturn
