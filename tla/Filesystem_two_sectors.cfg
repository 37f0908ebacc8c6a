SPECIFICATION Spec
CONSTANTS
    a = a
    b = b
    x = x
    Names = {f1, f2}
    Data <- MixedData
    Blank = blank
    Image = image
    FirstData = 1
    LastSector = 6
    Fit = 3
    MaxFiles = 3
    Residue <- SomeResidue
    NodeNameLba = 20
    NoFat = NoFat
    Programs <- NoPrograms
INVARIANT FilesReadBack
