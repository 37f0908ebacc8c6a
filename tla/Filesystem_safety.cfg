SPECIFICATION Spec
CONSTANTS
    a = a
    b = b
    x = x
    Names = {f1, f2, f3}
    Data <- MixedData
    Blank = blank
    Image = image
    FirstData = 1
    LastSector = 7
    Fit = 3
    MaxFiles = 4
    Residue <- SomeResidue
    NodeNameLba = 20
    NoFat = NoFat
    Programs <- OneProgram
INVARIANTS TypeOK DirectoryAfterData OnlyLastFileLost UniqueNames
PROPERTIES OnlyReloadOverlaps WritesStayInFile
