SPECIFICATION Spec
CONSTANTS
    U8 = 4
    SwitchEvery = 2
    TickWrap = 3
    MaxPos = 0
    PageStructs = {kernel, own}
    KernelPages = kernel
    NULL = null
INVARIANT TypeOK
PROPERTY OnlyMisuseBreaksTasks
CHECK_DEADLOCK FALSE
