SPECIFICATION KernelSpec
CONSTANTS
    U8 = 4
    SwitchEvery = 2
    TickWrap = 5
    MaxPos = 1
    PageStructs = {kernel, own}
    KernelPages = kernel
    NULL = null
INVARIANT ForkedTaskKept
