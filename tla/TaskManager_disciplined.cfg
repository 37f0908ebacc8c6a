SPECIFICATION FairDisciplinedSpec
CONSTANTS
    U8 = 4
    SwitchEvery = 2
    TickWrap = 5
    MaxPos = 1
    PageStructs = {kernel, own}
    KernelPages = kernel
    NULL = null
INVARIANT Coherent
INVARIANT NeverFaults
PROPERTY ImplementsProcesses
PROPERTY EveryTaskRuns
