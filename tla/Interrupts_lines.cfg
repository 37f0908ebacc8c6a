SPECIFICATION Spec
CONSTANTS
    MaxDepth = 3
    Stub <- StubCode
    U16 = 65536
    U32 = 6
    TickWrap = 4
INVARIANTS TypeOK NothingHeldBack
PROPERTIES LinesServed WaitLasts
