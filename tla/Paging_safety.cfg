SPECIFICATION Spec
CONSTANTS
    NPages = 10
    Slack = 2
    WinLo = 3
    WinHi = 4
    StackPage = 4
    Spaces = {k, s1}
    KernelPages = k
    Callers = {c1, c2}
SYMMETRY Symmetry
INVARIANT TypeOK
PROPERTIES OnlyStaleAnswersShare LostOnlyByRemap KernelFramesKept
