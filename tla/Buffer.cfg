SPECIFICATION Spec
CONSTANTS
    Base = 2
    Byte = {0, 1}
    Nul = 0
    CR = 1
    LF = 0
    kCheapPrepend = 2
    kInitialSize = 3
    kExtra = 2
    Widths = {1, 2}
    InitialSizes = {1, 2}
    MaxReadable = 3
INVARIANTS
    AssertionsHold
    IntegersSurvive
PROPERTIES
    GrowsOnlyWhenFull
    ImplementsByteQueue
