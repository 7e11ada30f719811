\* Integer words of 3 bits, 5 memory cells for the string instructions, and a
\* program image of up to 3 pages of 4 cells for the loader; 3 page numbers for ranges.
SPECIFICATION Spec
CHECK_DEADLOCK FALSE
CONSTANTS
    Width = 3
    AdjustBit = 2
    MaxCount = 7
    Cells = 5
    Mapped = {0, 1, 2, 3}
    Element = {0, 1}
    MaxRep = 3
    Size = 64
    PageCells = 4
    Align = 4
    StackTop = 64
    StackCells = 32
    MainBias = 12
    InterpBias = 20
    File <- MCFile
    BadFile = BadFile
    NoFile = NoFile
    Path = {"prog", "ld.so"}
    InterpPath = "ld.so"
    Argv <- MCArgv
    Env <- MCEnv
    GuestStore = {9, 17}
    RangeSize = 3
    NoPage = NoPage
INVARIANTS
    BranchesDecide
    WideArithmetic
    ShiftsCompose
    ImageIsLaidOut
    FrameParses
PROPERTIES
    DividesBack
    RepAccounts
    MmapKeepsMappedPages
