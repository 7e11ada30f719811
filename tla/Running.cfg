\* Three calls that overlap or not, with and without a process id of the runtime;
\* three cells of code that stores and system calls may rewrite, and a stack
\* outside of it; three names, of which two get numbers that fit in an answer and
\* a third is answered with the address of one of them.
SPECIFICATION RunningSpec
CHECK_DEADLOCK FALSE
CONSTANTS
    Call = {c1, c2, c3}
    None = None
    Size = 4
    Exec = {0, 1, 2}
    Stack = {3}
    Unmapped = Unmapped
    Programs <- MCPrograms
    RemapsCached = FALSE
    HotThreshold = 2
    MaxBlock = 2
    NoBlock = NoBlock
    h1 = h1
    h2 = h2
    h3 = h3
    Host = {h1, h2, h3}
    FirstHost = 1
    Octet = 2
    Preset <- MCPreset
    MaxArrive = 3
    MaxSend = 2
    MaxRecv = 2
    Nothing = Nothing
INVARIANTS
    TableHoldsNoDead
    SocketKeepsBytes
    ReceiverNotForgotten
    ReachesNamedHost
PROPERTY RunsTheProgram
