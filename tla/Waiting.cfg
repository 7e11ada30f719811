\* Three runtimes that share a futex table; two readers of a byte queue; two
\* requests and two windows.
SPECIFICATION WaitSpec
CHECK_DEADLOCK FALSE
CONSTANTS
    g1 = g1
    g2 = g2
    g3 = g3
    a1 = a1
    a2 = a2
    Guest = {g1, g2, g3}
    Addr = {a1, a2}
    TableOf <- OneTable
    MaxCount = 2
    Requeues = TRUE
    Byte = {1, 2}
    Reader = {r1, r2}
    MaxPush = 2
    MaxRead = 3
    MaxLength = 3
    Waiting = Waiting
    Nothing = Nothing
    Fetch = {f1, f2}
    Window = {w1, w2}
    MaxLife = 2
INVARIANTS
    QueuedOnceIffBlocked
    NobodyWaitsInVain
    OwnReply
PROPERTIES
    TimedWaitsEnd
    WakesReachEveryWaiter
    IsAStream
    EveryFetchAnswered
