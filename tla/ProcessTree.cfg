\* A process tree of four runtimes, with fairness.
CONSTANTS
  Runtime = {root, r1, r2, r3}
  Root = root
  NoRuntime = NoRuntime
  RootPid = 2
  FirstPid = 4
  Code = {7, 257}
  NoCode = NoCode
  Dir = {slash, tmp}
  Slash = slash
CHECK_DEADLOCK FALSE
SPECIFICATION FairSpec
INVARIANTS OneThreadOfControl EveryChildCollectedOnce
PROPERTIES WaitsEnd FaultsReachTheRoot
