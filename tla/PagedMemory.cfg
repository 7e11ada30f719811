\* Three processes, one usable page (the top page of the address space can
\* never be mapped), two offsets, so that a copy that loses bytes shows.
CONSTANTS
  s1 = s1
  s2 = s2
  s3 = s3
  Space = {s1, s2, s3}
  PageId = {1, 2, 3, 4}
  NoPage = NoPage
  NPages = 2
  MmapMin = 0
  MmapMax = 2
  Offset = {1, 2}
  Byte = {0, 1}
  ZeroByte = 0
  PermSets <- OnlyReadWrite
  MaxRefs = 4
SPECIFICATION Spec
SYMMETRY Processes
VIEW Reachable
INVARIANT RefCountCoversHolders
PROPERTY PrivateSpaces
CHECK_DEADLOCK FALSE
