\* Three nodes and paths of up to three names.
CONSTANTS
  Name = {x, y}
  Node = {n1, n2, n3}
  Depth = 3
  Root = Root
  None = None
  FarLinks = FALSE
  FarMoves = FALSE
SPECIFICATION Spec
INVARIANT NodesFormATree
PROPERTY KeepsPaths
CHECK_DEADLOCK FALSE
