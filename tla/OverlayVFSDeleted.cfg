\* The same base: what happens to deleted files.
CONSTANTS
  x = x
  y = y
  Name = {x, y}
  Depth = 2
  Data = {Empty}
  Empty = Empty
  Old = Old
  BaseTree <- SmallBase
SPECIFICATION Spec
PROPERTY DeletedStaysDeleted
CHECK_DEADLOCK FALSE
