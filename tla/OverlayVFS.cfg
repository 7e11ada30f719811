\* A base with a directory and a file in it, paths of up to two names.
CONSTANTS
  x = x
  y = y
  Name = {x, y}
  Depth = 2
  Data = {Empty}
  Empty = Empty
  Old = Old
  BaseTree <- SmallBase
SPECIFICATION Spec
PROPERTIES WritersLeaveBase ChangesAreSeen
CHECK_DEADLOCK FALSE
