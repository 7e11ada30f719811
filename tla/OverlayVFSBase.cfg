\* The same base: what happens to the base.
CONSTANTS
  x = x
  y = y
  Name = {x, y}
  Depth = 2
  Data = {Empty}
  Empty = Empty
  Old = Old
  BaseTree <- SmallBase
SPECIFICATION Spec
PROPERTY BaseIsReadOnly
CHECK_DEADLOCK FALSE
