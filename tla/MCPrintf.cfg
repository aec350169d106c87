CONSTANTS
  Args = {0, 1, 255}
  Lengths = {0, 3}
  Sizes = {0, 1, 3}
  Word = 256
  SIZE_MAX = 1000000
  MaxFormat = 6
SPECIFICATION Spec
INVARIANTS
  BufferKept
  ReadsWithin
PROPERTIES
  FieldExact
CHECK_DEADLOCK FALSE
