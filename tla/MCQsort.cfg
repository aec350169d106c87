CONSTANT
  Inputs <- MCInputs
SPECIFICATION Spec
INVARIANTS
  PointersInOrder
  Partitioned
  OrderedAcross
  SameElements
PROPERTY Ends
CHECK_DEADLOCK FALSE
