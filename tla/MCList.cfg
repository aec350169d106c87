CONSTANTS
  Heads = {h1, h2}
  Entries = {e1, e2, e3, e4}
  NULL = NULL
SPECIFICATION Spec
INVARIANTS TypeOK WellLinked SameList
PROPERTIES ImplementsListSpec EachAsNamed
SYMMETRY Symmetry
