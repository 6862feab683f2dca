SPECIFICATION Spec
CONSTANTS
  a = a
  b = b
  c = c
  Paths = {a, b}
  MaxForeign = 2
  MaxRestarts = 1
SYMMETRY Symmetry
INVARIANTS TypeOK SavedBeforeDeleted OnlyTouchedDiffer
PROPERTY ImplementsAtomicStore
