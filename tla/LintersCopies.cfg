SPECIFICATION Spec
CONSTANTS
  a = a
  b = b
  c = c
  d = d
  Paths = {a, b, c}
  Rules <- GetLayerRules
  Worlds <- MCWorldsWithCopies
INVARIANT ErrorAlwaysNamesDemandedLayer
