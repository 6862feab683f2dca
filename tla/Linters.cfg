SPECIFICATION Spec
CONSTANTS
  a = a
  b = b
  c = c
  d = d
  Paths = {a, b, c, d}
  Rules <- GetLayerRules
  Worlds <- MCWorlds
INVARIANTS TypeOK NoErrorMeansRulesHold ErrorNamesDemandedLayer SkippedIsExplained
PROPERTIES FixItFixes FixThemSettles
