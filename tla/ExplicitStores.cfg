SPECIFICATION Spec
CONSTANTS
  p = p
  q = q
  Paths = {p, q}
  NoPath = NoPath
  RegistryStores <- MCRegistryStores
  Bitness <- MCBitness
  OverridePaths <- MCOverridePaths
  Keys <- MCKeys
  Manifests <- MCManifests
  Environments <- MCEnvironments
  MaxChanges = 1
\* The program may have terminated, or have nothing more to do.
CHECK_DEADLOCK FALSE
INVARIANTS ExplicitTypeOK NothingBrokenGoesUnsaid AbsenceIsReal SignalledTabsAreCurrent
