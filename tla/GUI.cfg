SPECIFICATION GUIFairSpec
CONSTANTS
  x64 = x64
  hkcu = hkcu
  hklm = hklm
  Archs = {x64}
  Stores = {hkcu, hklm}
  LayerSets = {hkcu}
  MaxChanges = 1
  HelpersMayHang = FALSE
INVARIANTS GUITypeOK NoFlagLeftAsleep LayersAreFollowed ErrorsAreAboutLayers
PROPERTY EventuallyCurrentOrOverwritten
