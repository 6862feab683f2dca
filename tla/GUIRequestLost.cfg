SPECIFICATION GUIFairSpec
CONSTANTS
  x64 = x64
  hkcu = hkcu
  hklm = hklm
  Archs = {x64}
  Stores = {hkcu}
  LayerSets = {hkcu}
  MaxChanges = 1
  HelpersMayHang = FALSE
PROPERTY EventuallyCurrent
