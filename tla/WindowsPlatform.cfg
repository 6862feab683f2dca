SPECIFICATION FairSpec
CONSTANTS
  x86 = x86
  x64 = x64
  hkcu = hkcu
  Archs = {x86, x64}
  Stores = {hkcu}
  MaxChanges = 1
  HelpersMayHang = TRUE
\* A helper that hangs outside the job stops the program at the join.
CHECK_DEADLOCK FALSE
INVARIANTS
  TypeOK
  FreshWhenSettled
  NoLostNotify
  NoStaleScreen
  KilledBeforeJoin
PROPERTIES
  EventuallyShown
  CloseExits
