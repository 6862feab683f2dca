SPECIFICATION Spec
CONSTANTS
  setup = setup
  installer = installer
  helper = helper
  updater = setup
  Processes = {setup, installer, helper}
  FramesPerCheck = 3
\* The program ends.
CHECK_DEADLOCK FALSE
INVARIANTS UpdaterTypeOK OnceOnly NothingLeftSuspended
PROPERTY LookingEnds
