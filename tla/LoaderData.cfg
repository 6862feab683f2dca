SPECIFICATION Spec
CONSTANTS
  a = a
  b = b
  XR_DISABLE = XR_DISABLE
  PATH = PATH
  Layers = {a, b}
  Extensions = {"XR_EXT_hand_tracking"}
  Variables = {XR_DISABLE, PATH}
  Contents = {"0", "1"}
  DisableEnv <- MCDisableEnv
  NoVariable = NoVariable
  Shown = {XR_DISABLE}
  getenv = {PATH}
  MaxChanges = 2
\* The helper ends.
CHECK_DEADLOCK FALSE
INVARIANTS LoaderDataTypeOK BlockedByRuntime SkippedWasNotListed ReportIsCensored
