CONSTANTS
  MayFail = {}
  UnregisterWaits = {TRUE}
  MaxQueued = 1
SPECIFICATION Spec
INVARIANT NothingLeft

CHECK_DEADLOCK FALSE
