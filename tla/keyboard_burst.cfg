SPECIFICATION Spec
CONSTANTS
  Keys = {"letter", "space"}
  Size = 3
  MaxKeys = 4
  MaxWire = 1
INVARIANTS RecentNotLost
CHECK_DEADLOCK FALSE
