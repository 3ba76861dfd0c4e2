SPECIFICATION Spec
CONSTANTS
  Items <- MCItems
  Scripts <- MCLive
  Ring = 2
  Depth = 1
  PageLimit = 1
  MaxPages = 8
  MaxHoles = 0
  Others = TRUE
  Faults = {}
PROPERTIES
  TurnSettles
  CallerGoneCancels
  ApprovalsResolved
CHECK_DEADLOCK FALSE
