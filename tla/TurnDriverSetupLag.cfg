SPECIFICATION SafeSpec
CONSTANTS
  Items <- MCItems
  Scripts <- MCPlain
  Ring = 2
  Depth = 1
  PageLimit = 1
  MaxPages = 2
  MaxHoles = 0
  Others = FALSE
  Faults = {"lag"}
INVARIANTS
  NothingMissing
CHECK_DEADLOCK FALSE
