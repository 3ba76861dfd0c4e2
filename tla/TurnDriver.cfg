SPECIFICATION SafeSpec
CONSTANTS
  Items <- MCItems
  Scripts <- MCScripts
  Ring = 2
  Depth = 1
  PageLimit = 1
  MaxPages = 3
  MaxHoles = 1
  Others = TRUE
  Faults = {"drop", "setup", "page", "decide"}
INVARIANTS
  TypeOK
  NothingMissing
  NothingTwice
PROPERTIES
  EndsOnce
CHECK_DEADLOCK FALSE
