SPECIFICATION SafeSpec
CONSTANTS
  c1 = c1
  c2 = c2
  Reader = Reader
  Callers <- MCCallers
  Oversized <- MCOversized
  Droppable <- MCDroppable
  MaxAttempts = 2
  PipeCap = 1
  MaxAsks = 1
INVARIANTS
  TypeOK
  NoWaiterLeak
  AdmittedAtMostOnce
  OutcomeTruthful
CHECK_DEADLOCK FALSE
