SPECIFICATION DrainedSpec
CONSTANTS
  c1 = c1
  c2 = c2
  Reader = Reader
  Callers <- MCCallers
  Oversized = {}
  Droppable <- MCDroppable
  MaxAttempts = 1
  PipeCap = 1
  MaxAsks = 1
PROPERTIES
  CommandReturns
  ReaderProgresses
CHECK_DEADLOCK FALSE
