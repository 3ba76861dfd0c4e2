SPECIFICATION Spec
CONSTANTS
  Faults = {"start", "ack", "page"}
  p1 = p1
  p2 = p2
  s1 = s1
  a1 = a1
  None = None
  Prompts <- MCPrompts
  Steers <- MCSteers
  Asks <- MCAsks
  Lone = TRUE
  Sends <- MCSends
  Closing = {2}
INVARIANTS
  TypeOK
  EntriesDriven
  AnsweredOnce
  OnePromptEndsIdle
PROPERTIES
  CancelSettles
  RequestSettles
CHECK_DEADLOCK FALSE
