SPECIFICATION Spec
CONSTANTS
  a1 = a1
  a2 = a2
  i1 = i1
  resume = resume
  Observer = Observer
  None = None
  Approvals <- MCApprovals
  Inputs <- MCInputs
  Repeated = {}
  Pulls <- MCPulls
  Scenes <- MCScenes
  MaxDialogs = 4
  Faults = {"host"}
INVARIANTS
  TypeOK
  OneDialogAtATime
  DecidedAsAnswered
  PromptedOnce
  WaitersReleased
PROPERTIES
  AsksSettle
CHECK_DEADLOCK FALSE
