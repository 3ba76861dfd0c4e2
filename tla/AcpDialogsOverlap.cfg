SPECIFICATION SafeSpec
CONSTANTS
  a1 = a1
  a2 = a2
  i1 = i1
  resume = resume
  Observer = Observer
  None = None
  Approvals <- MCApprovals
  Inputs = {}
  Repeated = {}
  Pulls = {}
  Scenes <- MCOverlap
  MaxDialogs = 4
  Faults = {"overlap"}
INVARIANTS
  DecidedAsAnswered
CHECK_DEADLOCK FALSE
