SPECIFICATION Spec
CONSTANTS
  d = d
  old = old
  r1 = r1
  r2 = r2
  r3 = r3
  a1 = a1
  None = None
  Durable = {d}
  Stale = {old}
  Reqs <- MCReqs
  Plans <- MCPlans
  Asks = {a1}
  Ring = 3
  MaxGen = 2
  Faults = {"crash", "refuse"}
INVARIANTS
  ModeTruthful
PROPERTIES
  Attended
CHECK_DEADLOCK FALSE
