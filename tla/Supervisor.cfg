SPECIFICATION Spec
CONSTANTS
  r1 = r1
  r2 = r2
  Clients <- MCClients
  MaxRestarts = 2
INVARIANTS
  TypeOK
  OneLiveHost
  RefusalIsTruthful
PROPERTIES
  RestartsJustified
  ImplementsService
  Responsive
CHECK_DEADLOCK FALSE
