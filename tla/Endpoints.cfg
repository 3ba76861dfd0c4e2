SPECIFICATION EitherSpec
CONSTANTS
  Scripts <- MCScripts
  Endpoints = {"chat", "chat+usage", "responses", "collected"}
  Depth = 2
  Faults = {"early"}
  Clients <- MCClients
  OutboundDepth = 1
  ServerFaults = {"hangup", "stdout", "oversize"}
INVARIANTS
  TurnRendered
  RepliesFirst
PROPERTIES
  ResponseLive
  ServerLive
CHECK_DEADLOCK FALSE
