SPECIFICATION Spec
CONSTANTS
  Sockets <- MCTwoSockets
  MaxClients = 2
  Kinds = {"refused"}
  FdsSize = 5
  MaxBacklog = 1
  Lines = {}
CHECK_DEADLOCK FALSE
INVARIANT
  NeverAborted
