SPECIFICATION FairSpec
CONSTANTS
  Sockets <- MCTwoSockets
  MaxClients = 2
  Kinds = {"netcat", "irssi"}
  FdsSize = 4
  MaxBacklog = 1
  Lines = {"/STOP"}
CHECK_DEADLOCK FALSE
PROPERTY
  NeverBlocked
