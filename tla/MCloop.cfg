SPECIFICATION FairSpec
CONSTANTS
  Sockets <- MCThreeSockets
  MaxClients = 2
  Kinds = {"netcat", "irssi", "other"}
  FdsSize = 4
  MaxBacklog = 1
  Lines = {"/STOP", "text"}
CHECK_DEADLOCK FALSE
INVARIANTS
  TypeOK
  SlotsMatchClients
  NeverOverrun
  OnlyLastSlotStale
PROPERTIES
  ImplementsConnections
  Served
  StopObeyed
