SPECIFICATION Spec
CONSTANTS
  Hosts = {"s", "h1", "h2"}
  Static <- MCStatic
  FirstOctet = 2
  EndOctet = 7
  MaxClients = 2
  MaxCalls = 6
INVARIANTS
  NoDoubleLease
CHECK_DEADLOCK FALSE
