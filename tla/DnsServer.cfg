SPECIFICATION Spec
CONSTANTS
  Hosts = {"s", "h", "u"}
  Configured = {"s", "h"}
  Names <- MCNames
  Addresses = {"ip1", "ip2"}
  Defaults <- MCDefaults
  MaxEntries = 2
  MaxName = 6
  MaxFree = 2
  MaxWire = 1
INVARIANTS
  RightAnswer
  HttpResolves
CHECK_DEADLOCK FALSE
