SPECIFICATION Spec
CONSTANTS
  Bits = 4
  Ports <- MCPorts
  MaxRoutes = 4
  Routers = {"r1", "r2"}
  Stations = {"a", "b"}
  InterfaceIp <- MCInterfaceIp
  Table <- MCTable
  StationIp <- MCStationIp
  Segment <- MCSegment
  Vlan <- MCVlan
  Gateway <- MCGateway
  Sends <- MCSends
  Pings <- MCPings
  QueueSize = 2
  TableSize = 4
  MaxAttempts = 2
  Interval = 1
  DefaultTtl = 3
  MaxPackets = 2
INVARIANTS
  OnePlace
  SharedRetry
  NeverAstray
PROPERTIES
  AllSettle
CHECK_DEADLOCK FALSE
