SPECIFICATION Spec
CONSTANTS
  Bits = 3
  Ports <- MCPorts
  MaxRoutes = 4
  NodeType <- MCNodeType
  Requested = {1, 4}
  Delays = {5}
  Leased = {2}
  Files <- MCFiles
  MaxPort = 2
  MaxNodes = 3
  MaxLinks = 2
  Services = {"dns"}
  MaxFlying = 1
INVARIANTS
  TopologySound
  SavedComesBack
  LookupIsLongest
CHECK_DEADLOCK FALSE
