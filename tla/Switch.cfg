CONSTANTS
  Switches = {"s1", "s2"}
  Stations = {"a", "b", "c", "r"}
  Vlans = {1, 2}
  Ports <- MCPorts
  Owner <- MCOwner
  Far <- MCFar
  Access <- MCAccess
  Behind <- MCBehind
  TableSize = 2
  MaxFrames = 3
SPECIFICATION Spec
INVARIANTS
  VlanIsolation
  LearnedTowards
  Delivered
CHECK_DEADLOCK FALSE
