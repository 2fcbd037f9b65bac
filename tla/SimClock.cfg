CONSTANTS
  Links <- MCLinks
  Delay <- MCDelay
  Speeds = {1, 2}
  StepMs = 3
  MaxSlots = 2
  MaxPackets = 3
  MaxTime = 5
SPECIFICATION Spec
INVARIANTS
  InFlightOnce
  TickComplete
PROPERTIES
  TimeContinuous
