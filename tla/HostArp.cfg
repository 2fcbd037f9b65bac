CONSTANTS
  Hosts = {"h1", "h2", "h3"}
  Absent = {}
  Unconfigured = {"h1"}
  Gateway = "h3"
  QueueSize = 2
  TableSize = 1
  MaxAttempts = 2
  Interval = 1
  MaxStep = 2
  MaxPackets = 2
  Quota <- MCQuota
  Targets <- MCTargets
SPECIFICATION Spec
INVARIANTS
  Conservation
  SharedRetry
PROPERTIES
  FailsAfterAttempts
  PendingDrains
