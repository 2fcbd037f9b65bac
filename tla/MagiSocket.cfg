SPECIFICATION Spec
CONSTANTS
  Hosts = {h1, h2}
  Clients = {h1, h2}
  Servers = {h2}
  MaxFds = 3
  MaxSlots = 3
  MaxPort = 3
  BufferSize = 2
  AnswerSizes <- MCAnswerSizes
  MaxConns = 2
  MaxSends <- MCMaxSends
  MaxFlight = 1
INVARIANTS
  NoStaleDescriptor
  NoMixing
  EndsAgree
  RequestAnswered
CHECK_DEADLOCK FALSE
