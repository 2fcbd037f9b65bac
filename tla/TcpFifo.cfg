CONSTANTS
  BufferSize = 2
  MaxSegment = 2
  ClientStream = 2
  ServerStream = 2
  ISN <- MCISN
  MaxStream <- MCMaxStream
SPECIFICATION FifoSpec
INVARIANTS
  QuiescentAgreement
PROPERTIES
  OpenCompletes
  AllArrives
  CloseCompletes
CHECK_DEADLOCK FALSE
