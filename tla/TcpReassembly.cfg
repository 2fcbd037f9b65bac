CONSTANTS
  BufferSize = 4
  MaxSegment = 3
  ClientStream = 5
  ServerStream = 0
  ISN <- MCISN
  MaxStream <- MCMaxStream
SPECIFICATION Spec
INVARIANTS
  StreamIntegrity
  ReceiveWindow
PROPERTY
  ImplementsByteStream
CHECK_DEADLOCK FALSE
