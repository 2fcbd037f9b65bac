CONSTANTS
  BufferSize = 2
  MaxSegment = 2
  ClientStream = 3
  ServerStream = 1
  ISN <- MCISN
  MaxStream <- MCMaxStream
SPECIFICATION Spec
INVARIANTS
  TypeOK
  EofComplete
  SendBufferUnacked
  NoPhantomAck
  HandshakeAgreement
  CloseAgreement
CHECK_DEADLOCK FALSE
