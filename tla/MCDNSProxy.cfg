SPECIFICATION FairSpec
CONSTANTS
  BufferSize = 3
  Byte <- MCByte
  SocketBuffer = 1
  MaxBytes = 3
  Resets = TRUE
INVARIANTS
  AssertionsHold
  Transparent
PROPERTIES
  Ends
  Relayed
CHECK_DEADLOCK FALSE
