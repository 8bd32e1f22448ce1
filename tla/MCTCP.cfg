SPECIFICATION Spec
CONSTANTS
  TASK_MAX = 3
  Thread = {1, 2}
  TCPTask = 1
  Task = {2}
  None = 0
  Half = 2
  TickHalf = 4
  MaxLag = 1
  Sleeps <- MCSleeps
  Byte = {0, 1}
  Sends <- MCSends
  Lengths <- MCLengths
  TxCapacity = 2
  RxCapacity = 1
  Chunks <- MCChunks
  SocketSize = 1
  MaxTraffic = 2
  blockUntilCallbacks = TRUE
INVARIANTS TypeOK WakeIsSeen
PROPERTIES SendIsFifo ReceiveIsFifo CallsReturn
VIEW Same
