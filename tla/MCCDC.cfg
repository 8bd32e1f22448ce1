SPECIFICATION CDCSpec
CONSTANTS
  a = a
  b = b
  Task = {a, b}
  None = None
  Byte = {0, 1}
  Sends <- MCSends
  Lengths <- MCLengths
  TxCapacity = 2
  RxCapacity = 3
  MaxPacket = 2
  OutOffset = 2
  LOCK_WAITERS_MAX = 4
  Packets <- MCPackets
  blockUntilCallbacks = TRUE
PROPERTIES CDCSendIsFifo CDCReceiveIsFifo CDCCallsReturn
