SPECIFICATION CDCSpec
CONSTANTS
  a = a
  b = b
  Task = {a, b}
  None = None
  Byte = {0, 1}
  Sends <- MCSendsFull
  Lengths <- MCLengthsFull
  TxCapacity = 4
  RxCapacity = 4
  MaxPacket = 4
  OutOffset = 3
  LOCK_WAITERS_MAX = 4
  Packets <- MCPacketsFull
  blockUntilCallbacks = TRUE
PROPERTY PacketsKept
