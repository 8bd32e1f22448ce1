SPECIFICATION DMASpec
CONSTANTS
  a = a
  b = b
  w = w
  x = x
  y = y
  z = z
  None = None
  Task = {a, b}
  Transfer = {w, x, y, z}
  Lists <- MCListsTwo
  slave <- MCSlave
  noDeselect <- MCNoDeselect
  speed <- MCSpeed
  RefSpeed = 1152
  MAXNUM_TRANSFERS = 2
  LOCK_WAITERS_MAX = 4
INVARIANT NoAbort
