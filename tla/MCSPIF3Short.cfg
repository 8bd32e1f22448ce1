SPECIFICATION Spec
CONSTANTS
  a = a
  b = b
  v = v
  w = w
  x = x
  y = y
  z = z
  None = None
  Task = {a, b}
  Transfer = {v, w, x, y, z}
  Lists <- MCLists
  slave <- MCSlave
  noDeselect <- MCNoDeselect
  xferLen <- MCLenShort
  PosWrap = 8
  MAXNUM_TRANSFERS = 2
  LOCK_WAITERS_MAX = 4
PROPERTY ListCompletes
