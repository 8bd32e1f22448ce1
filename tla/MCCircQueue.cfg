SPECIFICATION Spec
CONSTANTS
  Value   <- MCValue
  Zero    = 0
  NumElem = 4
  Buffers <- MCBuffers
  Wants   <- MCWants
INVARIANTS TypeOK NoAbort SlotsDisjoint ContigHonoured AvailHonoured
PROPERTIES ImplementsFifo CallsReturn
