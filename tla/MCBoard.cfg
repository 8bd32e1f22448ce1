SPECIFICATION BoardSpec
CONSTANTS
  a = a
  b = b
  x = x
  y = y
  idle = idle
  Main = Main
  NULL = NULL
  Caller = {Main, a, b, x, y, idle}
  User = {Main, a, b, x, y, idle}
  Sizes <- MCSizes
  Align = 4
  Capacity = 80
  Wrap = 128
  TASK_MAX = 4
  RecordSize = 6
  Creates <- MCCreates
  Mallocs <- MCMallocs
  Pin = {1, 2, 3, 4, 5}
  LEDPins <- MCLEDPins
  USBPins <- MCUSBPins
  TaskPins <- MCTaskPins
  Uses <- MCUses
  LitFirst <- MCLitFirst
INVARIANTS BoardTypeOK BlocksDisjoint ListedIsReady TasksListed LedsShow PinsConfigured
PROPERTY CreatesReturn
VIEW Same
CHECK_DEADLOCK FALSE
