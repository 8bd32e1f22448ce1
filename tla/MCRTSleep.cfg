SPECIFICATION Spec
CONSTANTS
  N = 3
  Prio <- MCPrio
  Idle = 3
  Half = 3
  MaxBurst = 3
  TickHalf = 8
  MaxLag = 2
  Sleeps <- MCSleeps
INVARIANT SleeperIsTicked
PROPERTIES SleepsLongEnough AwakeStaysAwake SleepEnds
VIEW Same
