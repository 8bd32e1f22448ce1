SPECIFICATION Spec
CONSTANTS
  N = 4
  Prio <- MCPrio
  Idle = 4
  Half = 2
  MaxBurst = 2
  WaitersMax = 2
  ClientChecks = TRUE
INVARIANTS TypeOK LoopFindsBest MutualExclusion HighestAwakeRuns NoStrandedWaiter
PROPERTY LockIsTaken
VIEW Same
