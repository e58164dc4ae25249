CONSTANTS
  Low = {a}
  Medium = {}
  High = {c}
  Idle = idle
  NoTask = NoTask
  TickModulus = 4
  QueueLength = 1
  IsMutex = FALSE
  BlockTimes = {2, 3}
  Delays = {}
  MaxMissed = 1
  MaxLock = 1
SPECIFICATION Spec
INVARIANTS TypeOK HighestPriorityRuns NoLostWakeup BlockTimesKept
