CONSTANTS
  Low = {a}
  Medium = {b}
  High = {c}
  Idle = idle
  NoTask = NoTask
  TickModulus = 4
  QueueLength = 1
  IsMutex = TRUE
  BlockTimes = {0,2}
  Delays = {1}
  MaxMissed = 2
  MaxLock = 1
SPECIFICATION Spec
INVARIANTS OneList NoInversion TicksNeverSlip DelayedInTime
