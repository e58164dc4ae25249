CONSTANTS
  MaxAborts = 4
  MaxPulls = 2
SPECIFICATION Spec
INVARIANTS TypeOK ReportIsLastAbort CountIsAbortsSinceReport NothingPendingWhileRunning
PROPERTY EveryAbortIsReported
