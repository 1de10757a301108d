SPECIFICATION PoolFairSpec
CONSTANTS
  Worker = {w1, w2}
  Task = {t1, t2, t3}
  Main = Main
  Sync = Sync
  Pill = Pill
  Null = Null
  UsesSyncAwait = TRUE
INVARIANTS
  FramesAlive
  RunByOne
  NoSleepingPool
  PillForEachWorker
PROPERTIES
  QueuedTaskRuns
  JoinReturns
