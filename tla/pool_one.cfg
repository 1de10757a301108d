SPECIFICATION PoolFairSpec
CONSTANTS
  Worker = {w1}
  Task = {t1, t2, t3}
  Main = Main
  Sync = Sync
  Pill = Pill
  Null = Null
  UsesSyncAwait = FALSE
PROPERTY
  AwaiterFollows
