SPECIFICATION PoolFairSpec
CONSTANTS
  Worker = {w1}
  Task = {t1, t2}
  Main = Main
  Sync = Sync
  Pill = Pill
  Null = Null
  UsesSyncAwait = TRUE
PROPERTY
  AwaiterFollows
