SPECIFICATION FairEasySpec
CONSTANTS
  Task = {t1, t2}
  Easy = {e1, e2}
  Codes = {ok, failed}
  Busy = busy
  Main = main
  Null = null
  AbandonLent = FALSE
INVARIANTS
  OwnTransfer
  OnlySupersededSleep
PROPERTIES
  LastPerformEnds
  NamedByCoroutine
