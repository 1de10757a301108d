SPECIFICATION ExamplesSpec
CONSTANTS
  Coro = {c1, c2, c3, c4, c5, c6, c7}
  Codes = {ok, failed}
  Ok = ok
  Null = null
  Main = main
  Borrowable = {c1, c2, c3, c4, c5, c6, c7}
  DropUnfinished = TRUE
  SelectBorrowable = TRUE
  MultiFails = FALSE
  Budget = 20
  Depth = 3
  Attempts = 2
INVARIANTS
  MainFindsResults
  NoExceptionLost
  DownloadsInParallel
PROPERTY ProgramEnds
