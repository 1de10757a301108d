SPECIFICATION Spec
CONSTANTS
  Coro = {c1, c2, c3, c4}
  Codes = {ok}
  Null = Null
  Main = Main
  Borrowable = {c1}
  DropUnfinished = TRUE
  SelectBorrowable = FALSE
  MultiFails = FALSE
  Budget = 6
SYMMETRY Sym
INVARIANT
  DestroyedNeverRuns
