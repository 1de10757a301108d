SPECIFICATION Spec
CONSTANTS
  Coro = {c1, c2, c3, c4}
  Codes = {ok, fail}
  Null = Null
  Main = Main
  Borrowable = {}
  DropUnfinished = TRUE
  SelectBorrowable = FALSE
  MultiFails = TRUE
  Budget = 7
SYMMETRY Sym
INVARIANTS
  CounterIsStack
  NoDanglingHandle
  NoLostWakeup
  ResumedWithResult
  OwnCode
PROPERTY
  ImplementsTaskGraph
