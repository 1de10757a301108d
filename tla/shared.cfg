SPECIFICATION Spec
CONSTANTS
  Coro = {c1, c2, c3, c4}
  Codes = {ok}
  Null = Null
  Main = Main
  Borrowable = {c1, c2}
  DropUnfinished = FALSE
  SelectBorrowable = FALSE
  MultiFails = FALSE
  Budget = 7
SYMMETRY Sym
INVARIANTS
  NoDanglingHandle
  WokenOnce
  NoLostWakeup
  AllDoneInMain
PROPERTY
  ImplementsTaskGraph
