SPECIFICATION FairSpec
CONSTANTS
  Coro = {c1, c2, c3, c4}
  Codes = {ok}
  Null = Null
  Main = Main
  Borrowable = {c1}
  DropUnfinished = FALSE
  SelectBorrowable = FALSE
  MultiFails = FALSE
  Budget = 5
PROPERTIES
  AwaitsEnd
  BackInMain
