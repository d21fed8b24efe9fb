CONSTANTS
  t1 = t1
  t2 = t2
  search = search
  look = look
  Threads = {t1, t2}
  Tools = {search, look}
  Searches = {search}
  ToolTokens <- MCToolTokens
  Amounts = {2}
  Usages = {0, 3}
  Capped = TRUE
  TokenLimit = 5
  FinalReserve = 2
  Rounds = 2
  ToolLimit = 1
  SearchLimit = 1
  MaxAttempts = 2
SYMMETRY Symmetry
SPECIFICATION Spec
INVARIANTS
  CountersTell
  NeverOverspent
  UnknownCounted
  NothingLeftOpen
PROPERTIES
  ClosedOut
CHECK_DEADLOCK FALSE
