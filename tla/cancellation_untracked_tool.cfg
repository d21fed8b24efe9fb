CONSTANTS
  r1 = r1
  w1 = w1
  w2 = w2
  t1 = t1
  t2 = t2
  x1 = x1
  x2 = x2
  Runs = {r1}
  Workers = {w1, w2}
  Ticks = {t1}
  Executors = {x1}
  MaxSequence = 3
  MaxAttempts = 2
  MaxJobAttempts = 2
  Drainable = {}
  Retryable = {}
  Sandboxed = {}
  Punctual = TRUE
  Tracked = {}
SYMMETRY Symmetry
SPECIFICATION SystemSpec
INVARIANTS
  CancelledMeansStopped
CHECK_DEADLOCK FALSE
