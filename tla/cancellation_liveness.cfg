CONSTANTS
  r1 = r1
  w1 = w1
  w2 = w2
  t1 = t1
  t2 = t2
  x1 = x1
  x2 = x2
  Runs = {r1}
  Workers = {w1}
  Ticks = {t1}
  Executors = {x1}
  MaxSequence = 2
  MaxAttempts = 1
  MaxJobAttempts = 2
  Drainable = {"agent", "business"}
  Retryable = {r1}
  Sandboxed = {}
  Punctual = FALSE
  Tracked = {r1}
SPECIFICATION FairSystemSpec
PROPERTIES
  CancellationEnds
CHECK_DEADLOCK FALSE
