CONSTANTS
  r1 = r1
  w1 = w1
  w2 = w2
  t1 = t1
  t2 = t2
  x1 = x1
  x2 = x2
  Runs = {r1}
  Workers = {w1, w2}
  Ticks = {t1}
  Executors = {x1}
  MaxSequence = 3
  MaxAttempts = 2
  MaxJobAttempts = 2
  Drainable = {}
  Retryable = {r1}
  Sandboxed = {}
  Punctual = TRUE
  Tracked = {r1}
SYMMETRY Symmetry
SPECIFICATION SystemSpec
INVARIANTS
  SystemTypeOK
  EventsTellStatus
  OwnerStopped
  CancelledIsOver
PROPERTIES
  GatewayAgrees
  NoWayBack
CHECK_DEADLOCK FALSE
