CONSTANTS
  Events = {1, 2}
  Relays = {r1}
  Consumers = {c1, c2}
  NoConsumer = none
  RelayLimit = 1
  BatchLimit = 2
  OldSchema = {2}
  Rejectable = {1}
  Crashing = {2}
  QuiescedRecovery = FALSE
  PunctualTicks = FALSE
  MaxRedrives = 2
  MaxId = 2
  MaxIncidents = 2
  c1 = c1
  c2 = c2
  r1 = r1
  r2 = r2

SPECIFICATION Spec
SYMMETRY Symmetry
INVARIANT TypeOK
INVARIANT AppliedAtMostOnce
INVARIANT NoSilentSkip
PROPERTY CursorNeverRegresses

CHECK_DEADLOCK FALSE
