CONSTANTS
  Events = {1}
  Relays = {r1}
  Consumers = {c1}
  NoConsumer = none
  RelayLimit = 1
  BatchLimit = 2
  OldSchema = {}
  Rejectable = {1}
  Crashing = {}
  QuiescedRecovery = FALSE
  PunctualTicks = FALSE
  MaxRedrives = 2
  MaxId = 3
  MaxIncidents = 2
  c1 = c1
  c2 = c2
  r1 = r1
  r2 = r2

SPECIFICATION Spec
INVARIANT NeverOrphaned

CHECK_DEADLOCK FALSE
