CONSTANTS
  Events = {1, 2}
  Relays = {r1}
  Consumers = {c1}
  NoConsumer = none
  RelayLimit = 1
  BatchLimit = 2
  OldSchema = {}
  Rejectable = {1}
  Crashing = {1}
  QuiescedRecovery = FALSE
  PunctualTicks = TRUE
  MaxRedrives = 2
  MaxId = 8
  MaxIncidents = 0
  c1 = c1
  c2 = c2
  r1 = r1
  r2 = r2

SPECIFICATION FairSpec
PROPERTY EventuallyHandled

CHECK_DEADLOCK FALSE
