CONSTANTS
  Events = {1, 2}
  Relays = {r1}
  Consumers = {c1}
  NoConsumer = none
  RelayLimit = 2
  BatchLimit = 2
  OldSchema = {1}
  Rejectable = {1}
  Crashing = {}
  QuiescedRecovery = TRUE
  PunctualTicks = TRUE
  MaxRedrives = 1
  MaxId = 8
  MaxIncidents = 3
  c1 = c1
  c2 = c2
  r1 = r1
  r2 = r2

SPECIFICATION FairSpec
INVARIANT NeverOrphaned
PROPERTY EventuallyHandled
PROPERTY DeliverySpec

CHECK_DEADLOCK FALSE
