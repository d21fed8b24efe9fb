SPECIFICATION SumSpec
CONSTANTS
  Submitters = {a1, a2}
  a1 = a1
  a2 = a2
  b1 = b1
  b2 = b2
  Requests = {b1, b2}
  MaxRuns = 2
  Drafters = {a1, a2}
  Commands = {b1, b2}
  MaxJobs = 2
  Couriers = {a1, a2}
  Renderers = {b1, b2}
  Sweepers = {w1}
  w1 = w1
  Own = {}
  MaxFences = 2
  MaxExports = 2
  Clients = {a1, a2}
  Words = {p1, p2}
  p1 = p1
  p2 = p2
  MaxChanges = 3
  MaxSessions = 2
  MaxTickets = 2
  Checks = {v1}
  v1 = v1
  MaxTokens = 1
  MaxSwitches = 2
SYMMETRY Alike
INVARIANTS
  IntakeSound
  TitleJobsSettle
  ExportsSound
  SessionsSound
  NoStaleAuthority
PROPERTIES
  DecisionsStand
CHECK_DEADLOCK FALSE
