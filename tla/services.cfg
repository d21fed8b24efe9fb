SPECIFICATION SumSpec
CONSTANTS
  a1 = a1
  a2 = a2
  b1 = b1
  b2 = b2
  c1 = c1
  query = query
  python = python
  Jobs = {query, python}
  Executors = {a1, a2}
  Retryable = {query}
  Sandboxed = {python}
  Punctual = FALSE
  MaxJobAttempts = 2
  Ingesters = {a1, a2}
  Parses = {b1, b2}
  MaxAttempts = 2
  MaxVersions = 2
  MaxRevisions = 4
  Extractors = {a1, a2}
  Facts = {c1}
  MaxJobs = 2
  MaxTries = 2
  MaxChunks = 2
  MaxEditions = 1
  MaxChanges = 3
  Rebuilders = {a1, a2}
  Topology = {b1, b2}
  MaxRevision = 3
  Originals = {b1, b2}
  Sweepers = {a1, a2}
  Ceiling = 1
  MaxRows = 3
  Readers = {a1, a2}
  Statements = {b1, b2}
  Sources = {s1}
  s1 = s1
  MaxNotes = 1
  MaxPending = 2
  MaxProposals = 2
  MaxSettings = 3
  MaxEpochs = 3
  MaxFailures = 1
SYMMETRY Alike
INVARIANTS
  ToolsSound
  VersionsSound
  ProjectionCurrent
  OriginalsKept
  SuggestedOnce
PROPERTIES
  ResultStands
  ShownInOrder
  FactsFenced
  MemoryFenced
CHECK_DEADLOCK FALSE
