SPECIFICATION SumSpec
CONSTANTS
  MaxRounds = 2
  MaxCrashes = 1
  Keys = {1, 2}
  MaxTurns = 1
  MaxFences = 2
  Callers = {c1, c2}
  c1 = c1
  c2 = c2
  MaxScopes = 2
  MaxLeases = 3
  MaxQuickAttempts = 2
  MaxSources = 2
INVARIANTS
  AnswersSound
  AnswerAfterTasks
  AskedTwiceAtMost
PROPERTIES
  DeliveredStands
  AnsweredOnce
  SinglePublishes
CHECK_DEADLOCK FALSE
