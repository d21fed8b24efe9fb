SPECIFICATION InvestigationSpec
CONSTANTS
  MaxRounds = 2
  MaxCrashes = 1
PROPERTY AnswerSawSearch
CHECK_DEADLOCK FALSE
