SPECIFICATION Spec
CONSTANTS
  Scripts <- MCScripts
  Answers <- MCAnswers
  MaxCalls = 2
  MaxSignals = 2
  Half = 8
INVARIANTS
  ResultsAreTrue
  NothingLeftBehind
  RandomIsFair
CHECK_DEADLOCK FALSE
