SPECIFICATION FairSpec
CONSTANTS
  clean = clean
  messy = messy
  odd = odd
  broken = broken
  modular = modular
  accented = accented
  NoText = NoText
  NoDoc = NoDoc
  Docs = {"main"}
  Texts = {clean, messy, odd, broken, modular, accented}
  Lexes = {clean, messy, odd, modular, accented}
  Parses = {clean, messy, modular, accented}
  Imports <- MCImports
  Problems <- MCProblems
  Formatted <- MCFormatted
  Received <- MCReceived
  MaxSent = 5
INVARIANTS OneAnswerEach FormatsWhatWasSeen DiagnosticsAreCurrent
PROPERTIES ServerEnds RequestsAreAnswered
CHECK_DEADLOCK FALSE
