SPECIFICATION Spec
CONSTANTS
  Alphabets <- MCAlphabets
  MaxTyped = 6
  Indents = {0, 1, 2, 3, 4}
  MaxLines = 5
INVARIANTS TokensSurvive  BlocksSurvive
CHECK_DEADLOCK FALSE
