SPECIFICATION Spec
CONSTANTS
  Size = 4
  Leaves = {"do", "defer", "break", "continue", "return", "return_call", "exit"}
  Deep = 7
  DeepLeaves = {"defer", "break", "continue", "return"}
  MaxRounds = 2
  Bodies <- MCBodies
INVARIANTS StacksFollowBlocks ReturnsOnAllPaths UnreachableIsDead
PROPERTIES ImplementsSource
CHECK_DEADLOCK FALSE
