SPECIFICATION Spec
CONSTANTS
  Programs <- MCScopes
  ProgramOf <- MCProgramOf
  StructOrder <- MCStructOrder
  MaxInstances = 8
INVARIANT NamesMeanWhatWasChecked
CHECK_DEADLOCK FALSE
