SPECIFICATION Spec
CONSTANTS
  Programs <- MCPrograms
  ProgramOf <- MCProgramOf
  StructOrder <- MCStructOrder
  MaxInstances = 8
INVARIANTS
  TypesAgree
  BindingsAgree
  InstancesCover
  StructsOrdered
CHECK_DEADLOCK FALSE
