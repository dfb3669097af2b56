SPECIFICATION Spec
CONSTANTS
  lost = lost
  a = a
  b = b
  c = c
  draft = draft
  io = io
  near = near
  far = far
  mainFile = mainFile
  aFile = aFile
  nearB = nearB
  farB = farB
  cFile = cFile
  draftFile = draftFile
  NoFile = NoFile
  Names = {a, b, c, draft, lost, io}
  Builtin = {io}
  Files = {mainFile, aFile, nearB, farB, cFile, draftFile}
  Entry = mainFile
  BareEntry = FALSE
  Dir <- MCDir
  SearchDirs <- MCSearch
  Find <- MCFind
  Bad = {draftFile}
  Programs <- MCPrograms
  Order <- MCOrder
INVARIANTS LoadedIsClosed LoadedIsAcyclic CycleIsReal NoMissingModule ExportsAreReady
PROPERTY CompileEnds
CHECK_DEADLOCK FALSE
