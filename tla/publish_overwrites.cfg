SPECIFICATION Spec
CONSTANTS
  p1 = p1
  p2 = p2
  toml = toml
  readme = readme
  main = main
  Torn = Torn
  NoDir = NoDir
  Publishers = {p1, p2}
  FilesOf <- MCFilesOf
  MaxEdits = 0
  Concurrent = TRUE
PROPERTY VersionsAreFinal
