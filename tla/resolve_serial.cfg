SPECIFICATION FairSpec
CONSTANTS
  b1 = b1
  b2 = b2
  Names = {"a", "x", "y"}
  Versions = {1, 2}
  Catalog <- MCCatalog
  Unusable <- NoPackages
  Manifests <- MCManifests
  Files = {"toml", "main"}
  Builders = {b1}
  MaxTampers = 1
  Concurrent = FALSE
  Absent = Absent
  NoLock = NoLock
  BrokenLock = BrokenLock
  Edited = Edited
INVARIANTS TypeOK ResolvedIsNeeded LockClosed LockedAreWhole BuildSeesNeeded BuildReadsLocked
PROPERTY ResolveEnds
