CONSTANTS
  Proc = {p1, p2}
  Seg = {s1, s2, s3}
  NoProc = NoProc
  OwnerDied = OwnerDied
  NoSeg = NoSeg
  Key = {1, 2}
  Cap = 1
  IdMod = 100
  IdStop = 2
  VersionMod = 100
  VersionStop = 2
  RefStop = 3
  Calls <- Lifecycle
  CrashAt <- AnyPlace
  Overlap = FALSE
  IoFaults = TRUE
SPECIFICATION FairSpec
INVARIANTS
  TypeOK
  LockHeld
  RefCovers
  SharedView
PROPERTY CallReturns
