CONSTANTS
  Proc = {p1, p2}
  Seg = {s1, s2}
  NoProc = NoProc
  OwnerDied = OwnerDied
  NoSeg = NoSeg
  Key = {1}
  Cap = 1
  IdMod = 100
  IdStop = 1
  VersionMod = 100
  VersionStop = 2
  RefStop = 0
  Calls <- Lifecycle
  CrashAt <- NoCrash
  Overlap = TRUE
  IoFaults = FALSE
SYMMETRY Symmetry
SPECIFICATION Spec
INVARIANTS
  SharedView
