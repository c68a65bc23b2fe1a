CONSTANTS
  Proc = {p1, p2}
  Seg = {s1, s2}
  NoProc = NoProc
  OwnerDied = OwnerDied
  NoSeg = NoSeg
  Key = {1, 2, 3}
  Cap = 3
  IdMod = 2
  IdStop = 2
  VersionMod = 100
  VersionStop = 5
  RefStop = 0
  Calls <- Lifecycle
  CrashAt <- NoCrash
  Overlap = FALSE
  IoFaults = FALSE
SYMMETRY Symmetry
SPECIFICATION Spec
INVARIANTS
  IdsUnique
