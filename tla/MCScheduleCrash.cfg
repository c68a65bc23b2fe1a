CONSTANTS
  Proc = {p1, p2}
  Seg = {s1, s2}
  NoProc = NoProc
  OwnerDied = OwnerDied
  NoSeg = NoSeg
  Key = {1, 2, 3}
  Cap = 2
  IdMod = 100
  IdStop = 2
  VersionMod = 100
  VersionStop = 3
  RefStop = 3
  Calls <- AllCalls
  CrashAt <- OutsideWindows
  Overlap = FALSE
  IoFaults = FALSE
SYMMETRY Symmetry
SPECIFICATION Spec
INVARIANTS
  StoredListsGood
  CacheCoherent
PROPERTIES
  ImplementsAtomic
