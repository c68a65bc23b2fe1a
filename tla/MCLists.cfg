CONSTANTS
  Header = 4
  CellStop = 2
  NameStop = 2
  Cap = 7
  BlockSize = 3
  DeathStop = 2
  Proc = {p1, p2}
  Seg = {s1, s2}
  NoProc = NoProc
  OwnerDied = OwnerDied
  NoSeg = NoSeg
  Key = {1, 2, 3}
  TaskCap = 2
  IdMod = 100
  IdStop = 2
  VersionMod = 100
  VersionStop = 4
SYMMETRY Symmetry
SPECIFICATION MCSpec
INVARIANTS
  BytesInv
  FileHoldsSaved
  FileHoldsList
PROPERTIES
  TearSparesPrefix
