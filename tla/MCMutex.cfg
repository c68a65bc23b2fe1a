CONSTANTS
  t1 = t1
  t2 = t2
  t3 = t3
  Thread = {t1, t2, t3}
  Process <- Three
  Nobody = Nobody
  NotRecoverable = NotRecoverable
  OwnerDied = OwnerDied
  SignalStop = 2
  DeathStop = 2
  Opener = {p1, p2, p3}
  Segment = {s1, s2}
  None = None
  HandleStop = 2
  OpenerStop = 1
  Proc = {p1, p2}
  Path = {here, there}
  Starts <- MCStarts
  Password = {w1, w2}
  NoFile = NoFile
  EmptyFile = EmptyFile
  NoKey = NoKey
SPECIFICATION MCSpec
INVARIANTS
  MutexInv
  NamedInv
  MutualExclusion
  AccountsInv
  TokenHasFileKey
  ExistsMeansUsable
PROPERTIES
  ImplementsRobustLock
  LockReturns
  KeyKept
  CallReturns
