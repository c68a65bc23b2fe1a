CONSTANTS
  t1 = t1
  t2 = t2
  t3 = t3
  Thread = {t1, t2, t3}
  Process <- Three
  Nobody = Nobody
  NotRecoverable = NotRecoverable
  OwnerDied = OwnerDied
  SignalStop = 2
  DeathStop = 0
  Opener = {p1, p2, p3}
  Segment = {s1, s2, s3}
  None = None
  HandleStop = 2
  OpenerStop = 0
  Proc = {p1, p2}
  Path = {here, there}
  Starts <- OneStart
  Password = {w1, w2}
  NoFile = NoFile
  EmptyFile = EmptyFile
  NoKey = NoKey
SPECIFICATION MCSpec
INVARIANTS
  Exclusive
