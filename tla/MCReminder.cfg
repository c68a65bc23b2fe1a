CONSTANTS
  Account = {a, b}
  NoAccount = NoAccount
  NoTime = NoTime
  ClockStop = 3
  EditStop = 1
  LoginStop = 2
SPECIFICATION FairSpec
INVARIANTS
  ReminderInv
  EachMinuteOnce
PROPERTIES
  OfAccount
  JoinReturns
  RemindsInTime
