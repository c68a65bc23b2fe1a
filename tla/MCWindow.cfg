CONSTANTS
  None = None
  Account = {a, b}
  NoAccount = NoAccount
  IdStop = 2
  EditStop = 1
  LoginStop = 3
SPECIFICATION FairSpec
INVARIANTS
  WindowInv
  PagesInv
  DetailIsOwn
PROPERTIES
  NeverBack
  JoinReturns
  Converges
CHECK_DEADLOCK FALSE
