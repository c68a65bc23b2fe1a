CONSTANTS
  b1 = b1
  b2 = b2
  b3 = b3
  NoBlock = NoBlock
  Block <- MCBlock
  First = b1
  FirstSize = 2
  MaxSize = 4
  Ops = {"dequeue", "pop", "peek"}
  LastItem = 6
  IdStop = 3
  KeyStop = 4
  CallStop = 2
  Thread = {main, reminder}
  Main = main
  Which = {begin, remind}
  Typed <- MCReadings
  Summer <- MCSummer
  Zone = 2
  DayLength = 2
  TimeMod = 16
SPECIFICATION MCSpec
INVARIANTS
  QueueInv
  NothingMissed
  BoxInv
  ShownAsTyped
PROPERTIES
  ImplementsFifo
  OrderKept
  KeepChangesNothing
