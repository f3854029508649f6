SPECIFICATION Spec
CONSTANTS
  t1 = t1
  t2 = t2
  t3 = t3
  Threads <- MCThreads
  NoThread = NoThread
  BadThread = BadThread
  MaxCommands = 3
INVARIANTS
  TypeOK
  ActiveHasThread
  OneStream
PROPERTIES
  EnableServed
  StopReturns
CHECK_DEADLOCK FALSE
