SPECIFICATION FairCheckSpec
CONSTANTS
  Messages = {m1, m2}
  Command = command
  Nobody = nobody
INVARIANTS
  NoLostOrForgedWakeUp
PROPERTY
  AnsweredCheckReturns
CHECK_DEADLOCK FALSE
