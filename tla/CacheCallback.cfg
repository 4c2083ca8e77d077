SPECIFICATION FairSpec
CONSTANTS
  Threads = {t1, t2}
  Nobody = nobody
  Codes = {ok, failed}
  Ok = ok
  Values = {none, v1, v2}
  NoValue = none
  CallErrors = {callError}
  TimeOut = timeout
  MaxWaitingTime = 1
INVARIANTS
  NoFutureError
  NoRacyRead
  OutcomeOfOneCallback
PROPERTIES
  ImplementsOneShot
  CommandReturns
CHECK_DEADLOCK FALSE
