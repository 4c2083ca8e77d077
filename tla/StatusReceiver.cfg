SPECIFICATION FairSpec
CONSTANTS
  Threads = {service, again, recipient}
  Codes = {ok, died}
  Msgs = {empty, text}
  EmptyMsg = empty
  TimeOutCode = timeout
  Unset = unset
  Nobody = nobody
  WaittingTime = 1
INVARIANTS
  NoFutureError
  OutcomeOfOneAnswer
  AnswerIsWhole
  WaitIsBounded
PROPERTIES
  ImplementsOneShot
  OperationReturns
  OnFinishedReturns
CHECK_DEADLOCK FALSE
