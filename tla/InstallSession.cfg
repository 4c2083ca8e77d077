SPECIFICATION FairSessionSpec
CONSTANTS
  Threads = {service, recipient}
  Service = service
  Recipient = recipient
  Codes = {ok, failed, died}
  Ok = ok
  Died = died
  IpcError = ipcError
  Msgs = {empty, text}
  EmptyMsg = empty
  TimeOutCode = timeout
  Unset = unset
  Nobody = nobody
  WaittingTime = 1
  Refusals <- MCRefusals
  Translated <- MCTranslated
INVARIANTS
  SuccessIsTheServices
  DeathWouldBeNoticed
  FailureHasItsCause
PROPERTIES
  ImplementsReceiver
  SessionReturns
CHECK_DEADLOCK FALSE
