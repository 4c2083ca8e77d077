SPECIFICATION FairSpec
CONSTANTS
  Codes = {ok, failed}
  Died = died
  CopyErrors = {copyError}
  CallErrors = {callError}
  IpcError = ipcError
  InternalError = internalError
  TimeOutCode = timeout
  Unset = unset
  WaittingTime = 2
INVARIANTS
  AbortNeedsBothCallbacks
  LateDeathIsHarmless
PROPERTY
  OperationReturns
CHECK_DEADLOCK FALSE
