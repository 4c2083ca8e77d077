SPECIFICATION FairSpec
CONSTANTS
  Users = {u100, u101}
  Unspecified = unspecified
  NoUser = noUser
  CallErrors = {callError}
  MaxOptions = 4
  MaxWaitingTime = 2
INVARIANTS
  BadLineCleansNothing
  CleansOneKind
  SuccessIsTrue
  CleansForegroundUser
PROPERTY
  CommandReturns
CHECK_DEADLOCK FALSE
