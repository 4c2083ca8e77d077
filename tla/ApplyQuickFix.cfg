SPECIFICATION FairSpec
CONSTANTS
  Own = own
  Foreign = {foreign}
  Codes = {ok, failed}
  Infos = {none, info}
  NoInfo = none
  Ok = ok
  CallErrors = {refused}
  TimeOutCode = timeout
  Unset = unset
  WaittingTime = 2
INVARIANTS
  LostResultIsATimeout
  ResultIsOwnWhenQuiet
  InfoIsOwnWhenQuiet
PROPERTY
  CommandReturns
CHECK_DEADLOCK FALSE
