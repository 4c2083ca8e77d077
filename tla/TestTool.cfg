SPECIFICATION Spec
CONSTANT
  Uids = {"root", "app", "other"}
INVARIANTS
  RefusedLineCallsNothing
  CallIsComplete
  CallerIsAsAsked
  OutcomeIsTold
CHECK_DEADLOCK FALSE
