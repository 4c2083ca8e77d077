SPECIFICATION Spec
CONSTANT
  MaxOptions = 8
INVARIANTS
  RefusedLineCallsNothing
  CallIsComplete
  ReportTellsTheOutcome
CHECK_DEADLOCK FALSE
