SPECIFICATION Spec
CONSTANTS
  MaxOptions = 4
  Waits = {4, 5, 179, 180, 600, 601}
INVARIANTS
  RefusedLineRunsNothing
  OperationHasItsArguments
CHECK_DEADLOCK FALSE
