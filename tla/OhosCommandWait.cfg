SPECIFICATION Spec
CONSTANT
  MaxOptions = 2
INVARIANTS
  ShortWaitHasItsArgument
CHECK_DEADLOCK FALSE
