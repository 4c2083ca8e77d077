SPECIFICATION Spec
CONSTANTS
  MaxOptions = 2
  Waits = {4, 5, 179, 180, 600, 601}
INVARIANTS
  PluginHasItsArguments
CHECK_DEADLOCK FALSE
