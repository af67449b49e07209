SPECIFICATION Spec
CONSTANTS
  Programs <- Simple
  Kinds = {"Async"}
INVARIANT AwaitedOnce
CHECK_DEADLOCK FALSE
