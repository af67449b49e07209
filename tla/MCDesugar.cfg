SPECIFICATION Spec
CONSTANTS
  Programs <- Bodies
  Kinds = {"Generator", "Async"}
INVARIANTS
  TransitionsExpanded
  OwnSuspendsAccepted
  EvaluatedAsOften
CHECK_DEADLOCK FALSE
