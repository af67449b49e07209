SPECIFICATION Spec
CONSTANTS
  Names = {}
  ArmNames = {"x"}
  Args <- NoArgs
  Forms = {"const", "path", "block", "match", "yield"}
  Fuel = 3
INVARIANTS
  VariablesHeld
