SPECIFICATION Spec
CONSTANTS
  Names = {"x"}
  ArmNames = {}
  Args <- ArgNames
  Forms = {"const", "path", "assign", "yield", "yield_rvalue"}
  Fuel = 2
INVARIANTS
  SuspensionsLowered
