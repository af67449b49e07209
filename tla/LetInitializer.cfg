SPECIFICATION Spec
CONSTANTS
  Names = {"x"}
  ArmNames = {}
  Args <- ArgNames
  Forms = {"const", "path", "let"}
  Fuel = 1
INVARIANTS
  InitializerSeesOuter
