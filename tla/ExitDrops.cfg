SPECIFICATION Spec
CONSTANTS
  Names = {"x"}
  ArmNames = {}
  Args <- NoArgs
  Forms = {"const", "path", "let", "loop", "break"}
  Fuel = 3
INVARIANTS
  ScopedLifetimes
