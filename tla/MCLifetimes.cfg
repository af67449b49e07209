SPECIFICATION Spec
CONSTANTS
  Names = {"x"}
  ArmNames = {}
  Args <- NoArgs
  Forms = {"const", "path", "block", "let", "if", "while", "match", "yield", "call", "assign"}
  Fuel = 3
INVARIANTS
  OperandsHeld
  ScopedLifetimes
