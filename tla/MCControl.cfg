SPECIFICATION Spec
CONSTANTS
  Names = {}
  ArmNames = {"x"}
  Args <- NoArgs
  Forms = {"const", "path", "if", "loop", "while", "match", "break", "break_value", "continue", "return",
           "return_value", "yield", "block", "mac"}
  Fuel = 3
INVARIANTS
  LoweringTypeOK
  AssertionsHold
  BuiltIsBody
  SuspensionsLowered
