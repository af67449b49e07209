SPECIFICATION TranslateSpec
CONSTANTS
  Names = {"x"}
  ArmNames = {}
  Args <- OtherArg
  Forms = {"const", "let", "assign", "if"}
  Fuel = 3
INVARIANTS
  PackedCurrent
