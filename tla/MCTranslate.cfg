SPECIFICATION TranslateSpec
CONSTANTS
  Names = {"x"}
  ArmNames = {"x"}
  Args <- ArgNames
  Forms = {"path", "let", "assign", "block", "if", "match", "yield"}
  Fuel = 3
INVARIANTS
  TranslationAsserts
  PrintedRight
  ArgumentsLifted
