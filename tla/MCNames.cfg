SPECIFICATION Spec
CONSTANTS
  Names = {"x", "y"}
  ArmNames = {}
  Args <- ArgNames
  Forms = {"const", "path", "block", "let", "let_pat", "let_decl", "assign", "assign_op", "call", "moved",
           "yield_rvalue"}
  Fuel = 3
INVARIANTS
  LexicalResolution
  VisibleResolution
  MovedIsConsumed
