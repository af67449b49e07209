SPECIFICATION Spec
CONSTANTS
  Sources <- Bodies
  Static = Static
  None = None
INVARIANTS
  TablesAgree
  EffectsExact
