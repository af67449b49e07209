SPECIFICATION FairSpec
CONSTANTS
  Mirs <- Bodies
  WordBits = 3
INVARIANTS
  PackedTypeOK
  LookupsInBounds
PROPERTIES
  ImplementsDataflow
  PackedTermination
CHECK_DEADLOCK FALSE
