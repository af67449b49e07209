SPECIFICATION FairDriver
CONSTANTS
  Mirs <- Bodies
  WordBits = 6
INVARIANTS
  DriverTypeOK
  TransferExact
  SolvedWhenDone
  MeetOverPaths
  PackedLive
  Declared
  LiveExact
  PanicsOnlyOnUnreachable
  ResumableOnlyAfterYield
PROPERTIES
  Termination
  RunsUninterrupted
  NeverRevived
CHECK_DEADLOCK FALSE
