SPECIFICATION Spec
CONSTANTS
  Sources <- Bodies
  Static = Static
  None = None
INVARIANT AssignmentsAccepted
CHECK_DEADLOCK FALSE
