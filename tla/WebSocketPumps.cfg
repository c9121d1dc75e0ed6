SPECIFICATION Spec
CONSTANTS
  MaxFrames = 2
  Window = 1
CHECK_DEADLOCK FALSE
INVARIANTS
  FramesInOrder
  AuditLeadsByOne
PROPERTIES
  SessionEnds
  LeavingIsNoticed
