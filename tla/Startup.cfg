SPECIFICATION Spec
CONSTANTS
  Environments <- MCEnvironments
  MaxQueue = 1048576
  MaxHash = 72
CHECK_DEADLOCK FALSE
PROPERTIES
  AcceptedServes
