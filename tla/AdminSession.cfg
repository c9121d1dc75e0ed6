SPECIFICATION SafeSpec
CONSTANTS
  Clients = {c1, c2}
  Tokens = {t1, t2}
  NoToken = NoToken
  TTL = 2
  Skews <- MCSkews
  MaxTime = 4
SYMMETRY MCSymmetry
CHECK_DEADLOCK FALSE
PROPERTIES
  AuthenticatedRecently
  EndedForGood
