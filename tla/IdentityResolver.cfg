SPECIFICATION Spec
CONSTANTS
  Users = {u1, u2}
  Keys = {k1}
  NoKey = NoKey
  Unknown = Unknown
  RequestIds = {chosen}
  Headers <- MCHeaders
  FirstOwners = {u1, "free"}
  Attempts = 2
  MaxRequests = 2
  MaxChanges = 2
  MaxOutages = 1
INVARIANTS
  AttributedToOwner
PROPERTIES
  KnownKeyStaysKnown
  DirectoryCatchesUp
