SPECIFICATION ReviewSpec
CONSTANTS
  Records = {1, 2, 3}
  Filters <- MCFilters
  RawLimits = {0, 2, 3}
  DefaultLimit = 1
  MaxLimit = 2
  StoreLimit = 2
  MaxOffset = 1
  Reviewers = {v1, v2}
  Walker = walker
  Casts = {{walker}, {v1, v2}}
  Verdicts = {"pending", "flagged"}
  NoRecord = NoRecord
  RetentionDays = {0, 1}
  MaxTime = 4
  MaxWrites = 2
CHECK_DEADLOCK FALSE
INVARIANTS
  WalkMissesOnlyForLate
  AnswerIsOwnOrLater
PROPERTIES
  ExpiredRecordsGo
