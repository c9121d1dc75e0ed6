SPECIFICATION Spec
CONSTANTS
  Producers = {p1, p2}
  Records = {r1, r2, r3}
  NoRecord = NoRecord
  QueueSize = 1
  Inputs <- UnknownAndEmpty
  Configs <- OneFlag
CHECK_DEADLOCK FALSE
INVARIANTS
  NoSendOnClosedChannel
  DroppedCountsRefusals
  StoredOnlyIfAllowed
  RowsMatchFate
  DrainedUnlessCancelled
PROPERTIES
  CallsReturn
  WorkerGetsThrough
  ImplementsAuditLog
