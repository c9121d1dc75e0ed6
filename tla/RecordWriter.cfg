SPECIFICATION WriterSpec
CONSTANTS
  Callers = {worker, bootstrap, admin}
  Bootstrap = bootstrap
  Patient = {admin}
  Worker = worker
  NoCaller = NoCaller
  Backoff = 4
  Pause = 1
INVARIANTS
  GivenUpOnlyInTrouble
  SuccessMeansTables
  NoAttemptDuringBackoff
PROPERTIES
  CallReturns
  Recovers
