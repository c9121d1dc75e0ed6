SPECIFICATION FairBootstrapSpec
CONSTANTS
  Runs = {r1, r2, r3}
  NoAdmin = NoAdmin
  MaxResets = 1
INVARIANTS
  PrintedCredentialsWork
PROPERTIES
  NeverReplaced
  BootstrapEnds
