SPECIFICATION FairBootstrapSpec
CONSTANTS
  Runs = {r1, r2}
  NoAdmin = NoAdmin
  MaxResets = 0
INVARIANT CredentialsPrinted
