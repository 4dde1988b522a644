CONSTANTS
  TrustUsers = {u, v}
  narrow = narrow
  wide = wide
  code = code
  Profiles = {narrow, wide}
  Ceiling <- Widens
  Paths = {code}
  NoFile = NoFile
  MaxGrant = 2
  MaxSamples = 1
  TrustBudget = 3
SPECIFICATION TrustSpec
CHECK_DEADLOCK FALSE
INVARIANT RecordedGrantsAreWritten
