CONSTANTS
  Runs = {r1, r2}
  HostSessions = {host}
  Summaries = {summary}
  Blank = Blank
  MaxCrashes = 2
  MaxResets = 1
SPECIFICATION FairSpec
CHECK_DEADLOCK FALSE
INVARIANTS
  TypeOK
  OneWriterPerCheckpoint
  OneConfirmedEntry
  LeftSessionsAreSaved
PROPERTIES
  ConfirmedIsFinal
  LockIsReleased
