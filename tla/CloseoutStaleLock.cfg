CONSTANTS
  Runs = {r1, r2, r3}
  HostSessions = {}
  Summaries = {summary}
  Blank = Blank
  MaxCrashes = 1
  MaxResets = 0
SPECIFICATION Spec
CHECK_DEADLOCK FALSE
INVARIANT OneWriterPerCheckpoint
