CONSTANTS
  Runs = {r1, r2}
  HostSessions = {}
  Summaries = {summary}
  Blank = Blank
  MaxCrashes = 1
  MaxResets = 0
SPECIFICATION Spec
CHECK_DEADLOCK FALSE
PROPERTY DeadLocksAreReclaimed
