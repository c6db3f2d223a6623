SPECIFICATION Spec
CONSTANTS
  MaxResults = 1
  MaxSessions = 1
  MaxZeros = 1
  ChanSize = 1
  DiskFails = FALSE
INVARIANTS RecordedWhenClaimed
