SPECIFICATION FairSpec
CONSTANTS
  Prefix = {p1}
  Callback <- MCCallback
  Interest = {i1}
  Got = {i1}
  MaxInterval = 2
  MaxFail = 1
  MaxJobs = 1
  MaxCall = 2
  MaxShutdown = 2
CHECK_DEADLOCK FALSE
INVARIANTS NothingDangles FilterIsWanted PublishedIsWhole
PROPERTIES ReconnectionHeals ShutdownReturns
