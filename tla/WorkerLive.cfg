SPECIFICATION FairSpec
CONSTANTS
  MaxJobs = 2
  Slot = {s1}
  Stopper = {p1, p2}
  MaxStarts = 2
  MaxFaults = 0
PROPERTIES WorkIsServed StopReturns
CHECK_DEADLOCK FALSE
