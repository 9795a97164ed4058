SPECIFICATION Spec
CONSTANTS
  MaxJobs = 2
  Slot = {s1, s2}
  Stopper = {p1}
  MaxStarts = 1
  MaxFaults = 1
INVARIANTS ActiveJobsOwned NoLostWakeup
PROPERTIES CancellationWins StoppedIsQuiet
CHECK_DEADLOCK FALSE
