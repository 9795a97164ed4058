SPECIFICATION Spec
CONSTANTS
  MaxJobs = 1
  Slot = {s1}
  Stopper = {}
  MaxStarts = 1
  MaxFaults = 0
INVARIANT JobsNeverConflict
CHECK_DEADLOCK FALSE
