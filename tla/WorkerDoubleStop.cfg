SPECIFICATION Spec
CONSTANTS
  MaxJobs = 1
  Slot = {s1}
  Stopper = {p1, p2}
  MaxStarts = 2
  MaxFaults = 1
INVARIANT HealthyIsOpen
CHECK_DEADLOCK FALSE
