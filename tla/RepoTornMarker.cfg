SPECIFICATION Spec
CONSTANTS
  MaxJobs = 1
  FewJobs = 1
  MaxCrashes = 1
  MaxFaults = 0
INVARIANT OpenNeverRefused
