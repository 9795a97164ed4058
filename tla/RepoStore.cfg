SPECIFICATION FairSpec
CONSTANTS
  MaxJobs = 3
  FewJobs = 2
  MaxCrashes = 2
  MaxFaults = 1
INVARIANTS RowsBacked OnlyNamedDamage RetryChainsSound
PROPERTIES ImplementsLedger RecoveryTerminates
