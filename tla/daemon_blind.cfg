SPECIFICATION DSpec
CONSTANTS
  Job = {j1}
  NoJob = NoJob
  MaxJobs = 1
  InfluxEnabled = FALSE
  MaxHups = 1
  MaxVersions = 1
INVARIANT OnlySignalStops
CHECK_DEADLOCK FALSE
