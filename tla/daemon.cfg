SPECIFICATION DLiveSpec
CONSTANTS
  Job = {j1, j2}
  NoJob = NoJob
  MaxJobs = 2
  InfluxEnabled = TRUE
  MaxHups = 1
  MaxVersions = 1
INVARIANTS
  TypeOK
  DTypeOK
  Accounted
  LoadedWhole
  StoppedWithCause
  FailedStartIsQuiet
PROPERTIES
  ReloadServed
  EndsWhenAsked
  Stops
  DaemonRunsInOrder
CHECK_DEADLOCK FALSE
