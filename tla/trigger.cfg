SPECIFICATION Spec
CONSTANTS
  a = a
  d = d
  K = a
  Key <- MCKey
  NextKeys = {}
  Dst <- MCDst
  Trigger <- MCTrigger
  Period <- MCPeriod
  Word = 4
  Rates = {1, 2}
  StartTime = 10
  EndTime = 15
  MaxGap = 2
INVARIANTS
  TypeOK
  OneAlarmPerPeriod
  AlarmSustained
  AlarmNotMissed
CHECK_DEADLOCK FALSE
