\* Rules that nobody edits: counters modulo 4 that overflow, alarms.
SPECIFICATION LiveSpec
CONSTANTS
  a = a
  n = n
  d = d
  Key <- MCKey
  NextKeys <- MCNextKeys
  Dst <- MCDst
  Trigger <- MCTrigger
  Period <- MCPeriod
  Word = 4
  NThreads = 2
  NProtos = 1
  InitLists <- OneNext
  FileLists <- NoLists
  Packets <- MCPackets
  StartTime = 2
  MaxTime = 5
  MaxEdits = 0
  MaxReloads = 0
  MaxPackets = 5
  MaxLen = 2
  MaxAge = 3
INVARIANTS
  CountersExact
  AlarmBacked
PROPERTIES
  Drains
