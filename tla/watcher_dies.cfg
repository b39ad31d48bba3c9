SPECIFICATION Spec
CONSTANTS
  a = a
  n = n
  d = d
  Key <- MCKey
  NextKeys <- MCNextKeys
  Dst <- MCDst
  Trigger <- MCTrigger
  Period <- MCPeriod
  Word = 8
  NThreads = 2
  NProtos = 2
  InitLists <- OtherLists
  FileLists <- NoLists
  Packets <- SmallPacket
  StartTime = 2
  MaxTime = 2
  MaxEdits = 2
  MaxReloads = 0
  MaxPackets = 1
  MaxLen = 2
  MaxAge = 3
INVARIANT
  WatcherNeverDies
CHECK_DEADLOCK FALSE
