\* Reloads at any moment of a pass; packets do not matter to what is asked.
SPECIFICATION LiveSpec
CONSTANTS
  a = a
  n = n
  d = d
  Key <- MCKey
  NextKeys <- MCNextKeys
  Dst <- MCDst
  Trigger <- MCTrigger
  Period <- MCPeriod
  Word = 8
  NThreads = 1
  NProtos = 2
  InitLists <- FewRules
  FileLists <- Reloads
  Packets <- BigPacket
  StartTime = 2
  MaxTime = 2
  MaxEdits = 0
  MaxReloads = 2
  MaxPackets = 0
  MaxLen = 2
  MaxAge = 3
INVARIANTS
  TypeOK
  GateCoversReload
  RatesDefined
PROPERTIES
  Converges
CHECK_DEADLOCK FALSE
