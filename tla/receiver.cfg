\* Two rings from the start of the threads to their end.
SPECIFICATION LiveSpec
CONSTANTS
  NRings = 2
  NSlots = 3
  Port <- WholeCard
  MaxPackets = 5
INVARIANTS
  TypeOK
  CheckedInOrder
  SlotIsOurs
  ForwardsAccepted
  MemoryMapped
PROPERTIES
  Closes
  Served
CHECK_DEADLOCK FALSE
