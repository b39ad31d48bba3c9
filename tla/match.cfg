SPECIFICATION Spec
CONSTANTS
  AddrBits = 3
  ByteBits = 2
  Kilo = 10
  Texts <- MCTexts
  Packets <- MCPackets
INVARIANTS
  TypeOK
  MatchesAsWritten
  ThresholdAsWritten
  SyncedAlike
