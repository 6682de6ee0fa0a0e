SPECIFICATION Spec
CONSTANTS
  Int32Max = 5
  MaxStreamId = 3
  MaxUniqueId = 3
  DataPayloadLength = 2
  FinWord = 4
  FlowControl = TRUE
  PriLowest = 1
  InitialWindow = 2
  InitialMaxConcurrent = 2
  CertVectorLength = 1
  MaxSlots = 2
  CertOrigins = {"a"}
  Worlds <- SessionWorlds
INVARIANTS
  TypeOK OneOwner NoLostWakeup ClosingHasRst
  StreamCounts StreamIdsFresh NoZombieStream NothingAfterFin
PROPERTY NoStreamAfterGoaway
CHECK_DEADLOCK FALSE
