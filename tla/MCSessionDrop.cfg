SPECIFICATION Spec
CONSTANTS
  Int32Max = 5
  MaxStreamId = 3
  MaxUniqueId = 3
  DataPayloadLength = 2
  FinWord = 4
  FlowControl = TRUE
  PriLowest = 1
  InitialWindow = 2
  InitialMaxConcurrent = 1
  CertVectorLength = 1
  MaxSlots = 2
  CertOrigins = {"a"}
  Worlds <- DropWorlds
INVARIANT GoawayBeforeDrop
CHECK_DEADLOCK FALSE
