SPECIFICATION Spec
CONSTANTS
  Int32Max = 63
  MaxStreamId = 3
  MaxUniqueId = 3
  DataPayloadLength = 2
  FinWord = 32
  FlowControl = TRUE
  PriLowest = 1
  InitialWindow = 2
  InitialMaxConcurrent = 1
  CertVectorLength = 0
  MaxSlots = 1
  CertOrigins = {}
  Scripts <- WindowScripts
  Auto <- AutoClient
  BodyLen = 3
  MaxWrites = 2
INVARIANT WindowConservation
CHECK_DEADLOCK FALSE
