SPECIFICATION PartsSpec
CONSTANTS
  Parts = {"https"}
  Pris = {0, 1, 2, 3}
  Seqs = {1, 2}
  InitCapacity = 2
  Keys = {1, 2, 3, 5, 7}
  MaxHash = 4
  MaxSlots = 4
  Origins = {"a", "b", "c", "d", "e"}
  InitSize = 2
  ChunkLen = 2
  MaxChunks = 3
  Symbols = {0, 1}
  Garbage = 9
  HeadLen = 2
  MaxBuf = 5
  Streams <- MCStreams
  MaxChunk = 9
  Radix = 8
  LenSize2 = 1
  LenSize3 = 2
  Downcase <- MCDowncase
  Illegal = {1, 7}
  Table3to2 <- MCTable
  Jobs <- MCJobs
  Fds = {1, 2, 3, 4, 5, 6}
  Peers = {1, 2}
  MaxPush = 2
  MaxParts = 1
  Visits <- MCVisits
  Writes = {1, 20}
  Conns = {1, 2}
  ConnFull = 2
  MaxBody = 2
  Requests <- MCRequests
  MaxReq = 2
  MaxHeader = 2
  OutThres = 1
  MaxIn = 3
CHECK_DEADLOCK FALSE
INVARIANT NeverPausedInError
