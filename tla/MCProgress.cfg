SPECIFICATION Spec
CONSTANTS
  Parts = {"spdy", "listener", "cat"}
  Conns = {1, 2}
  ConnFull = 2
  MaxBody = 2
  Ids = {1, 2}
  Plans <- MCPlans
  SpdyThres = 1
  Window = 2
  MaxFrames = 2
  NumWorkers = {1, 3}
  Slots = {1, 2, 3}
  Clients = {1, 2, 3, 4}
  RecLen = 2
  Trips <- MCTrips
  MaxStreams = 4
CHECK_DEADLOCK FALSE
INVARIANTS
  DownstreamPerStream BodyFlows UploadCredit PassedOnce
PROPERTIES ResponseEnds ClientsServed CatFetchesAll
