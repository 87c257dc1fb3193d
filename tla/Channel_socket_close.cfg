SPECIFICATION FairSpec

CONSTANTS
  HardMaxLines = 5
  HardMaxFollow = 4
  DefaultLines = 2
  DefaultMaxLines = 3
  DefaultFollow = 2
  NoJob = NoJob
  Reader = Reader
  NoId = NoId
  j1 = j1
  j2 = j2
  Jobs = {j1}
  ReqIds = {r1}
  Requests <- SameCommand
  InlineVerbs = {}
  ControlFiles <- Everything
  LineLimit = 1
  MaxSessions = 1
  LineCap = 1

PROPERTIES
  SocketCloseStops
