SPECIFICATION Spec

CONSTANTS
  HardMaxLines = 5
  HardMaxFollow = 4
  DefaultLines = 2
  DefaultMaxLines = 3
  DefaultFollow = 2
  NoJob = NoJob
  Reader = Reader
  NoId = NoId
  j1 = j1
  j2 = j2
  Jobs = {j1, j2}
  ReqIds = {r1, r2}
  Requests <- Snapshots
  InlineVerbs = {}
  ControlFiles <- Closing
  LineLimit = 1
  MaxSessions = 2
  LineCap = 2

SYMMETRY AnyId
CONSTRAINT Narrow

INVARIANTS
  StreamShape
  CutIsClean
  Registered
  SessionsApart
  ServedWithinOptIn

PROPERTIES
  ImplementsRequestStream
