SPECIFICATION FairSpec

CONSTANTS
  CollectorDirs <- MCCollectors
  ServiceDirs <- MCServices
  Configured = 1
  Wishes <- MCWishes

INVARIANTS
  NothingLost
  CardsHaveProbes

PROPERTIES
  BeatsGoOn
  ShutdownStops
  CadenceFollows
