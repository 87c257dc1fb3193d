SPECIFICATION Spec

CONSTANTS
  HardMaxLines = 5
  HardMaxFollow = 4
  DefaultLines = 2
  DefaultMaxLines = 3
  DefaultFollow = 2
  Files <- MCFiles
  ServiceDirs <- MCServiceDirs
  ArgSets <- MCArgSets

INVARIANTS
  CeilingsHold
  AdvertisedIsServed
  OperatorSourcesWin
  OptInGoverns
