SPECIFICATION Spec

CONSTANTS
  CollectorDirs <- MCCollectors
  ServiceDirs <- MCServices
  Configured = 1
  Wishes <- MCWishes

INVARIANTS
  NeverSilenced
