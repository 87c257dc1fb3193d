SPECIFICATION FairUpdateSpec

CONSTANTS
  NVersions = 2
  Understands = {2}
  Accepted = {1, 2}
  Profiles = {"host"}
  DefaultProfiles = {"host"}
  Runs <- NoRuns
  Alterations <- MCAlterations
  Ring <- PinOrLatest
  MaxPowerLosses = 1

INVARIANTS
  StrictIsAuthentic
  OutcomeHonest
  DirectiveIsWhole

PROPERTIES
  AlwaysBootable
  ImplementsGatedUpgrade
  RunsEnd
  FollowsItsRing
