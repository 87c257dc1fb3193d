SPECIFICATION UpdateSpec

CONSTANTS
  NVersions = 2
  Understands = {2}
  Accepted = {1}
  Profiles = {"host"}
  DefaultProfiles = {"host"}
  Runs <- NoRuns
  Alterations <- NoAlterations
  Ring <- AnyDirective
  MaxPowerLosses = 0

INVARIANTS
  GateMeansNewBinary
