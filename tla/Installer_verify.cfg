SPECIFICATION Spec

CONSTANTS
  NVersions = 2
  Understands = {2}
  Profiles = {"host", "docker"}
  DefaultProfiles = {"host", "docker"}
  Runs <- MCRuns
  Alterations <- MCAlterations

INVARIANTS
  OnlyAuthentic

PROPERTIES
  SwapsToWhole
  EnrolmentKept
