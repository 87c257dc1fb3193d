SPECIFICATION Spec
CONSTANTS
  Unit = Unit
  Manual = {m1}
  Nobody = Nobody
  Bindings <- MCBindings
  Period = 2
  Cap = 1
  SnapshotBindings <- MCSnapshot
  Window <- MCWindow
  FromFile <- MCFromFile
  CpuBindings <- MCCpu
  Streams = {"live"}
  Word = 8
  FirstTotal = 7
  MaxTotal = 9
  DockerBindings <- MCDocker
  Kind <- MCKind
  Socket <- MCSocket
  Items = {"a", "b"}
  Listing = Listing
  NoClient = NoClient
  ProbeBindings <- MCProbes
  Probe <- MCProbe
  SampleFor <- MCSampleFor
  Devices <- MCDevices
  Virtual = {"dm-0"}
  Whole <- MCWhole
  PrefixOf <- MCPrefixOf
  MaxIO = 2
  Hosts <- MCHosts
INVARIANTS
  NeverOutOfDate
  HealthyIsEarned
  OneClientPerSocket
  NoPartialFacts
  RatesAreReal
  SingleInstance
  QuestionsEnd
  WindowIsCounted
PROPERTIES
  WindowsTile
  ShowsItsOwnInterval
  UnitComesBack
  BeatsEnd
CHECK_DEADLOCK FALSE
