SPECIFICATION Spec
CONSTANTS
  Unset = Unset
  Absent = Absent
  Quadlets = {"q1", "q2"}
  Raws = {"raw"}
  Volumes = {"vol"}
  Secrets <- MCSecrets
  Service = "agent"
  Unit <- MCUnit
  Config <- MCConfig
  Rank <- MCRank
  ImageHas <- MCImageHas
  Places <- MCPlaces
  Scenarios <- MCScenarios
  MaxEvents = 3
  MaxFaults = 1
INVARIANTS
  NextStartReady
  RunsTheFleetsUnit
  ConfigTaken
  RunningConfigSound
PROPERTIES
  FrozenByHost
CHECK_DEADLOCK FALSE
