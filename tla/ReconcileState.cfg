SPECIFICATION StateSpec
CONSTANTS
  Shas <- StateShas
  NoSha = "none"
  Units <- MCUnits
  Quadlets <- MCUnits
  Data <- MCData
  Secrets <- MCSecrets
  Contents <- MCContents
  Absent = "absent"
  Vaults = {"v1", "v2"}
  HasProvider = TRUE
  Fleet <- MCFleet
  Follows <- MCFollows
  Seeds <- Seed1
  Rank <- MCRank
  Hooks <- MCHooks
  HooksOf <- MCHooksOf
  Triggers <- MCTriggers
  HookUnit <- MCHookUnit
  MaxRetries <- MCMaxRetries
  MaxFailures = 3
  FaultSets <- StateFaults
  MaxFaults = 2
  MaxPushes = 2
INVARIANTS
  StateCoherent
  HooksAccounted
  NoOrphanFiles
