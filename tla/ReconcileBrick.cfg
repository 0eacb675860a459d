SPECIFICATION FairSpec
CONSTANTS
  Shas <- MixedShas
  NoSha = "none"
  Units <- MCUnits
  Quadlets <- MCUnits
  Data <- MCData
  Secrets <- MCSecrets
  Contents <- MCContents
  Absent = "absent"
  Vaults = {"v1"}
  HasProvider = FALSE
  Fleet <- MCFleet
  Follows <- MCFollows
  Seeds <- Seed0
  Rank <- MCRank
  Hooks <- MCHooks
  HooksOf <- MCHooksOf
  Triggers <- MCTriggers
  HookUnit <- MCHookUnit
  MaxRetries <- MCMaxRetries
  MaxFailures = 3
  FaultSets <- BrickFaults
  MaxFaults = 1
  MaxPushes = 1
PROPERTIES
  Converges
