SPECIFICATION LiveSpec
CONSTANTS
  Shas <- LiveShas
  NoSha = "none"
  Units <- MCUnits
  Quadlets <- MCUnits
  Data <- MCData
  Secrets <- MCSecrets
  Contents <- MCContents
  Absent = "absent"
  Vaults = {"v1", "v2"}
  HasProvider = TRUE
  Fleet <- MCFleet
  Follows <- MCFollows
  Seeds <- Seed1
  Rank <- MCRank
  Hooks <- MCHooks
  HooksOf <- MCHooksOf
  Triggers <- MCTriggers
  HookUnit <- MCHookUnit
  MaxRetries <- MCMaxRetries
  MaxFailures = 3
  FaultSets <- LiveFaults
  MaxFaults = 3
  MaxPushes = 3
INVARIANTS
  VerifiedIsDeployed
PROPERTIES
  DeploysAtomically
  ReportedOnce
  Converges
  HooksSettle
