SPECIFICATION Spec
CONSTANTS
  Keys = {"k1", "k2", "ko"}
  Fleets <- MCFleets
  Vaults <- MCVaults
  MaxDepth = 10
  MaxRotations = 1
  MaxFaults = 1
INVARIANTS
  ValuesRendered
  SecretsContained
  DoneIsComplete
  ReferencesFound
  ValidatedResolves
  ValidatedAudience
CHECK_DEADLOCK FALSE
