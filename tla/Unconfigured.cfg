SPECIFICATION Spec
CONSTANTS
  Keys = {"k1", "k2", "ko"}
  Fleets <- MCFleets
  Vaults <- MCVaults
  MaxDepth = 10
  MaxRotations = 1
  MaxFaults = 1
CHECK_DEADLOCK FALSE
INVARIANT UnconfiguredSkipped
