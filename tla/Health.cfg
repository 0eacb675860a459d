SPECIFICATION FairSpec
CONSTANTS
  Units <- MCUnits
  Kind <- MCKind
  Cooldown = 2
  None = None
  Faults = {"query", "fails", "restart", "save", "crash"}
  MaxFaults = 3
  MaxApplies = 1
PROPERTIES
  CooldownHeld
  OneShotsPendByApply
  Recovers
  PendingSettles
