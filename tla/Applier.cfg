SPECIFICATION Spec
CONSTANTS
  Contents <- MCContents
  Absent = "absent"
  NoUnit = none
  Shas <- MCShas
  Follows <- MCFollows
  Fleet <- MCFleet
  Units <- MCUnits
  Data <- MCData
  Kind <- MCKind
  Self = {"picolet"}
  Member <- MCMember
  Requires <- MCRequires
  Fires <- MCFires
  Inputs <- MCInputs
  Rank <- MCRank
  Hooks <- MCHooks
  HookRank <- MCHookRank
  NameRank <- MCNameRank
  Triggers <- MCTriggers
  HookUnit <- MCHookUnit
  Action <- MCAction
  Effect <- MCEffect
  Fallback <- MCFallback
  Faults <- MCFaults
  MaxFaults = 2
  MaxApplies = 2
INVARIANTS
  ServicesCurrent
  TagsCurrent
  DaemonsKept
  OutcomeAsInReconcile
  AgentLeavesLast
PROPERTIES
  JobsAsScheduled
  NotInTurn
  FailedApplySparesUnits
CHECK_DEADLOCK FALSE
