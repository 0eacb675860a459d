SPECIFICATION FairSpec
CONSTANTS
  Hosts <- MCHosts
  Rootful <- MCRootful
  HostRank <- MCRank
  Bundle <- MCBundle
  Contents = {"x", "y"}
  Absent = "absent"
  Slots <- MCSlots
  Kinds <- MCKinds
  MaxFaults = 1
  MaxEvents = 2
  Budgets <- MCBudgets
INVARIANTS
  OneWriter
  AgentKnowsItsHost
  CredentialsReach
PROPERTIES
  StaysInScope
  SecondRunIdle
  Resumes
