CONSTANTS
  None = None
  n1 = n1
  n2 = n2
  n3 = n3
  o1 = o1
  o2 = o2
  Node = {n1, n2, n3}
  Orch = {o1, o2}
  NumPlanes = 2
  Setting <- Situations
SPECIFICATION Spec
INVARIANTS TypeOK PlanIsFewest SplitsTile PlannedFleetsAreStaffed ListedForWhatItServes SlicesAreVerified OrchestratorsAreApart
PROPERTIES ServingNodesAreRouted
CHECK_DEADLOCK FALSE
