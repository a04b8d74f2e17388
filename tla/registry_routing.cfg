CONSTANTS
  None = None
  Node = {n1, n2, n3, o1, o2}
  Session = {s1, s2}
  NumSlots = 2
  LayerCount <- FatFirst
  Capacity = {1, 2}
  DeadAfter = 0
  PromoteAfter = 2
  StrikeMax = 2
  Worker = {n1, n2, n3}
  Orchestrator = {o1, o2}
  Seed = {}
  BanAfter = 2
  MaxPairs = 4
  IndexSpace = 4
  SaveOutcome = {TRUE}
  NoShow <- OneRoleOnly
  Leaver = {}
  Abandoner = {s1, s2}
  MaxOrchSeq = 4
SPECIFICATION Spec
SYMMETRY Interchangeable
INVARIANTS TypeOK HoldersMatchRecords RoutesAreDisjoint LoadAccounting EntryAccounting PrefixesAreUnique
PROPERTIES WarmPinsSurvive
