CONSTANTS
  None = None
  Node = {n1, n2}
  Session = {}
  NumSlots = 1
  LayerCount <- FatFirst
  Capacity = {0, 1}
  DeadAfter = 1
  PromoteAfter = 3
  StrikeMax = 2
  Worker = {n1, n2}
  Orchestrator = {}
  Seed = {n1}
  BanAfter = 2
  MaxPairs = 4
  IndexSpace = 4
  SaveOutcome = {TRUE, FALSE}
  NoShow = {{}}
  Leaver = {n2}
  Abandoner = {}
  MaxOrchSeq = 0
SPECIFICATION FairSpec
INVARIANTS BannedNeverServes TrustIsEarned BansCountEvictions
PROPERTIES SilentNodesLeaveRouting 
