CONSTANTS
  None = None
  h1 = h1
  h2 = h2
  h3 = h3
  Holder = {h1, h2, h3}
  NumStages = 2
  Serves <- FirstReplicated
  Session = {s1}
  DraftLen = 0
  MaxFailovers = 2
  PrefixMin = 1
  MaxHistory = 5
  Setting <- Rehoming
SPECIFICATION Spec
INVARIANTS ResumeIsExact
CHECK_DEADLOCK FALSE
