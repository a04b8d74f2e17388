CONSTANTS
  None = None
  h1 = h1
  h2 = h2
  h3 = h3
  Holder = {h1, h2, h3}
  NumStages = 2
  Serves <- FirstReplicated
  Session = {s1, s2}
  DraftLen = 2
  MaxFailovers = 2
  PrefixMin = 1
  MaxHistory = 5
  Setting <- Pipelines
SPECIFICATION Spec
INVARIANTS TypeOK  RoutesAreReleased ReuseIsExact
SYMMETRY Interchangeable
CHECK_DEADLOCK FALSE
