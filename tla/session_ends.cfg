CONSTANTS
  None = None
  h1 = h1
  h2 = h2
  h3 = h3
  Holder = {h1}
  NumStages = 1
  Serves <- SingleHolder
  Session = {s1, s2}
  DraftLen = 0
  MaxFailovers = 2
  PrefixMin = 1
  MaxHistory = 5
  Setting <- Ending
SPECIFICATION FairSpec
PROPERTIES RequestsEnd AbandonedKvIsFreed
CHECK_DEADLOCK FALSE
