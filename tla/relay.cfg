CONSTANTS
  Node = {n1}
  Link = {l1, l2}
  Dial = {d1, d2}
  None = None
  Fault = {"die", "unreachable", "hangup"}
SPECIFICATION FairSpec
INVARIANTS TypeOK TableIsExact NoMeetingMissed ListIsAwaited
PROPERTIES GoAheadIsKept
CHECK_DEADLOCK FALSE
