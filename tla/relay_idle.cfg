CONSTANTS
  Node = {n1}
  Link = {l1, l2}
  Dial = {d1}
  None = None
  Fault = {}
SPECIFICATION Spec
INVARIANT SignalsAreHeard
CHECK_DEADLOCK FALSE
