SPECIFICATION Spec
CONSTANTS
  Client = {c1, c2}
  Buffer = 2
  Lengths = {1, 2, 3}
  Split = {}
  MayBeKilled = FALSE
  MaxRequests = 3
CHECK_DEADLOCK FALSE
INVARIANTS
  WholeReply
