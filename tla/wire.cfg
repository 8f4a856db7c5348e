SPECIFICATION Spec
CONSTANTS
  Client = {c1, c2}
  Buffer = 2
  Lengths = {1, 2, 3}
  Split = {c2}
  MayBeKilled = TRUE
  MaxRequests = 3
CHECK_DEADLOCK FALSE
INVARIANTS
  TypeOK
  InStepWhileShort
  KilledOrLong
PROPERTY
  WaitEnds
