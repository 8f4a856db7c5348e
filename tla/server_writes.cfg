SPECIFICATION ServerSpec
CONSTANTS
  t1 = t1
  t2 = t2
  t3 = t3
  p1 = p1
  p2 = p2
  m1 = m1
  None = None
  Username <- MCUsername
  Password = {p1, p2}
  Text = {m1}
  PageSize = 1
  Thread <- Threads
  Requests <- WriteRequests
  StartUsers <- NoUsers
  StartMessages <- NoMessages
  MaxMessages = 2
  MaxCrashes = 1
  MaxFaults = 1
SYMMETRY Sym
CONSTRAINT OneFailure
INVARIANTS
  ServerTypeOK
  AcknowledgedUntilFault
  NoOrphanMessage
  TransactionHasWriter
  QuietMeansDurable
PROPERTY
  ImplementsContract
