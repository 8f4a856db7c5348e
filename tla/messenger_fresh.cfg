SPECIFICATION SafetySpec
CONSTANTS
  t1 = t1
  t2 = t2
  p1 = p1
  m1 = m1
  None = None
  Username <- TwoNames
  Password = {p1}
  Text = {m1}
  PageSize = 1
  Thread <- Threads
  Requests = {}
  StartUsers <- NoUsers
  StartMessages <- NoMessages
  MaxMessages = 1
  MaxCrashes = 1
  MaxFaults = 0
SYMMETRY Sym
INVARIANTS
  TypeOK
  SenderHasAccount
