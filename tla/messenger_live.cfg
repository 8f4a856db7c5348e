SPECIFICATION Spec
CONSTANTS
  t1 = t1
  t2 = t2
  p1 = p1
  m1 = m1
  None = None
  Username <- TwoNames
  Password = {p1}
  Text = {m1}
  PageSize = 1
  Thread <- Threads
  Requests = {}
  StartUsers <- BothUsers
  StartMessages <- OneUnread
  MaxMessages = 1
  MaxCrashes = 0
  MaxFaults = 1
PROPERTIES
  RedIsMarked
  Answered
  TransactionEnds
  FileOnlyGrows
