SPECIFICATION SafetySpec
CONSTANTS
  t1 = t1
  t2 = t2
  p1 = p1
  m1 = m1
  None = None
  Username <- ThreeNames
  Password = {p1}
  Text = {m1}
  PageSize = 2
  Thread <- Threads
  Requests = {}
  StartUsers <- AllUsers
  StartMessages <- TwoTalks
  MaxMessages = 4
  MaxCrashes = 1
  MaxFaults = 0
CONSTRAINT Talking
INVARIANTS
  ReadWasShown
  PageNeverEmpty
  ReplyPointsBack
