SPECIFICATION ServerSpec
CONSTANTS
  t1 = t1
  t2 = t2
  t3 = t3
  p1 = p1
  p2 = p2
  m1 = m1
  None = None
  Username <- FourNames
  Password = {p1}
  Text = {m1}
  PageSize = 2
  Thread <- Threads
  Requests <- ReadRequests
  StartUsers <- SecondMissing
  StartMessages <- SomeMessages
  MaxMessages = 5
  MaxCrashes = 0
  MaxFaults = 0
SYMMETRY Sym
INVARIANTS
  PageHasNoGap
  UserPageIsSound
