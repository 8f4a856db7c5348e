SPECIFICATION Spec
CONSTANTS
  t1 = t1
  t2 = t2
  Thread <- Threads
  Word <- Words
  Requests <- FewRequests
  MaxRequests = 2
CHECK_DEADLOCK FALSE
SYMMETRY Sym
INVARIANTS
  TypeOK
  UndisturbedParse
  FirstIsServed
  AuthorizationIsOwn
