SPECIFICATION Spec
CONSTANTS
  Thread = {t1, t2, t3}
  Nobody = Nobody
  MaxEvents = 2
  Descriptors = 3
  Slots = 4
  MaxCrashes = 1
  MaxErrors = 1
CHECK_DEADLOCK FALSE
INVARIANTS
  TypeOK
  TablesBeforeService
PROPERTIES
  LogGoesOnWhileOpened
  AcceptedInTheEnd
