SPECIFICATION Spec
CONSTANTS
  Thread = {t1, t2, t3}
  Nobody = Nobody
  MaxEvents = 2
  Descriptors = 4
  Slots = 4
  MaxCrashes = 0
  MaxErrors = 1
CHECK_DEADLOCK FALSE
PROPERTY
  LogGoesOn
