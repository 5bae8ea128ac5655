SPECIFICATION Spec
CONSTANTS
  Tokens = {t1, t2}
  MaxBeats = 1
  None = None
\* The process ends after a shutdown or a crash.
CHECK_DEADLOCK FALSE
PROPERTIES HeartbeatsStopOnlyWhenOwnershipLost
