SPECIFICATION FairSpec
CONSTANTS
  Requests = {r1, r2}
  Seats = {s1, s2}
  Passes = {p1, p2}
  Deployments <- OneOrTwoPasses
  MaxLeaseTimeouts = 1
  MaxTransientFailures = 2
  None = None
INVARIANTS MapsAgree DoubleBookingNeedsOpenConfirms FirstComeFirstServed
PROPERTIES ImplementsLifecycle EveryRequestAnswered
\* Every request is answered in the end.
CHECK_DEADLOCK FALSE
