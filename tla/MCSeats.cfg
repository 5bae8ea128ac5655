SPECIFICATION Spec
CONSTANTS
  Requests = {1, 2}
  Seats = {s1, s2}
  Workers = {w1, w2}
  InjectedFailures = {}
  MaxLeaseTimeouts = 1
  MaxTransientFailures = 2
  Lease = 1
  Skew = 0
  MaxLag = 0
  MaxBeats = 1
SYMMETRY Symmetry
INVARIANTS NoDoubleBooking ReservationIffConfirmed RejectionNamesWinner
PROPERTIES ImplementsLifecycle
