SPECIFICATION Spec
CONSTANTS
  Requests = {1}
  Seats = {s1}
  Workers = {w1, w2}
  InjectedFailures = {}
  MaxLeaseTimeouts = 2
  MaxTransientFailures = 2
  Lease = 3
  Skew = 0
  MaxLag = 2
  MaxBeats = 2
PROPERTIES BeatNeverShortensLease
