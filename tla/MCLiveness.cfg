SPECIFICATION FairSignalSpec
CONSTANTS
  Requests = {1}
  Seats = {s1}
  Workers = {w1, w2}
  InjectedFailures = {1}
  MaxLeaseTimeouts = 1
  MaxTransientFailures = 2
  Lease = 1
  Skew = 0
  MaxLag = 1
  MaxBeats = 0
PROPERTIES EveryRequestAnswered EverySpanEnds
