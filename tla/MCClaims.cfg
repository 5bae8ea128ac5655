SPECIFICATION SignalSpec
CONSTANTS
  Requests = {1}
  Seats = {s1}
  Workers = {w1, w2, w3}
  InjectedFailures = {}
  MaxLeaseTimeouts = 2
  MaxTransientFailures = 2
  Lease = 1
  Skew = 1
  MaxLag = 0
  MaxBeats = 0
SYMMETRY WorkerSymmetry
INVARIANTS HistoryMatchesRow BudgetsAreExact ExclusiveClaim SignalsTellTheTruth
