SPECIFICATION Spec
CONSTANTS
  aurora = aurora
  nebula = nebula
  ann = ann
  root = root
  eve = eve
  hall1 = hall1
  hall2 = hall2
  early = early
  late = late
  a1 = a1
  a2 = a2
  Requests = {r1, r2}
  Screenings = {early, late}
  Seats = {a1, a2}
  Auditoriums = {hall1, hall2}
  Providers = {aurora, nebula}
  Actors = {ann, root, eve}
  ProviderOf <- MCProviderOf
  TenantWide = {root}
  SeatLists <- MCSeatLists
  Calls = {c1, c2}
  Scenarios <- MCScenarios
  None = None
SYMMETRY Symmetry
INVARIANTS TypeOK SavedRequestsAreServable SeatQueriesAgree AnswersAreTrue
\* The scenario ends with its requests.
CHECK_DEADLOCK FALSE
