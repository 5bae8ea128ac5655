SPECIFICATION PublisherSpec
CONSTANTS
  Calls = {c1, c2, c3}
  Signalled = {c1}
  InvalidEvents = {c3}
  Responses <- AllResponses
  None = None
INVARIANTS ResultsAreTrue NothingLeftBehind
CHECK_DEADLOCK FALSE
