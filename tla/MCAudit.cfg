SPECIFICATION Spec
CONSTANTS
  Calls = {r1, r2}
  Signalled = {}
  InvalidEvents = {}
  Responses <- SomeResponses
  None = None
  Settings <- SomeSettings
  Bodies <- SomeBodies
  MaxPending = 1
INVARIANTS AlertingSignalIsExact NoSilentLoss
PROPERTIES ImplementsPromise EveryCheckAnswered
CHECK_DEADLOCK FALSE
