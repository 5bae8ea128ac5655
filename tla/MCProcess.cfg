\* The process ends.
CHECK_DEADLOCK FALSE
SPECIFICATION FairProcessSpec
CONSTANTS
  Tokens = {t1, t2}
  MaxBeats = 1
  None = None
  Signals = {"SIGTERM", "SIGINT"}
  MaxSignals = 2
  MaxChanges = 2
INVARIANTS ProcessTypeOK ShutdownReportIsTrue EndsBetweenPasses EnvironmentsAreSound
PROPERTIES NothingWaitsForTelemetry ClosingEndsTheProcess WorkerGoesOn
