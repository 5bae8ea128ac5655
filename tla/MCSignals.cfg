SPECIFICATION FairSpec
CONSTANTS
  q1 = q1
  q2 = q2
  c1 = c1
  t1 = t1
  HttpRequests = {q1, q2}
  CorrelationIds = {c1}
  Traces = {t1}
  Users = {u1, u2}
  Deployments <- TracedOrNot
  Callers <- TwoCallers
INVARIANTS TypeOK LinesStayWithTheirRequest OperationsAreAccounted WorkContinuesTheTrace
PROPERTIES EveryOperationIsCounted
CHECK_DEADLOCK FALSE
