----------------------- MODULE MCAuthenticationAudit -----------------------
(* Small instances of AuthenticationAudit for TLC: the three publisher graphs,  *)
(* one body per branch of the credential check, and one PutEvents response per  *)
(* kind of result (EventBridgePublisher is checked with all of them).           *)
EXTENDS AuthenticationAudit

SomeSettings ==
  {[publisher |-> "stdout", mirror |-> FALSE, authMode |-> "local-jwt", graphiql |-> TRUE],
   [publisher |-> "eventbridge", mirror |-> FALSE, authMode |-> "local-fixed-user", graphiql |-> FALSE],
   [publisher |-> "eventbridge", mirror |-> TRUE, authMode |-> "local-jwt", graphiql |-> FALSE]}

Fields(u, p) == [shape |-> "object", username |-> u, password |-> p]
SomeBodies ==
  {[shape |-> "missing", username |-> "absent", password |-> "absent"],
   [shape |-> "notAnObject", username |-> "absent", password |-> "absent"],
   Fields("absent", "right"), Fields("right", "overlong"), Fields("empty", "right"),
   Fields("wrong", "right"), Fields("right", "right")}

SomeResponses ==
  {[entries |-> 1, counted |-> TRUE, failed |-> 0, eventId |-> "given",
    code |-> "absent", message |-> "absent"],
   [entries |-> 1, counted |-> TRUE, failed |-> 1, eventId |-> "absent",
    code |-> "ThrottlingException", message |-> "given"],
   [entries |-> 1, counted |-> TRUE, failed |-> 0, eventId |-> "given",
    code |-> "OtherCode", message |-> "given"]}
=============================================================================
