--------------------------- MODULE MCRequestSignals ---------------------------
(* Two concurrent requests of two users.  Each deployment is met with the        *)
(* headers it treats differently: with the SDK every kind of traceparent and     *)
(* every route, without it the caller's own trace, with GraphiQL a landing page. *)
EXTENDS RequestSignals, TLC

CONSTANTS q1, q2, c1, t1

Query(correlation, trace) ==
  [route |-> "/graphql", correlation |-> correlation, trace |-> trace, landing |-> FALSE]
Landing == [Query("unsafe", "malformed") EXCEPT !.landing = TRUE]
Probe(route) == [Query("unsafe", "malformed") EXCEPT !.route = route]

Traced == [sdkRuns |-> TRUE, enableGraphiql |-> FALSE]
Untraced == [sdkRuns |-> FALSE, enableGraphiql |-> TRUE]
TracedOrNot == {Traced, Untraced}

TwoCallers ==
  (Traced :> (q1 :> {Query(c1, t1)} @@
              q2 :> {Query("unsafe", "zero"), Landing, Probe("/health")})) @@
  (Untraced :> (q1 :> {Query(c1, "malformed"), Query("unsafe", "zero")} @@
                q2 :> {Query("unsafe", t1), Landing, Probe("unmatched")}))
=============================================================================
