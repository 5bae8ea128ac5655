---------------------------- MODULE RequestSignals ----------------------------
(***************************************************************************)
(* What the service says about one HTTP request while others are handled   *)
(* at the same time: the request context it keeps in AsyncLocalStorage,    *)
(* the log lines that are filled in from it, the HTTP and GraphQL samples, *)
(* the operation span, and the context saved with a reservation request.   *)
(*                                                                         *)
(* Node runs one callback at a time and gives each the store of the chain  *)
(* of awaits it belongs to: an action here is what one request does        *)
(* between two awaits, and store[q] is the store of its chain.  Apollo is  *)
(* external: it calls the hooks of the logging plugin in an order that     *)
(* depends on where an operation fails.  Its formatting of errors does not *)
(* throw, so it reports the errors of an operation once.                   *)
(*                                                                         *)
(* A traceparent header is a trace and the span of the caller; "malformed" *)
(* (or missing) fails the pattern of the service, "zero" passes it and is  *)
(* refused by OpenTelemetry.  A correlation id that is missing is like one *)
(* that is unsafe.  The server span is the one of the SDK, when it runs.   *)
(***************************************************************************)
EXTENDS Naturals, Sequences, FiniteSets

CONSTANTS
  HttpRequests,     \* the requests that reach the service
  CorrelationIds,   \* acceptable X-Correlation-Id values callers may send
  Traces,           \* traces callers may be part of
  Users,            \* users a token may belong to
  Deployments,      \* how the process may have been started, see Deployment
  Callers           \* bound: what each caller may send in those deployments

Absent == "absent"

\* Whether the OpenTelemetry SDK with its HTTP instrumentation runs, and
\* ENABLE_GRAPHIQL.
Deployment == [sdkRuns : BOOLEAN, enableGraphiql : BOOLEAN]

ASSUME DeploymentsAssumption == Deployments \subseteq Deployment

Operations == {"requestReservation", "me"}
Routes == {"/graphql", "/health", "unmatched"}
Headers == {"malformed", "zero"} \cup Traces

VARIABLES
  deployed,   \* the deployment that runs, which no step changes
  stage,      \* how far the handling of the request is
  request,    \* the request as received
  gone,       \* requests whose client has closed the connection
  store,      \* the AsyncLocalStorage value of the request's chain of awaits
  user,       \* req.authenticatedUser
  metadata,   \* operation the plugin's state names
  startLogged, terminalLogged,  \* operationStartLogged, terminalLogWritten
  errors,     \* the errors Apollo's response holds: "none", "auth" or "other"
  spanEnds,   \* times the operation span was ended
  lines,      \* log lines, in order
  samples,    \* samples of graphql_operation_total, in order
  httpSamples,\* samples of http_request_total
  work        \* the context saved with the reservation request it made

plugin == <<metadata, startLogged, terminalLogged, spanEnds>>
output == <<lines, samples, httpSamples>>
vars == <<deployed, stage, request, gone, store, user, plugin, errors, output, work>>

-----------------------------------------------------------------------------
\* "landing" is a GET that accepts HTML.
Incoming ==
  {incoming \in [route : Routes, correlation : {"unsafe"} \cup CorrelationIds,
                 trace : Headers, landing : BOOLEAN] :
     incoming.landing => incoming.route = "/graphql"}
SdkRuns == deployed.sdkRuns
EnableGraphiql == deployed.enableGraphiql

ASSUME CallersAssumption ==
  Callers \in [Deployments -> [HttpRequests -> SUBSET Incoming]]

\* What is absent is no trace, and no request.
ASSUME AbsentAssumption == Absent \notin HttpRequests \cup Traces

NoRequest == [route |-> "unmatched", correlation |-> "unsafe", trace |-> "malformed",
              landing |-> FALSE]

\* normalizeContextId: an unacceptable or missing id is replaced by a new one.
NormalizeId(q, id) == IF id \in CorrelationIds THEN id ELSE q

\* normalizeTraceparent of the header of the request.
Traceparent(header) ==
  IF header = "malformed" THEN Absent ELSE header

\* The trace of the server span: the caller's, when OpenTelemetry accepts it.
ServerTrace(q) ==
  IF ~SdkRuns THEN Absent
  ELSE IF request[q].trace \in Traces THEN request[q].trace ELSE q

NoContext == [correlation |-> Absent, traceparent |-> Absent, user |-> Absent,
              operation |-> Absent]
NoWork == [correlation |-> Absent, trace |-> Absent, span |-> Absent]

CreateRequestContext(q, incoming) ==
  [NoContext EXCEPT !.correlation = NormalizeId(q, incoming.correlation),
                    !.traceparent = Traceparent(incoming.trace)]

\* Mutant: the context is a variable of the process, the last enriched one wins.
ContextOfTheProcess(q) ==
  LET enriched == {p \in HttpRequests : store[p].user # Absent}
  IN IF enriched = {} THEN store[q] ELSE store[CHOOSE p \in enriched : TRUE]

CurrentContext(q) == store[q]

\* The two enrichments replace the store of the chain with a copy.
EnrichWithUser(q, as) ==
  store' = [store EXCEPT ![q] = [CurrentContext(q) EXCEPT !.user = as]]
EnrichWithOperation(q, operation) ==
  store' = [store EXCEPT ![q] = [CurrentContext(q) EXCEPT !.operation = operation]]

Prefer(a, b) == IF a # Absent THEN a ELSE b

\* createApplicationLogPayload: the context comes before the caller's fields.
Line(q, event, ofUser, ofOperation) ==
  [event |-> event,
   correlation |-> CurrentContext(q).correlation,
   trace |-> Prefer(ServerTrace(q), CurrentContext(q).traceparent),
   user |-> Prefer(CurrentContext(q).user, ofUser),
   operation |-> Prefer(CurrentContext(q).operation, ofOperation)]

Log(q, new) == lines' = [lines EXCEPT ![q] = @ \o new]
Count(q, operation, outcome) ==
  samples' = [samples EXCEPT ![q] = Append(@, [operation |-> operation, outcome |-> outcome])]

Goto(q, next) == stage' = [stage EXCEPT ![q] = next]

Init ==
  /\ deployed \in Deployments
  /\ stage = [q \in HttpRequests |-> "outside"]
  /\ request = [q \in HttpRequests |-> NoRequest]
  /\ gone = {}
  /\ store = [q \in HttpRequests |-> NoContext]
  /\ user = [q \in HttpRequests |-> Absent]
  /\ metadata = [q \in HttpRequests |-> "unknown"]
  /\ startLogged = [q \in HttpRequests |-> FALSE]
  /\ terminalLogged = [q \in HttpRequests |-> FALSE]
  /\ errors = [q \in HttpRequests |-> "none"]
  /\ spanEnds = [q \in HttpRequests |-> 0]
  /\ lines = [q \in HttpRequests |-> <<>>]
  /\ samples = [q \in HttpRequests |-> <<>>]
  /\ httpSamples = [q \in HttpRequests |-> 0]
  /\ work = [q \in HttpRequests |-> NoWork]

-----------------------------------------------------------------------------
(* The HTTP boundary. *)

\* RequestContextMiddleware opens the context and registers the listener.
Receive(q, incoming) ==
  /\ stage[q] = "outside"
  /\ request' = [request EXCEPT ![q] = incoming]
  /\ store' = [store EXCEPT ![q] = CreateRequestContext(q, incoming)]
  /\ Goto(q, IF incoming.route = "/graphql" THEN "received" ELSE "answered")
  /\ UNCHANGED <<deployed, gone, user, plugin, errors, output, work>>

\* The middleware resumes after authentication; its store is the request's own.
Authenticate(q, as) ==
  /\ stage[q] = "received"
  /\ ~(EnableGraphiql /\ request[q].landing)
  /\ user' = [user EXCEPT ![q] = as]
  /\ EnrichWithUser(q, as)
  /\ Goto(q, "admitted")
  /\ UNCHANGED <<deployed, request, gone, plugin, errors, output, work>>

\* 401, or the error of an authentication that could not be decided.
RefuseUnauthenticated(q) ==
  /\ stage[q] = "received"
  /\ ~(EnableGraphiql /\ request[q].landing)
  /\ Goto(q, "answered")
  /\ UNCHANGED <<deployed, request, gone, store, user, plugin, errors, output, work>>

\* A GET that accepts HTML is let through without authentication.
SkipAuthentication(q) ==
  /\ stage[q] = "received"
  /\ EnableGraphiql /\ request[q].landing
  /\ Goto(q, "admitted")
  /\ UNCHANGED <<deployed, request, gone, store, user, plugin, errors, output, work>>

\* Apollo serves the landing page, or refuses a request it cannot read,
\* before it makes a context.
AnswerWithoutOperation(q) ==
  /\ stage[q] = "admitted"
  /\ Goto(q, "answered")
  /\ UNCHANGED <<deployed, request, gone, store, user, plugin, errors, output, work>>

\* gqlContext throws: requireAuthenticatedUser, requireActor.
NoIdentity(q) == user[q] = Absent

ContextCreationDidFail(q) ==
  /\ stage[q] = "admitted"
  /\ NoIdentity(q)
  /\ Log(q, <<Line(q, "graphql.context.failure", Absent, Absent)>>)
  /\ Count(q, "unknown", "auth_error")
  /\ Goto(q, "answered")
  /\ UNCHANGED <<deployed, request, gone, store, user, plugin, errors, httpSamples, work>>

\* The listener of 'finish'; polling of /health and /ready is left out.
Finish(q) ==
  /\ stage[q] = "answered"
  /\ q \notin gone
  /\ IF request[q].route = "/health"
       THEN UNCHANGED <<lines, httpSamples>>
       ELSE /\ httpSamples' = [httpSamples EXCEPT ![q] = @ + 1]
            /\ Log(q, <<Line(q, "http.request.finish", Absent, Absent)>>)
  /\ Goto(q, "finished")
  /\ UNCHANGED <<deployed, request, gone, store, user, plugin, errors, samples, work>>

\* The client hangs up: the handling goes on, 'finish' is not emitted.
HangUp(q) ==
  /\ stage[q] \notin {"outside", "finished"}
  /\ q \notin gone
  /\ gone' = gone \cup {q}
  /\ UNCHANGED <<deployed, stage, request, store, user, plugin, errors, output, work>>

-----------------------------------------------------------------------------
(* The logging plugin. *)

OperationLine(q, event) == Line(q, event, user[q], metadata[q])

\* ensureOperationStartLogged
StartUnlessLogged(q) ==
  IF startLogged[q] THEN <<>> ELSE <<OperationLine(q, "start")>>

\* classifyGraphqlOutcome
Outcome(kind) == IF kind = "auth" THEN "auth_error" ELSE "graphql_error"

\* logOperationFailure and logOperationFinish: lines, span, sample.
EndOperation(q, event, outcome) ==
  /\ startLogged' = [startLogged EXCEPT ![q] = TRUE]
  /\ terminalLogged' = [terminalLogged EXCEPT ![q] = TRUE]
  /\ spanEnds' = [spanEnds EXCEPT ![q] = @ + 1]
  /\ Log(q, Append(StartUnlessLogged(q), OperationLine(q, event)))
  /\ Count(q, metadata[q], outcome)
  /\ UNCHANGED <<metadata, httpSamples>>

RequestDidStart(q) ==
  /\ stage[q] = "admitted"
  /\ ~NoIdentity(q)
  /\ Goto(q, "started")
  /\ UNCHANGED <<deployed, request, gone, store, user, plugin, errors, output, work>>

\* didEncounterErrors: unreadable, invalid, refused, or failed while executing.
DidEncounterErrors(q, kind) ==
  /\ stage[q] \in {"started", "resolved"}
  /\ errors' = [errors EXCEPT ![q] = kind]
  /\ EndOperation(q, "failure", Outcome(kind))
  /\ Goto(q, "responding")
  /\ UNCHANGED <<deployed, request, gone, store, user, work>>

\* Mutant: the start is logged from the metadata before they are updated.
StartLine(q, operation) == Line(q, "start", user[q], metadata[q])

ResolvedLine(q, operation) ==
  [OperationLine(q, "start") EXCEPT !.operation = operation]

\* didResolveOperation: the context is enriched first, then the start is logged.
DidResolveOperation(q, operation) ==
  /\ stage[q] = "started"
  /\ metadata' = [metadata EXCEPT ![q] = operation]
  /\ EnrichWithOperation(q, operation)
  /\ startLogged' = [startLogged EXCEPT ![q] = TRUE]
  /\ Log(q, <<ResolvedLine(q, operation)>>)
  /\ Goto(q, "resolved")
  /\ UNCHANGED <<deployed, request, gone, user, terminalLogged, spanEnds, errors, samples,
                 httpSamples, work>>

\* Execution ends; another plugin may have put errors into the response.
Execute(q, kind) ==
  /\ stage[q] = "resolved"
  /\ errors' = [errors EXCEPT ![q] = kind]
  /\ Goto(q, "responding")
  /\ UNCHANGED <<deployed, request, gone, store, user, plugin, output, work>>

\* Mutants: the guard against a second terminal line is missing, or inverted.
AlwaysEnds(q) == TRUE
EndsAgain(q) == terminalLogged[q]

EndsHere(q) == ~terminalLogged[q]

\* readResponseErrors
ResponseHasErrors(q) == errors[q] # "none"

WillSendResponse(q) ==
  /\ stage[q] = "responding"
  /\ IF ~EndsHere(q) THEN UNCHANGED <<plugin, output>>
     ELSE IF ResponseHasErrors(q) THEN EndOperation(q, "failure", "graphql_error")
     ELSE EndOperation(q, "finish", "success")
  /\ Goto(q, "answered")
  /\ UNCHANGED <<deployed, request, gone, store, user, errors, work>>

\* Apollo itself fails: the operation keeps its span open.
UnexpectedErrorProcessingRequest(q) ==
  /\ stage[q] \in {"started", "resolved", "responding"}
  /\ Log(q, <<Line(q, "unexpected_error", Absent, Absent)>>)
  /\ Count(q, "unknown", "unexpected_error")
  /\ Goto(q, "answered")
  /\ UNCHANGED <<deployed, request, gone, store, user, plugin, errors, httpSamples, work>>

-----------------------------------------------------------------------------
(* The hand-over to the worker. *)

\* Mutant: only the header of the request is looked at.
TraceOfHeader(q) == CurrentContext(q).traceparent

ActiveTraceparent(q) == Prefer(ServerTrace(q), CurrentContext(q).traceparent)

\* getCurrentReservationWorkObservabilityContext
WorkContext(q) ==
  IF ActiveTraceparent(q) = Absent THEN NoWork
  ELSE [correlation |-> CurrentContext(q).correlation,
        trace |-> ActiveTraceparent(q),
        span |-> IF SdkRuns THEN "server" ELSE "caller"]

\* requestReservation saves the request and logs it, within the execution.
\* Bound: once in an operation.
SaveReservationRequest(q) ==
  /\ stage[q] = "resolved"
  /\ metadata[q] = "requestReservation"
  /\ \A i \in DOMAIN lines[q] : lines[q][i].event # "reservation_request.created"
  /\ work' = [work EXCEPT ![q] = WorkContext(q)]
  /\ Log(q, <<Line(q, "reservation_request.created", Absent, "requestReservation")>>)
  /\ UNCHANGED <<deployed, stage, request, gone, store, user, plugin, errors, samples, httpSamples>>

-----------------------------------------------------------------------------
\* resolveBusinessOperation: the first field, when it is a known operation.
BusinessOperation == Operations \cup {"unknown"}

Plugin(q) ==
  \/ ContextCreationDidFail(q)
  \/ RequestDidStart(q)
  \/ \E kind \in {"auth", "other"} : DidEncounterErrors(q, kind)
  \/ \E operation \in BusinessOperation : DidResolveOperation(q, operation)
  \/ \E kind \in {"none", "other"} : Execute(q, kind)
  \/ WillSendResponse(q)
  \/ UnexpectedErrorProcessingRequest(q)
  \/ SaveReservationRequest(q)

Boundary(q) ==
  \/ \E as \in Users : Authenticate(q, as)
  \/ RefuseUnauthenticated(q)
  \/ SkipAuthentication(q)
  \/ AnswerWithoutOperation(q)
  \/ Finish(q)

Next ==
  \E q \in HttpRequests :
    \/ \E incoming \in Callers[deployed][q] : Receive(q, incoming)
    \/ Boundary(q)
    \/ Plugin(q)
    \/ HangUp(q)

Spec == Init /\ [][Next]_vars

\* Node goes on with every request whose next callback is due.
FairSpec == Spec /\ \A q \in HttpRequests : WF_vars(Boundary(q) \/ Plugin(q))

-----------------------------------------------------------------------------
\* Every variable has its type.
Events == {"graphql.context.failure", "start", "finish", "failure", "unexpected_error",
           "reservation_request.created", "http.request.finish"}
TypeOK ==
  /\ deployed \in Deployments
  /\ stage \in [HttpRequests -> {"outside", "received", "admitted", "started", "resolved",
                                 "responding", "answered", "finished"}]
  /\ request \in [HttpRequests -> Incoming]
  /\ gone \subseteq HttpRequests
  /\ user \in [HttpRequests -> Users \cup {Absent}]
  /\ metadata \in [HttpRequests -> BusinessOperation]
  /\ errors \in [HttpRequests -> {"none", "auth", "other"}]
  /\ startLogged \in [HttpRequests -> BOOLEAN]
  /\ terminalLogged \in [HttpRequests -> BOOLEAN]
  /\ \A q \in HttpRequests :
       /\ spanEnds[q] \in 0..1 /\ httpSamples[q] \in 0..1
       /\ \A i \in DOMAIN lines[q] : lines[q][i].event \in Events
       /\ \A i \in DOMAIN samples[q] :
            samples[q][i].outcome \in {"success", "graphql_error", "auth_error", "unexpected_error"}

\* A line carries the correlation id and the trace of the request it is
\* about, and never the user or the operation of another one, however the
\* handling of concurrent requests interleaves; nor does the saved work.
LinesStayWithTheirRequest ==
  \A q \in HttpRequests :
    /\ \A i \in DOMAIN lines[q] :
         LET line == lines[q][i] IN
           /\ line.correlation = NormalizeId(q, request[q].correlation)
           /\ line.trace = Prefer(ServerTrace(q), Traceparent(request[q].trace))
           /\ line.user \in {Absent, user[q]}
           /\ line.operation \in {Absent, "unknown", metadata[q]}
    /\ work[q] # NoWork => work[q].correlation = NormalizeId(q, request[q].correlation)

Logged(q, events) == {i \in DOMAIN lines[q] : lines[q][i].event \in events}
Starts(q) == Logged(q, {"start"})
Endings(q) == Logged(q, {"finish", "failure"})
Unplanned(q) == Logged(q, {"graphql.context.failure", "unexpected_error"})

\* Whatever the order of Apollo's hooks, an operation has one start line and
\* then at most one terminal line, both of the same operation and user, one
\* ended span and one sample for each terminal line, and a sample for each
\* failure outside the operation; an answered operation that did not fail
\* unexpectedly has all.
OperationsAreAccounted ==
  \A q \in HttpRequests :
    /\ Cardinality(Starts(q)) <= 1
    /\ Cardinality(Endings(q)) <= 1
    /\ \A i \in Endings(q) : \E j \in Starts(q) :
         /\ j < i
         /\ lines[q][j].operation = lines[q][i].operation
         /\ lines[q][j].user = lines[q][i].user
    /\ spanEnds[q] = Cardinality(Endings(q))
    /\ Len(samples[q]) = Cardinality(Endings(q)) + Cardinality(Unplanned(q))
    /\ stage[q] \in {"answered", "finished"} /\ startLogged[q] /\ Unplanned(q) = {}
         => Endings(q) # {}

\* The work continues the trace of the request that made it: the trace its
\* lines show, and the trace of the server span when there is one.
WorkContinuesTheTrace ==
  \A q \in HttpRequests : work[q] # NoWork =>
    /\ SdkRuns => work[q].trace = ServerTrace(q)
    /\ \E i \in DOMAIN lines[q] :
         /\ lines[q][i].event = "reservation_request.created"
         /\ lines[q][i].trace = work[q].trace

\* Every operation that starts is counted in the end, and every request whose
\* client waits is answered and finished.
EveryOperationIsCounted ==
  \A q \in HttpRequests :
    /\ stage[q] = "started" ~> samples[q] # <<>>
    /\ stage[q] = "received" ~> stage[q] = "finished" \/ q \in gone
=============================================================================
