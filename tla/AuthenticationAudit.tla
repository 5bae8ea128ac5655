------------------------ MODULE AuthenticationAudit ------------------------
(***************************************************************************)
(* The authentication boundaries of one service process and the audit      *)
(* trail they write to: DemoLoginService and GraphqlAuthenticationMiddle-  *)
(* ware decide, RequestAuthenticationAuditRecorder publishes the event     *)
(* through the configured publisher graph (createAuditPublisher), and the  *)
(* answer waits for the outcome.                                           *)
(*                                                                         *)
(*   stdout:      StdoutAuditPublisher                                     *)
(*   eventbridge: EventBridgeAuditPublisher, and then, with the mirror, a  *)
(*                copy of the event to StdoutAuditPublisher                *)
(*                                                                         *)
(* Each publisher is metered.  A request publishes at most one event, so   *)
(* requests are the Calls of EventBridgePublisher; the recorder passes no  *)
(* abort signal and an event the builder has validated.                    *)
(*                                                                         *)
(* All requests share the output buffer of the process.  A line counts as  *)
(* one unit of it.                                                         *)
(***************************************************************************)
EXTENDS EventBridgePublisher, Sequences, FiniteSets

CONSTANTS
  Settings,   \* the configurations the process may start with
  Bodies,     \* the login bodies requests may carry
  MaxPending  \* bound of the code: audit lines the output buffer may hold

Setting == [publisher : {"stdout", "eventbridge"}, mirror : BOOLEAN,
            authMode : {"local-fixed-user", "local-jwt"}, graphiql : BOOLEAN]

Field == {"absent", "illTyped", "overlong", "empty", "wrong", "right"}
Body == [shape : {"missing", "notAnObject", "object"}, username : Field, password : Field]
Token == {"absent", "undecodable", "badClaims", "good"}

ASSUME SettingsAssumption ==
  Settings \subseteq Setting /\ \A s \in Settings : s.mirror => s.publisher = "eventbridge"
ASSUME BodiesAssumption == Bodies \subseteq Body
ASSUME MaxPendingAssumption == MaxPending \in Nat
ASSUME CallsAssumption == IsFiniteSet(Calls)
\* The recorder calls publish without options, on an event it has just validated.
ASSUME RecorderAssumption == Signalled = {} /\ InvalidEvents = {}

VARIABLES
  settings,   \* the configuration, read once at startup
  phase,      \* how far the handling of each request has come
  attempt,    \* boundary and outcome of the credential check
  genuine,    \* requests that presented genuine credentials
  primary,    \* what the primary publisher has answered the recorder
  buffer,     \* requests whose audit line waits in the output buffer
  line,       \* what has become of the audit line of each request
  samples,    \* audit_publish_total, by role and by acceptance
  emitFailed, \* requests with an audit.emit.failed log line
  audited,    \* requests with an audit.authentication log line
  reported,   \* requests with an audit.stdout.failed log line
  answer      \* the answer to each request

outputVars == <<buffer, line, reported>>
requestVars == <<settings, phase, attempt, genuine, primary, samples, emitFailed, audited, answer>>
vars == <<publisherVars, outputVars, requestVars>>

FailureCode == {"MISSING_CREDENTIALS", "MALFORMED_CREDENTIALS", "INVALID_CREDENTIALS",
                "INVALID_TOKEN", "UNAUTHENTICATED"}
Attempt == [boundary : {"demo_login", "graphql"}, outcome : FailureCode \cup {"AUTHENTICATED"}]
Phase == {"new", "admitting", "recording", "waiting", "published", "copied", "done"}
LineState == {"none", "pending", "written", "lost", "failed"}
Answer == [status : {"200", "401", "next"}, receipt : BOOLEAN]
Roles == {"primary", "comparison"}

ASSUME NoneIsNoValue == None \notin Attempt \cup Answer \cup {"genuine", "false"}

Init ==
  /\ PublisherInit
  /\ settings \in Settings
  /\ phase = [r \in Calls |-> "new"]
  /\ attempt = [r \in Calls |-> None]
  /\ genuine = {}
  /\ primary = [r \in Calls |-> None]
  /\ buffer = << >>
  /\ line = [r \in Calls |-> "none"]
  /\ samples = [role \in Roles |-> [accepted \in BOOLEAN |-> 0]]
  /\ emitFailed = {}
  /\ audited = {}
  /\ reported = {}
  /\ answer = [r \in Calls |-> None]

----------------------------------------------------------------------------
\* The credential checks

Matches(body) == body.username = "right" /\ body.password = "right"
Genuine(body) == body.shape = "object" /\ Matches(body)

Authenticate(body) ==
  LET fields == {body.username, body.password} IN
  IF body.shape = "missing" THEN "MISSING_CREDENTIALS"
  ELSE IF body.shape = "notAnObject" THEN "MALFORMED_CREDENTIALS"
  ELSE IF "absent" \in fields THEN "MISSING_CREDENTIALS"
  ELSE IF fields \cap {"illTyped", "overlong"} # {} THEN "MALFORMED_CREDENTIALS"
  ELSE IF "empty" \in fields THEN "MISSING_CREDENTIALS"
  ELSE IF ~Matches(body) THEN "INVALID_CREDENTIALS"
  ELSE "AUTHENTICATED"

\* local-fixed-user ignores the token; local-jwt needs one that decodes to good claims.
TokenAccepted(token) == settings.authMode = "local-fixed-user" \/ token = "good"

\* POST /demo/auth/login: the decision is taken before the event is built.
Login(r, body) ==
  /\ phase[r] = "new"
  /\ attempt' = [attempt EXCEPT ![r] = [boundary |-> "demo_login", outcome |-> Authenticate(body)]]
  /\ genuine' = IF Genuine(body) THEN genuine \cup {r} ELSE genuine
  /\ phase' = [phase EXCEPT ![r] = "recording"]
  /\ UNCHANGED <<publisherVars, outputVars, settings, primary, samples, emitFailed, audited, answer>>

\* A GraphQL request: only a failed authentication is audited.
AuthenticateGraphql(r, token) ==
  /\ phase[r] = "new"
  /\ attempt' = [attempt EXCEPT ![r] =
       [boundary |-> "graphql",
        outcome |-> IF TokenAccepted(token) THEN "AUTHENTICATED" ELSE "UNAUTHENTICATED"]]
  /\ genuine' = IF TokenAccepted(token) THEN genuine \cup {r} ELSE genuine
  /\ phase' = [phase EXCEPT ![r] = IF TokenAccepted(token) THEN "admitting" ELSE "recording"]
  /\ UNCHANGED <<publisherVars, outputVars, settings, primary, samples, emitFailed, audited, answer>>

\* The identity is attached to the request and next() is called.
Admit(r) ==
  /\ phase[r] = "admitting"
  /\ phase' = [phase EXCEPT ![r] = "done"]
  /\ answer' = [answer EXCEPT ![r] = [status |-> "next", receipt |-> FALSE]]
  /\ UNCHANGED <<publisherVars, outputVars, settings, attempt, genuine, primary, samples,
                 emitFailed, audited>>

\* The GraphiQL landing page is served without authentication and without a decision.
ServeLandingPage(r) ==
  /\ phase[r] = "new" /\ settings.graphiql
  /\ phase' = [phase EXCEPT ![r] = "done"]
  /\ UNCHANGED <<publisherVars, outputVars, settings, attempt, genuine, primary, samples,
                 emitFailed, audited, answer>>

----------------------------------------------------------------------------
\* The publishers

\* MeteredAuditPublisher: one sample per publish, a thrown error counts as a failure.
Count(role, accepted) == samples' = [samples EXCEPT ![role][accepted] = @ + 1]

\* writableLength plus the new line against maxBufferedBytes.
RoomForLine == Len(buffer) + 1 <= MaxPending

\* StdoutAuditPublisher.publish: the line enters the buffer, finds no room, or its
\* write throws or fails before publish returns.
WriteLine(r, accepted) ==
  \/ /\ accepted /\ RoomForLine
     /\ buffer' = Append(buffer, r)
     /\ line' = [line EXCEPT ![r] = "pending"]
     /\ UNCHANGED reported
  \/ /\ ~accepted
     /\ line' = [line EXCEPT ![r] = "failed"]
     /\ reported' = reported \cup {r}
     /\ UNCHANGED buffer

\* publish(event) with AUDIT_PUBLISHER=stdout.
PublishToStdout(r) ==
  /\ phase[r] = "recording" /\ settings.publisher = "stdout"
  /\ \E accepted \in BOOLEAN :
       /\ WriteLine(r, accepted)
       /\ Count("primary", accepted)
       /\ primary' = [primary EXCEPT ![r] = IF accepted THEN Accept ELSE RejectFor("unavailable")]
  /\ phase' = [phase EXCEPT ![r] = "published"]
  /\ UNCHANGED <<publisherVars, settings, attempt, genuine, emitFailed, audited, answer>>

\* publish(event) with AUDIT_PUBLISHER=eventbridge: the request is sent, or send throws.
PublishToEventBridge(r) ==
  /\ phase[r] = "recording" /\ settings.publisher = "eventbridge"
  /\ Publish(r) \/ SendThrows(r)
  /\ phase' = [phase EXCEPT ![r] = "waiting"]
  /\ UNCHANGED <<outputVars, settings, attempt, genuine, primary, samples, emitFailed, audited, answer>>

\* Mutant: a publish that throws is not metered.
PrimaryReturnsUnmetered(r) ==
  /\ phase[r] = "waiting" /\ call[r] \in {"returned", "threw"}
  /\ LET outcome == IF call[r] = "threw" THEN RejectFor("unavailable") ELSE result[r] IN
       /\ IF call[r] = "threw" THEN UNCHANGED samples ELSE Count("primary", outcome.accepted)
       /\ primary' = [primary EXCEPT ![r] = outcome]
  /\ phase' = [phase EXCEPT ![r] = "published"]
  /\ UNCHANGED <<publisherVars, outputVars, settings, attempt, genuine, emitFailed, audited, answer>>

\* The EventBridge publish has settled and is metered; the recorder, or the mirror
\* around it, treats an error that was thrown like an unavailable publisher.
PrimaryReturns(r) ==
  /\ phase[r] = "waiting" /\ call[r] \in {"returned", "threw"}
  /\ LET outcome == IF call[r] = "threw" THEN RejectFor("unavailable") ELSE result[r] IN
       /\ Count("primary", outcome.accepted)
       /\ primary' = [primary EXCEPT ![r] = outcome]
  /\ phase' = [phase EXCEPT ![r] = "published"]
  /\ UNCHANGED <<publisherVars, outputVars, settings, attempt, genuine, emitFailed, audited, answer>>

\* StdoutComparisonMirrorAuditPublisher is in the graph.
Mirrors(r) == settings.mirror

\* The finally block of the mirror: the copy is written whatever the primary has
\* answered, and its own outcome is metered and dropped.
CopyToComparison(r) ==
  /\ phase[r] = "published" /\ Mirrors(r)
  /\ \E accepted \in BOOLEAN : WriteLine(r, accepted) /\ Count("comparison", accepted)
  /\ phase' = [phase EXCEPT ![r] = "copied"]
  /\ UNCHANGED <<publisherVars, settings, attempt, genuine, primary, emitFailed, audited, answer>>

\* Mutant: the login fails closed when its audit event was not accepted.
StatusFailingClosed(r) ==
  IF attempt[r].outcome = "AUTHENTICATED" /\ primary[r].accepted THEN "200" ELSE "401"

\* demo-auth.controller.ts and the 401 of the middleware.
StatusOf(r) == IF attempt[r].outcome = "AUTHENTICATED" THEN "200" ELSE "401"

\* The recorder has logged the outcome and returned a receipt or thrown
\* AuditEmissionUnavailableError; the boundary answers in the same turn.
AnswerAudited(r) ==
  /\ phase[r] = (IF Mirrors(r) THEN "copied" ELSE "published")
  /\ IF primary[r].accepted
     THEN audited' = audited \cup {r} /\ UNCHANGED emitFailed
     ELSE emitFailed' = emitFailed \cup {r} /\ UNCHANGED audited
  /\ answer' = [answer EXCEPT ![r] =
       [status |-> StatusOf(r),
        receipt |-> attempt[r].boundary = "demo_login" /\ primary[r].accepted]]
  /\ phase' = [phase EXCEPT ![r] = "done"]
  /\ UNCHANGED <<publisherVars, outputVars, settings, attempt, genuine, primary, samples>>

----------------------------------------------------------------------------
\* The output stream and the bus

\* The oldest line leaves the process.
DrainLine ==
  /\ buffer # << >>
  /\ line' = [line EXCEPT ![Head(buffer)] = "written"]
  /\ buffer' = Tail(buffer)
  /\ UNCHANGED <<publisherVars, requestVars, reported>>

\* Mutant: the write callback ignores its error.
LoseLineSilently ==
  /\ buffer # << >>
  /\ line' = [line EXCEPT ![Head(buffer)] = "lost"]
  /\ buffer' = Tail(buffer)
  /\ UNCHANGED <<publisherVars, requestVars, reported>>

\* The write callback reports an error after publish has answered.
LoseLine ==
  /\ buffer # << >>
  /\ line' = [line EXCEPT ![Head(buffer)] = "lost"]
  /\ reported' = reported \cup {Head(buffer)}
  /\ buffer' = Tail(buffer)
  /\ UNCHANGED <<publisherVars, requestVars>>

Transport(r) == TransportStep(r) /\ UNCHANGED <<outputVars, requestVars>>
Timeout(r) == TimeoutFires(r) /\ UNCHANGED <<outputVars, requestVars>>

\* The steps that need nothing but the event loop.
Handle(r) ==
  \/ Admit(r)
  \/ PublishToStdout(r)
  \/ PublishToEventBridge(r)
  \/ PrimaryReturns(r)
  \/ CopyToComparison(r)
  \/ AnswerAudited(r)

Arrive(r) ==
  \/ \E body \in Bodies : Login(r, body)
  \/ \E token \in Token : AuthenticateGraphql(r, token)
  \/ ServeLandingPage(r)

Next ==
  \/ \E r \in Calls : Arrive(r) \/ Handle(r) \/ Transport(r)
  \/ DrainLine
  \/ LoseLine

\* Callbacks that are ready run, and timers fire; the bus and the reader of the
\* output owe nothing.
Spec ==
  Init /\ [][Next]_vars
       /\ \A r \in Calls : WF_vars(Handle(r)) /\ WF_vars(Timeout(r))

(***************************************************************************)
(* Properties                                                              *)
(***************************************************************************)

\* Every variable has its type.
TypeOK ==
  /\ PublisherTypeOK
  /\ settings \in Settings
  /\ phase \in [Calls -> Phase]
  /\ attempt \in [Calls -> Attempt \cup {None}]
  /\ genuine \subseteq Calls
  /\ primary \in [Calls -> PublishResult \cup {None}]
  /\ buffer \in Seq(Calls)
  /\ line \in [Calls -> LineState]
  /\ samples \in [Roles -> [BOOLEAN -> Nat]]
  /\ emitFailed \subseteq Calls
  /\ audited \subseteq Calls
  /\ reported \subseteq Calls
  /\ answer \in [Calls -> Answer \cup {None}]

\* Requests whose event the primary publisher has really accepted.
Kept ==
  {r \in Calls : IF settings.publisher = "eventbridge"
                 THEN bus[r] = "taken" ELSE line[r] \in {"pending", "written", "lost"}}

\* The credential decision stands whatever the audit trail does, and a receipt is
\* given only for an event the primary publisher has accepted
\* (demo-login.service.ts 29-41, docs/audit-authentication-demo.md 90-95).
Promise == INSTANCE AuditedAuthentication WITH
  credentials <- [r \in Calls |-> IF attempt[r] = None THEN None
                                  ELSE IF r \in genuine THEN "genuine" ELSE "false"],
  recorded <- Kept,
  reply <- [r \in Calls |-> IF answer[r] = None THEN None
                            ELSE [granted |-> answer[r].status # "401",
                                  receipt |-> answer[r].receipt]]
ImplementsPromise == Promise!Spec

\* The primary failures operators alert on are exactly the requests whose event was
\* not accepted, and each of those that was answered has its audit.emit.failed line:
\* no failure is counted twice, missed, or hidden by the comparison copy.
AlertingSignalIsExact ==
  /\ \A accepted \in BOOLEAN :
       samples["primary"][accepted] =
         Cardinality({r \in Calls : primary[r] # None /\ primary[r].accepted = accepted})
  /\ emitFailed = {r \in Calls : primary[r] # None /\ ~primary[r].accepted /\ phase[r] = "done"}
  /\ audited = {r \in Calls : primary[r] # None /\ primary[r].accepted /\ phase[r] = "done"}

\* The mirror copies every published event exactly once before the answer, also
\* when the primary failed, and nothing is copied without it; the outcome of the
\* copy never replaces that of the primary.
Copied == {r \in Calls : primary[r] # None /\ phase[r] \in {"copied", "done"}}
ComparisonIsOnlyACopy ==
  /\ samples["comparison"][TRUE] + samples["comparison"][FALSE] =
       IF settings.mirror THEN Cardinality(Copied) ELSE 0
  /\ \A r \in Calls : primary[r] # None /\ settings.publisher = "eventbridge" =>
       primary[r] = IF call[r] = "threw" THEN RejectFor("unavailable") ELSE result[r]

\* The lines waiting in the output buffer never exceed its bound, however many
\* requests write at once and however slowly the reader drains them.
PendingBounded == Len(buffer) <= MaxPending

\* An audited request that was answered either has its event in the trail or has
\* left a signal: a line whose write fails after the answer is reported too.
NoSilentLoss ==
  \A r \in Calls : phase[r] = "done" /\ primary[r] # None =>
    \/ r \in emitFailed \cup reported
    \/ r \in Kept /\ (settings.publisher = "stdout" => line[r] # "lost")

\* Every credential check is answered although the bus may never answer and nobody
\* may read the output.
EveryCheckAnswered == \A r \in Calls : attempt[r] # None ~> answer[r] # None
=============================================================================
