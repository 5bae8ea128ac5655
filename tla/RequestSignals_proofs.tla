------------------------- MODULE RequestSignals_proofs -------------------------
(***************************************************************************)
(* Proofs about RequestSignals, for any requests, callers and deployments. *)
(* A step is a step of one request and leaves what the others have alone,  *)
(* so the invariant is one of each request: what its store holds, what the *)
(* plugin remembers of its operation, and what its lines say, in agreement *)
(* with the stage it has reached.  A line is right when it is written; it  *)
(* stays right because the identity and the operation of a request are     *)
(* settled before its first line.                                          *)
(***************************************************************************)
EXTENDS RequestSignals, FiniteSetTheorems, TLAPS

Ids == CorrelationIds \cup HttpRequests \cup {Absent}
TraceIds == Traces \cup HttpRequests \cup {"zero", Absent}
UserIds == Users \cup {Absent}
OperationIds == BusinessOperation \cup {Absent}
Outcomes == {"success", "graphql_error", "auth_error", "unexpected_error"}

Context == [correlation : Ids, traceparent : TraceIds, user : UserIds, operation : OperationIds]
LogLine == [event : Events, correlation : Ids, trace : TraceIds, user : UserIds,
            operation : OperationIds]
Sample == [operation : BusinessOperation, outcome : Outcomes]
Work == [correlation : Ids, trace : TraceIds, span : {"server", "caller", Absent}]

Types ==
  /\ deployed \in Deployments
  /\ stage \in [HttpRequests -> {"outside", "received", "admitted", "started", "resolved",
                                 "responding", "answered", "finished"}]
  /\ request \in [HttpRequests -> Incoming]
  /\ gone \subseteq HttpRequests
  /\ store \in [HttpRequests -> Context]
  /\ user \in [HttpRequests -> UserIds]
  /\ metadata \in [HttpRequests -> BusinessOperation]
  /\ errors \in [HttpRequests -> {"none", "auth", "other"}]
  /\ startLogged \in [HttpRequests -> BOOLEAN]
  /\ terminalLogged \in [HttpRequests -> BOOLEAN]
  /\ spanEnds \in [HttpRequests -> Nat]
  /\ httpSamples \in [HttpRequests -> Nat]
  /\ lines \in [HttpRequests -> Seq(LogLine)]
  /\ samples \in [HttpRequests -> Seq(Sample)]
  /\ work \in [HttpRequests -> Work]

\* The store of a chain of awaits is made from its own request.
StoreIsOwn(q) ==
  /\ stage[q] # "outside" =>
       /\ store[q].correlation = NormalizeId(q, request[q].correlation)
       /\ store[q].traceparent = Traceparent(request[q].trace)
  /\ store[q].user \in {Absent, user[q]}
  /\ store[q].operation \in {Absent, metadata[q]}

\* What a line is once it is written.
LineIsOwn(q, line) ==
  /\ line.correlation = NormalizeId(q, request[q].correlation)
  /\ line.trace = Prefer(ServerTrace(q), Traceparent(request[q].trace))
  /\ line.user \in {Absent, user[q]}
  /\ line.operation \in {Absent, metadata[q]}
  /\ line.event \in {"start", "finish", "failure"} =>
       /\ line.operation = metadata[q]
       /\ line.user = Prefer(store[q].user, user[q])

LinesAreOwn(q) == \A i \in DOMAIN lines[q] : LineIsOwn(q, lines[q][i])

\* Nothing is said of a request whose operation has not been named.
Unsaid(q) ==
  /\ lines[q] = <<>> /\ samples[q] = <<>> /\ work[q] = NoWork /\ spanEnds[q] = 0
  /\ startLogged[q] = FALSE /\ terminalLogged[q] = FALSE
  /\ metadata[q] = "unknown"

\* What the flags of the plugin say at each stage.
StageInv(q) ==
  /\ stage[q] \in {"outside", "received", "admitted", "started"} => Unsaid(q)
  /\ stage[q] = "resolved" => terminalLogged[q] = FALSE
  /\ stage[q] \in {"resolved", "responding"} => Unplanned(q) = {} /\ startLogged[q] = TRUE
  /\ stage[q] \in {"answered", "finished"} /\ Unplanned(q) = {} =>
       startLogged[q] = terminalLogged[q]
  /\ stage[q] # "finished" => httpSamples[q] = 0
  /\ httpSamples[q] <= 1

\* The flags of the plugin count the lines.
CountsInv(q) ==
  /\ Cardinality(Starts(q)) = IF startLogged[q] = TRUE THEN 1 ELSE 0
  /\ Cardinality(Endings(q)) = IF terminalLogged[q] = TRUE THEN 1 ELSE 0
  /\ spanEnds[q] = Cardinality(Endings(q))
  /\ Len(samples[q]) = Cardinality(Endings(q)) + Cardinality(Unplanned(q))
  /\ \A i \in Endings(q) : \E j \in Starts(q) : j < i

\* The saved work has the context of the line that reports it.
WorkInv(q) ==
  work[q] # NoWork =>
    /\ work[q].correlation = NormalizeId(q, request[q].correlation)
    /\ SdkRuns => work[q].trace = ServerTrace(q)
    /\ \E i \in DOMAIN lines[q] :
         /\ lines[q][i].event = "reservation_request.created"
         /\ lines[q][i].trace = work[q].trace

RequestInv(q) ==
  StoreIsOwn(q) /\ LinesAreOwn(q) /\ StageInv(q) /\ CountsInv(q) /\ WorkInv(q)

SignalsInv == Types /\ \A q \in HttpRequests : RequestInv(q)

-----------------------------------------------------------------------------
(* Lines that are counted by their event. *)

At(s, events) == {i \in DOMAIN s : s[i].event \in events}

LEMMA AppendedLine ==
  ASSUME NEW s \in Seq(LogLine), NEW x \in LogLine
  PROVE  /\ Append(s, x) \in Seq(LogLine)
         /\ DOMAIN Append(s, x) = DOMAIN s \cup {Len(s) + 1}
         /\ Len(s) + 1 \notin DOMAIN s
         /\ \A i \in DOMAIN s : i \in Nat /\ i < Len(s) + 1 /\ Append(s, x)[i] = s[i]
         /\ Append(s, x)[Len(s) + 1] = x
  OBVIOUS

\* A line is counted with the lines of its event, and with no others.
LEMMA OneMoreLine ==
  ASSUME NEW s \in Seq(LogLine), NEW x \in LogLine, NEW events
  PROVE  /\ Cardinality(At(s, events)) \in Nat
         /\ x.event \in events =>
              /\ At(Append(s, x), events) = At(s, events) \cup {Len(s) + 1}
              /\ Cardinality(At(Append(s, x), events)) = Cardinality(At(s, events)) + 1
         /\ x.event \notin events => At(Append(s, x), events) = At(s, events)
<1>1. IsFiniteSet(At(s, events)) /\ Cardinality(At(s, events)) \in Nat
  <2>1. DOMAIN s = 1..Len(s) /\ Len(s) \in Nat
    OBVIOUS
  <2>2. IsFiniteSet(DOMAIN s)
    BY <2>1, FS_Interval
  <2> QED BY <2>2, FS_Subset, FS_CardinalityType DEF At
<1>2. Len(s) + 1 \notin At(s, events)
  BY DEF At
<1>3. ASSUME x.event \in events
      PROVE  At(Append(s, x), events) = At(s, events) \cup {Len(s) + 1}
  BY <1>3, AppendedLine DEF At
<1>4. ASSUME x.event \notin events
      PROVE  At(Append(s, x), events) = At(s, events)
  BY <1>4, AppendedLine DEF At
<1> QED BY <1>1, <1>2, <1>3, <1>4, FS_AddElement

LEMMA NoLines ==
  ASSUME NEW events
  PROVE  At(<<>>, events) = {} /\ Cardinality(At(<<>>, events)) = 0
<1>1. At(<<>>, events) = {}
  BY DEF At
<1> QED BY <1>1, FS_EmptySet

LEMMA LoggedAt ==
  ASSUME NEW q, NEW events
  PROVE  /\ Logged(q, events) = At(lines[q], events)
         /\ Logged(q, events)' = At(lines'[q], events)
  BY DEF Logged, At

-----------------------------------------------------------------------------
(* The line that is written now. *)

LEMMA ServerTraceType ==
  ASSUME Types, NEW q \in HttpRequests
  PROVE  ServerTrace(q) \in Traces \cup HttpRequests \cup {Absent}
  BY DEF ServerTrace

LEMMA LineTypes ==
  ASSUME Types, NEW q \in HttpRequests, NEW event \in Events,
         NEW ofUser \in UserIds, NEW ofOperation \in OperationIds
  PROVE  Line(q, event, ofUser, ofOperation) \in LogLine
  BY ServerTraceType DEF Types, Line, Prefer, CurrentContext, Context, LogLine, TraceIds

LEMMA WrittenLineIsOwn ==
  ASSUME Types, NEW q \in HttpRequests, StoreIsOwn(q), stage[q] # "outside",
         NEW event \in Events,
         NEW ofUser \in {Absent, user[q]}, NEW ofOperation \in {Absent, metadata[q]},
         event \in {"start", "finish", "failure"} => ofUser = user[q] /\ ofOperation = metadata[q]
  PROVE  LineIsOwn(q, Line(q, event, ofUser, ofOperation))
  BY DEF StoreIsOwn, LineIsOwn, Line, Prefer, CurrentContext, Types, BusinessOperation,
         Operations, Absent

-----------------------------------------------------------------------------
(* What a step of one request leaves alone. *)

\* The variables at one request.
Own(q) == <<stage[q], request[q], store[q], user[q], metadata[q], startLogged[q],
            terminalLogged[q], errors[q], spanEnds[q], lines[q], samples[q], httpSamples[q],
            work[q]>>

LEMMA OthersAreLeftAlone ==
  ASSUME NEW q \in HttpRequests, RequestInv(q), UNCHANGED Own(q), UNCHANGED deployed
  PROVE  RequestInv(q)'
<1>1. StoreIsOwn(q)'
  BY DEF RequestInv, StoreIsOwn, Own, NormalizeId, Traceparent
<1>2. LinesAreOwn(q)'
  BY DEF RequestInv, LinesAreOwn, LineIsOwn, Own, NormalizeId, Traceparent, Prefer,
         ServerTrace, SdkRuns
<1>3. StageInv(q)'
  BY DEF RequestInv, StageInv, Unsaid, Own, Unplanned, Logged
<1>4. CountsInv(q)'
  BY DEF RequestInv, CountsInv, Own, Starts, Endings, Unplanned, Logged
<1>5. WorkInv(q)'
  BY DEF RequestInv, WorkInv, Own, NormalizeId, ServerTrace, SdkRuns
<1> QED BY <1>1, <1>2, <1>3, <1>4, <1>5 DEF RequestInv

\* A request that says nothing in a step, and has its identity, keeps what its
\* lines, its counts and its work say.
LEMMA NothingSaid ==
  ASSUME NEW q \in HttpRequests, RequestInv(q),
         UNCHANGED <<deployed, request, store[q], user[q], plugin, lines, samples, work>>
  PROVE  LinesAreOwn(q)' /\ CountsInv(q)' /\ WorkInv(q)' /\ Unplanned(q)' = Unplanned(q)
<1>1. LinesAreOwn(q)'
  BY DEF RequestInv, LinesAreOwn, LineIsOwn, plugin, NormalizeId, Traceparent, Prefer,
         ServerTrace, SdkRuns
<1>2. CountsInv(q)' /\ Unplanned(q)' = Unplanned(q)
  BY DEF RequestInv, CountsInv, plugin, Starts, Endings, Unplanned, Logged
<1>3. WorkInv(q)'
  BY DEF RequestInv, WorkInv, NormalizeId, ServerTrace, SdkRuns
<1> QED BY <1>1, <1>2, <1>3

\* A request of which nothing was said may still learn who it is.
LEMMA StillUnsaid ==
  ASSUME NEW q \in HttpRequests, Unsaid(q), UNCHANGED <<plugin, lines, samples, work>>
  PROVE  /\ LinesAreOwn(q)' /\ CountsInv(q)' /\ WorkInv(q)' /\ Unsaid(q)'
         /\ Unplanned(q)' = {}
<1>1. Unsaid(q)'
  BY DEF Unsaid, plugin
<1>2. LinesAreOwn(q)' /\ WorkInv(q)'
  BY <1>1 DEF Unsaid, LinesAreOwn, WorkInv
<1>3. \A events : Logged(q, events)' = {} /\ Cardinality(Logged(q, events)') = 0
  BY <1>1, NoLines, LoggedAt DEF Unsaid
<1>4. CountsInv(q)' /\ Unplanned(q)' = {}
  BY <1>1, <1>3 DEF Unsaid, CountsInv, Starts, Endings, Unplanned
<1> QED BY <1>1, <1>2, <1>4

-----------------------------------------------------------------------------
(* What a step of one request adds. *)

LEMMA LoggedOne ==
  ASSUME Types, NEW q \in HttpRequests, NEW x \in LogLine, Log(q, <<x>>)
  PROVE  /\ lines' \in [HttpRequests -> Seq(LogLine)]
         /\ lines'[q] = Append(lines[q], x)
         /\ \A p \in HttpRequests \ {q} : lines'[p] = lines[p]
<1>1. lines[q] \o <<x>> = Append(lines[q], x) /\ Append(lines[q], x) \in Seq(LogLine)
  BY DEF Types
<1> QED BY <1>1 DEF Log, Types

LEMMA Counted ==
  ASSUME Types, NEW q \in HttpRequests, NEW operation \in BusinessOperation,
         NEW outcome \in Outcomes, Count(q, operation, outcome)
  PROVE  /\ samples' \in [HttpRequests -> Seq(Sample)]
         /\ Len(samples'[q]) = Len(samples[q]) + 1
         /\ \A p \in HttpRequests \ {q} : samples'[p] = samples[p]
<1> DEFINE sample == [operation |-> operation, outcome |-> outcome]
<1>1. sample \in Sample /\ samples[q] \in Seq(Sample)
  BY DEF Types, Sample
<1>2. Append(samples[q], sample) \in Seq(Sample) /\ Len(Append(samples[q], sample)) = Len(samples[q]) + 1
  <2> HIDE DEF sample
  <2> QED BY <1>1
<1> QED BY <1>2 DEF Count, Types

\* The lines written before the step stay right, and the work keeps its line.
LEMMA LinesKeep ==
  ASSUME Types, NEW q \in HttpRequests, RequestInv(q), NEW x \in LogLine,
         lines'[q] = Append(lines[q], x), LineIsOwn(q, x),
         UNCHANGED <<deployed, request, store[q].user, user, metadata>>
  PROVE  /\ LinesAreOwn(q)'
         /\ work'[q] = work[q] => WorkInv(q)'
<1>1. lines[q] \in Seq(LogLine)
  BY DEF Types
<1>2. LineIsOwn(q, x)'
  BY DEF LineIsOwn, NormalizeId, Traceparent, Prefer, ServerTrace, SdkRuns
<1>3. ASSUME NEW i \in DOMAIN lines'[q]
      PROVE  LineIsOwn(q, lines[q][i])'
  <2>1. CASE i \in DOMAIN lines[q]
    <3>1. LineIsOwn(q, lines[q][i]) /\ lines'[q][i] = lines[q][i]
      BY <1>1, <2>1, AppendedLine DEF RequestInv, LinesAreOwn
    <3> QED BY <3>1 DEF LineIsOwn, NormalizeId, Traceparent, Prefer, ServerTrace, SdkRuns
  <2>2. CASE i = Len(lines[q]) + 1
    BY <1>1, <1>2, <2>2, AppendedLine DEF LineIsOwn
  <2> QED BY <1>1, <2>1, <2>2, AppendedLine
<1>4. ASSUME work'[q] = work[q]
      PROVE  WorkInv(q)'
  BY <1>1, <1>4, AppendedLine DEF RequestInv, WorkInv, NormalizeId, ServerTrace, SdkRuns
<1> QED BY <1>3, <1>4 DEF LinesAreOwn

\* One line changes the count of its own event.
LEMMA OneLineCounts ==
  ASSUME Types, NEW q \in HttpRequests, NEW x \in LogLine, lines'[q] = Append(lines[q], x),
         NEW events
  PROVE  /\ Cardinality(Logged(q, events)) \in Nat
         /\ x.event \in events =>
              /\ Logged(q, events)' = Logged(q, events) \cup {Len(lines[q]) + 1}
              /\ Cardinality(Logged(q, events)') = Cardinality(Logged(q, events)) + 1
         /\ x.event \notin events => Logged(q, events)' = Logged(q, events)
<1>1. lines[q] \in Seq(LogLine)
  BY DEF Types
<1>2. Logged(q, events) = At(lines[q], events)
      /\ Logged(q, events)' = At(Append(lines[q], x), events)
  BY DEF Logged, At
<1>3. Cardinality(Logged(q, events)) \in Nat
  BY <1>1, <1>2, OneMoreLine
<1>4. ASSUME x.event \in events
      PROVE  /\ Logged(q, events)' = Logged(q, events) \cup {Len(lines[q]) + 1}
             /\ Cardinality(Logged(q, events)') = Cardinality(Logged(q, events)) + 1
  BY <1>1, <1>2, <1>4, OneMoreLine
<1>5. ASSUME x.event \notin events
      PROVE  Logged(q, events)' = Logged(q, events)
  BY <1>1, <1>2, <1>5, OneMoreLine
<1> QED BY <1>3, <1>4, <1>5

\* A line about the request as a whole is neither a start nor an end.
LEMMA OtherLineCounts ==
  ASSUME Types, NEW q \in HttpRequests, RequestInv(q), NEW x \in LogLine,
         lines'[q] = Append(lines[q], x), x.event \notin {"start", "finish", "failure"},
         UNCHANGED plugin,
         Len(samples'[q]) = Len(samples[q]) +
           (IF x.event \in {"graphql.context.failure", "unexpected_error"} THEN 1 ELSE 0)
  PROVE  /\ CountsInv(q)'
         /\ x.event \in {"graphql.context.failure", "unexpected_error"} => Unplanned(q)' # {}
         /\ x.event \notin {"graphql.context.failure", "unexpected_error"} =>
              Unplanned(q)' = Unplanned(q)
<1>1. Starts(q)' = Starts(q) /\ Endings(q)' = Endings(q)
  BY OneLineCounts DEF Starts, Endings
<1>2. /\ Cardinality(Unplanned(q)) \in Nat
      /\ x.event \in {"graphql.context.failure", "unexpected_error"} =>
           /\ Cardinality(Unplanned(q)') = Cardinality(Unplanned(q)) + 1
           /\ Unplanned(q)' # {}
      /\ x.event \notin {"graphql.context.failure", "unexpected_error"} =>
           Unplanned(q)' = Unplanned(q)
  BY OneLineCounts DEF Unplanned
<1>3. Cardinality(Endings(q)) \in Nat /\ samples[q] \in Seq(Sample)
  BY OneLineCounts DEF Endings, Types
<1> QED BY <1>1, <1>2, <1>3 DEF RequestInv, CountsInv, plugin

\* The first line of an operation, when nothing was said of it.
LEMMA OperationStarts ==
  ASSUME Types, NEW q \in HttpRequests, Unsaid(q), NEW x \in LogLine, x.event = "start",
         lines'[q] = Append(lines[q], x), LineIsOwn(q, x)',
         startLogged'[q] = TRUE, UNCHANGED <<terminalLogged, spanEnds, samples, work>>
  PROVE  LinesAreOwn(q)' /\ CountsInv(q)' /\ WorkInv(q)' /\ Unplanned(q)' = {}
<1>1. lines[q] = <<>> /\ lines[q] \in Seq(LogLine)
  BY DEF Types, Unsaid
<1>2. DOMAIN lines'[q] = {1} /\ lines'[q][1] = x
  BY <1>1
<1>3. LinesAreOwn(q)' /\ WorkInv(q)'
  BY <1>2 DEF LinesAreOwn, Unsaid, WorkInv, LineIsOwn
<1>4. Logged(q, {"start"})' = {1} /\ Logged(q, {"finish", "failure"})' = {}
      /\ Logged(q, {"graphql.context.failure", "unexpected_error"})' = {}
  BY <1>2 DEF Logged
<1>5. Starts(q)' = {1} /\ Endings(q)' = {} /\ Unplanned(q)' = {}
  BY <1>4 DEF Starts, Endings, Unplanned
<1>6. Cardinality({1}) = 1 /\ Cardinality({}) = 0
  BY FS_Singleton, FS_EmptySet
<1>7. Cardinality(Starts(q)') = 1 /\ Cardinality(Endings(q)') = 0 /\ Cardinality(Unplanned(q)') = 0
  BY <1>5, <1>6
<1>8. CountsInv(q)'
  BY <1>5, <1>7 DEF CountsInv, Unsaid
<1> QED BY <1>3, <1>5, <1>8

-----------------------------------------------------------------------------
(* The end of an operation. *)

\* The start was logged: the last line ends the operation after it.
LEMMA LastLineCounts ==
  ASSUME Types, NEW q \in HttpRequests, RequestInv(q), NEW x \in LogLine,
         startLogged[q] = TRUE, terminalLogged[q] = FALSE,
         x.event \in {"finish", "failure"}, lines'[q] = Append(lines[q], x),
         startLogged'[q] = TRUE, terminalLogged'[q] = TRUE,
         spanEnds'[q] = spanEnds[q] + 1, Len(samples'[q]) = Len(samples[q]) + 1
  PROVE  CountsInv(q)' /\ Unplanned(q)' = Unplanned(q)
<1>1. lines[q] \in Seq(LogLine) /\ spanEnds[q] \in Nat /\ Len(samples[q]) \in Nat
  BY DEF Types
<1>2. Starts(q)' = Starts(q) /\ Unplanned(q)' = Unplanned(q)
  BY OneLineCounts DEF Starts, Unplanned
<1>3. /\ Endings(q)' = Endings(q) \cup {Len(lines[q]) + 1}
      /\ Cardinality(Endings(q)') = Cardinality(Endings(q)) + 1
  BY OneLineCounts DEF Endings
<1>4. Cardinality(Starts(q)) = 1 /\ Cardinality(Endings(q)) = 0 /\ Cardinality(Unplanned(q)) \in Nat
  <2>1. Cardinality(Unplanned(q)) \in Nat
    BY OneLineCounts DEF Unplanned
  <2> QED BY <2>1 DEF RequestInv, CountsInv
<1>5. Starts(q) # {}
  <2>1. Cardinality({}) = 0
    BY FS_EmptySet
  <2>2. Cardinality(Starts(q)) # Cardinality({})
    BY <1>4, <2>1
  <2> QED BY <2>2, Zenon
<1>6. PICK j \in Starts(q) : TRUE
  BY <1>5
<1>7. j < Len(lines[q]) + 1
  BY <1>1, <1>6 DEF Starts, Logged
<1>8. \A i \in Endings(q)' : \E k \in Starts(q)' : k < i
  BY <1>2, <1>3, <1>6, <1>7 DEF RequestInv, CountsInv
<1> QED BY <1>1, <1>2, <1>3, <1>4, <1>8 DEF RequestInv, CountsInv

\* Nothing was said: the start and the end are written together.
LEMMA BothLinesCount ==
  ASSUME NEW q \in HttpRequests, NEW x \in LogLine, NEW y \in LogLine, Types, Unsaid(q),
         x.event = "start", y.event \in {"finish", "failure"}, lines'[q] = Append(<<x>>, y),
         LineIsOwn(q, x)', LineIsOwn(q, y)',
         startLogged'[q] = TRUE, terminalLogged'[q] = TRUE, work'[q] = work[q],
         spanEnds'[q] = spanEnds[q] + 1, Len(samples'[q]) = Len(samples[q]) + 1
  PROVE  LinesAreOwn(q)' /\ CountsInv(q)' /\ WorkInv(q)' /\ Unplanned(q)' = {}
<1>1. DOMAIN lines'[q] = {1, 2} /\ lines'[q][1] = x /\ lines'[q][2] = y
  OBVIOUS
<1>2. LinesAreOwn(q)' /\ WorkInv(q)'
  BY <1>1 DEF LinesAreOwn, Unsaid, WorkInv, LineIsOwn
<1>3. Starts(q)' = {1} /\ Endings(q)' = {2} /\ Unplanned(q)' = {}
  BY <1>1 DEF Logged, Starts, Endings, Unplanned
<1>4. Cardinality({1}) = 1 /\ Cardinality({2}) = 1 /\ Cardinality({}) = 0
  BY FS_Singleton, FS_EmptySet
<1>5. Cardinality(Starts(q)') = 1 /\ Cardinality(Endings(q)') = 1 /\ Cardinality(Unplanned(q)') = 0
  BY <1>3, <1>4
<1>6. spanEnds'[q] = 1 /\ Len(samples'[q]) = 1
  BY DEF Unsaid
<1>7. \A i \in Endings(q)' : \E j \in Starts(q)' : j < i
  BY <1>3
<1>8. CountsInv(q)'
  BY <1>5, <1>6, <1>7 DEF CountsInv
<1> QED BY <1>2, <1>3, <1>8

LEMMA OperationEnds ==
  ASSUME Types, NEW q \in HttpRequests, RequestInv(q),
         NEW event \in {"finish", "failure"}, NEW outcome \in Outcomes,
         EndOperation(q, event, outcome),
         stage[q] \in {"started", "resolved", "responding"}, terminalLogged[q] = FALSE,
         UNCHANGED <<deployed, request, store, user, work>>
  PROVE  /\ lines' \in [HttpRequests -> Seq(LogLine)]
         /\ samples' \in [HttpRequests -> Seq(Sample)]
         /\ LinesAreOwn(q)' /\ CountsInv(q)' /\ WorkInv(q)' /\ Unplanned(q)' = {}
         /\ startLogged'[q] = TRUE /\ terminalLogged'[q] = TRUE
         /\ \A p \in HttpRequests \ {q} :
              UNCHANGED <<lines[p], samples[p], startLogged[p], terminalLogged[p], spanEnds[p]>>
<1>1. PICK x \in LogLine, y \in LogLine :
        /\ x = OperationLine(q, "start") /\ y = OperationLine(q, event)
        /\ x.event = "start" /\ y.event = event
        /\ LineIsOwn(q, x) /\ LineIsOwn(q, y)
  <2>1. "start" \in Events /\ event \in Events /\ user[q] \in UserIds
        /\ metadata[q] \in OperationIds
    BY DEF Events, Types, OperationIds
  <2>2. OperationLine(q, "start") \in LogLine /\ OperationLine(q, event) \in LogLine
    BY <2>1, LineTypes DEF OperationLine
  <2>3. LineIsOwn(q, OperationLine(q, "start")) /\ LineIsOwn(q, OperationLine(q, event))
    BY <2>1, WrittenLineIsOwn DEF OperationLine, RequestInv
  <2>4. OperationLine(q, "start").event = "start" /\ OperationLine(q, event).event = event
    BY DEF OperationLine, Line
  <2> QED BY <2>2, <2>3, <2>4
<1>2. /\ samples' \in [HttpRequests -> Seq(Sample)]
      /\ Len(samples'[q]) = Len(samples[q]) + 1
      /\ \A p \in HttpRequests \ {q} : samples'[p] = samples[p]
  BY Counted DEF EndOperation, Types
<1>3. /\ startLogged'[q] = TRUE /\ terminalLogged'[q] = TRUE /\ spanEnds'[q] = spanEnds[q] + 1
      /\ \A p \in HttpRequests \ {q} :
           UNCHANGED <<startLogged[p], terminalLogged[p], spanEnds[p]>>
  BY DEF EndOperation, Types
<1>4. UNCHANGED metadata
  BY DEF EndOperation
<1>5. LineIsOwn(q, x)' /\ LineIsOwn(q, y)'
  BY <1>1, <1>4 DEF LineIsOwn, NormalizeId, Traceparent, Prefer, ServerTrace, SdkRuns
<1>6. lines' = [lines EXCEPT ![q] = @ \o (IF startLogged[q] THEN <<y>> ELSE Append(<<x>>, y))]
  <2>1. Append(<<>>, y) = <<y>>
    BY <1>1
  <2>2. Append(StartUnlessLogged(q), y) = IF startLogged[q] THEN <<y>> ELSE Append(<<x>>, y)
    BY <1>1, <2>1 DEF StartUnlessLogged
  <2> QED BY <1>1, <2>2 DEF EndOperation, Log
<1>7. CASE startLogged[q] = TRUE
  <2>1. lines[q] \o <<y>> = Append(lines[q], y) /\ Append(lines[q], y) \in Seq(LogLine)
    BY <1>1 DEF Types
  <2>2. /\ lines' \in [HttpRequests -> Seq(LogLine)]
        /\ lines'[q] = Append(lines[q], y)
        /\ \A p \in HttpRequests \ {q} : lines'[p] = lines[p]
    BY <1>6, <1>7, <2>1 DEF Types
  <2>3. CountsInv(q)' /\ Unplanned(q)' = Unplanned(q)
    BY <1>1, <1>2, <1>3, <1>7, <2>2, LastLineCounts
  <2>4. Unplanned(q) = {}
    BY <1>7 DEF RequestInv, StageInv, Unsaid
  <2>5. LinesAreOwn(q)' /\ WorkInv(q)'
    BY <1>1, <1>4, <2>2, LinesKeep
  <2> QED BY <1>2, <1>3, <2>2, <2>3, <2>4, <2>5
<1>8. CASE startLogged[q] = FALSE
  <2>1. Unsaid(q)
    BY <1>8 DEF RequestInv, StageInv
  <2>2. lines[q] \o Append(<<x>>, y) = Append(<<x>>, y) /\ Append(<<x>>, y) \in Seq(LogLine)
    BY <1>1, <2>1 DEF Unsaid
  <2>3. /\ lines' \in [HttpRequests -> Seq(LogLine)]
        /\ lines'[q] = Append(<<x>>, y)
        /\ \A p \in HttpRequests \ {q} : lines'[p] = lines[p]
    BY <1>6, <1>8, <2>2 DEF Types
  <2>4. LinesAreOwn(q)' /\ CountsInv(q)' /\ WorkInv(q)' /\ Unplanned(q)' = {}
    <3>1. y.event \in {"finish", "failure"} /\ work'[q] = work[q]
      BY <1>1
    <3> QED BY <1>1, <1>2, <1>3, <1>5, <2>1, <2>3, <3>1, BothLinesCount
  <2> QED BY <1>2, <1>3, <2>3, <2>4
<1> QED BY <1>7, <1>8 DEF Types

-----------------------------------------------------------------------------
(* The steps at the HTTP boundary. *)

Kept(q) == Types' /\ RequestInv(q)' /\ UNCHANGED deployed
           /\ \A p \in HttpRequests \ {q} : UNCHANGED Own(p)

LEMMA ReceiveKeeps ==
  ASSUME SignalsInv, NEW q \in HttpRequests, NEW incoming \in Callers[deployed][q],
         Receive(q, incoming)
  PROVE  Kept(q)
<1>1. incoming \in Incoming
  BY CallersAssumption DEF SignalsInv, Types
<1>2. Types'
  <2>1. CreateRequestContext(q, incoming) \in Context
    BY <1>1 DEF CreateRequestContext, NoContext, Context, NormalizeId, Traceparent, Ids, TraceIds,
                UserIds, OperationIds, Incoming, Headers
  <2> QED BY <1>1, <2>1 DEF Receive, SignalsInv, Types, Goto, plugin, output
<1>3. Unsaid(q)
  BY DEF Receive, SignalsInv, RequestInv, StageInv
<1>4. LinesAreOwn(q)' /\ CountsInv(q)' /\ WorkInv(q)' /\ Unsaid(q)' /\ Unplanned(q)' = {}
  BY <1>3, StillUnsaid DEF Receive, output
<1>5. StoreIsOwn(q)'
  BY DEF Receive, StoreIsOwn, SignalsInv, Types, CreateRequestContext, NoContext, NormalizeId,
         Traceparent
<1>6. StageInv(q)'
  BY <1>4 DEF Receive, StageInv, Unsaid, SignalsInv, RequestInv, Types, Goto, output
<1> QED BY <1>2, <1>4, <1>5, <1>6
           DEF Kept, RequestInv, Receive, SignalsInv, Types, Own, Goto, plugin, output

LEMMA AuthenticateKeeps ==
  ASSUME SignalsInv, NEW q \in HttpRequests, NEW as \in Users, Authenticate(q, as)
  PROVE  Kept(q)
<1>1. Types'
  BY DEF Authenticate, SignalsInv, Types, Goto, EnrichWithUser, CurrentContext, Context, UserIds,
         plugin, output
<1>2. Unsaid(q)
  BY DEF Authenticate, SignalsInv, RequestInv, StageInv
<1>3. LinesAreOwn(q)' /\ CountsInv(q)' /\ WorkInv(q)' /\ Unsaid(q)' /\ Unplanned(q)' = {}
  BY <1>2, StillUnsaid DEF Authenticate, output
<1>4. StoreIsOwn(q)'
  <2>1. store'[q] = [store[q] EXCEPT !.user = as] /\ store[q] \in Context
    BY DEF Authenticate, EnrichWithUser, CurrentContext, SignalsInv, Types
  <2>2. /\ store'[q].correlation = store[q].correlation
        /\ store'[q].traceparent = store[q].traceparent
        /\ store'[q].operation = store[q].operation /\ store'[q].user = as
    BY <2>1 DEF Context
  <2>3. /\ user'[q] = as /\ stage[q] # "outside"
        /\ UNCHANGED <<request, metadata>>
    BY DEF Authenticate, SignalsInv, Types, plugin
  <2> QED BY <2>2, <2>3 DEF SignalsInv, RequestInv, StoreIsOwn, NormalizeId, Traceparent
<1>5. StageInv(q)'
  BY <1>3 DEF Authenticate, StageInv, Unsaid, SignalsInv, RequestInv, Types, Goto, output
<1> QED BY <1>1, <1>3, <1>4, <1>5
           DEF Kept, RequestInv, Authenticate, SignalsInv, Types, Own, Goto, EnrichWithUser,
               plugin, output

\* The steps that only move the request on.
LEMMA MovingOnKeeps ==
  ASSUME SignalsInv, NEW q \in HttpRequests, NEW next,
         \/ /\ stage[q] \in {"received", "admitted"} /\ next \in {"admitted", "started", "answered"}
            /\ UNCHANGED errors
         \/ /\ stage[q] = "resolved" /\ next = "responding"
            /\ \E kind \in {"none", "other"} : errors' = [errors EXCEPT ![q] = kind]
         \/ /\ stage[q] = "responding" /\ next = "answered" /\ terminalLogged[q] = TRUE
            /\ UNCHANGED errors
         \/ /\ stage[q] = "answered" /\ next = "finished" /\ UNCHANGED errors,
         Goto(q, next), UNCHANGED <<deployed, request, gone, store, user, plugin, output, work>>
  PROVE  Kept(q)
<1>1. Types'
  BY DEF SignalsInv, Types, Goto, plugin, output
<1>2. LinesAreOwn(q)' /\ CountsInv(q)' /\ WorkInv(q)' /\ Unplanned(q)' = Unplanned(q)
  BY NothingSaid DEF SignalsInv, output
<1>3. StoreIsOwn(q)'
  BY DEF StoreIsOwn, SignalsInv, RequestInv, Types, Goto, NormalizeId, Traceparent, plugin
<1>4. Unsaid(q) => Unsaid(q)'
  BY DEF Unsaid, plugin, output
<1>5. Unsaid(q) => Unplanned(q) = {}
  BY NoLines, LoggedAt DEF Unsaid, Unplanned
<1>6. stage'[q] = next
  BY DEF SignalsInv, Types, Goto
<1>7. StageInv(q)'
  BY <1>2, <1>4, <1>5, <1>6 DEF StageInv, SignalsInv, RequestInv, plugin, output, Unsaid
<1> QED BY <1>1, <1>2, <1>3, <1>7
           DEF Kept, RequestInv, SignalsInv, Types, Own, Goto, plugin, output

LEMMA HangUpKeeps ==
  ASSUME SignalsInv, NEW q \in HttpRequests, HangUp(q)
  PROVE  Kept(q)
<1>1. Types'
  BY DEF HangUp, SignalsInv, Types, plugin, output
<1>2. \A p \in HttpRequests : UNCHANGED Own(p)
  BY DEF HangUp, Own, plugin, output
<1>3. RequestInv(q)'
  BY <1>2, OthersAreLeftAlone DEF HangUp, SignalsInv
<1> QED BY <1>1, <1>2, <1>3 DEF Kept, HangUp

LEMMA FinishKeeps ==
  ASSUME SignalsInv, NEW q \in HttpRequests, Finish(q)
  PROVE  Kept(q)
<1>1. CASE request[q].route = "/health"
  BY <1>1, MovingOnKeeps DEF Finish, output
<1>2. CASE request[q].route # "/health"
  <2> DEFINE x == Line(q, "http.request.finish", Absent, Absent)
  <2>1. x \in LogLine /\ LineIsOwn(q, x) /\ x.event = "http.request.finish"
    <3>1. "http.request.finish" \in Events /\ Absent \in UserIds /\ Absent \in OperationIds
      BY DEF Events, UserIds, OperationIds
    <3>2. x \in LogLine
      BY <3>1, LineTypes DEF SignalsInv
    <3>3. LineIsOwn(q, x)
      BY <3>1, WrittenLineIsOwn DEF SignalsInv, RequestInv, Finish
    <3> QED BY <3>2, <3>3 DEF Line
  <2> HIDE DEF x
  <2>2. Log(q, <<x>>)
    BY <1>2 DEF Finish, x
  <2>3. /\ lines' \in [HttpRequests -> Seq(LogLine)]
        /\ lines'[q] = Append(lines[q], x)
        /\ \A p \in HttpRequests \ {q} : lines'[p] = lines[p]
    BY <2>1, <2>2, LoggedOne DEF SignalsInv
  <2>4. /\ stage[q] = "answered" /\ stage' = [stage EXCEPT ![q] = "finished"]
        /\ httpSamples' = [httpSamples EXCEPT ![q] = @ + 1]
        /\ UNCHANGED <<deployed, request, gone, store, user, errors, samples, work, plugin>>
    BY <1>2 DEF Finish, Goto
  <2>5. Types'
    BY <2>3, <2>4 DEF SignalsInv, Types, plugin
  <2>6. LinesAreOwn(q)' /\ WorkInv(q)'
    BY <2>1, <2>3, <2>4, LinesKeep DEF SignalsInv, plugin
  <2>7. CountsInv(q)' /\ Unplanned(q)' = Unplanned(q)
    <3>1. Len(samples[q]) \in Nat /\ Len(samples'[q]) = Len(samples[q]) + 0
      BY <2>4 DEF SignalsInv, Types
    <3> QED BY <2>1, <2>3, <2>4, <3>1, OtherLineCounts DEF SignalsInv
  <2>8. StoreIsOwn(q)'
    BY <2>4 DEF StoreIsOwn, SignalsInv, RequestInv, NormalizeId, Traceparent, plugin
  <2>9. StageInv(q)'
    <3>1. stage'[q] = "finished" /\ httpSamples'[q] = 1
      <4>1. httpSamples[q] = 0
        BY <2>4 DEF SignalsInv, RequestInv, StageInv
      <4> QED BY <2>4, <4>1 DEF SignalsInv, Types
    <3>2. /\ startLogged'[q] = startLogged[q] /\ terminalLogged'[q] = terminalLogged[q]
          /\ Unplanned(q) = {} => startLogged[q] = terminalLogged[q]
      BY <2>4 DEF SignalsInv, RequestInv, StageInv, plugin
    <3> QED BY <2>7, <3>1, <3>2 DEF StageInv
  <2> QED BY <2>3, <2>4, <2>5, <2>6, <2>7, <2>8, <2>9
             DEF Kept, RequestInv, SignalsInv, Types, Own, plugin
<1> QED BY <1>1, <1>2

LEMMA BoundaryKeeps ==
  ASSUME SignalsInv, NEW q \in HttpRequests, Boundary(q)
  PROVE  Kept(q)
<1>1. ASSUME RefuseUnauthenticated(q)
      PROVE  Kept(q)
  BY <1>1, MovingOnKeeps DEF RefuseUnauthenticated
<1>2. ASSUME SkipAuthentication(q)
      PROVE  Kept(q)
  BY <1>2, MovingOnKeeps DEF SkipAuthentication
<1>3. ASSUME AnswerWithoutOperation(q)
      PROVE  Kept(q)
  BY <1>3, MovingOnKeeps DEF AnswerWithoutOperation
<1> QED BY <1>1, <1>2, <1>3, AuthenticateKeeps, FinishKeeps DEF Boundary

-----------------------------------------------------------------------------
(* The steps of the plugin, and the saving of a request. *)

\* A failure outside the operation has its line and its sample.
LEMMA FailureOutsideKeeps ==
  ASSUME SignalsInv, NEW q \in HttpRequests,
         NEW event \in {"graphql.context.failure", "unexpected_error"},
         NEW outcome \in {"auth_error", "unexpected_error"},
         stage[q] \in {"admitted", "started", "resolved", "responding"},
         Log(q, <<Line(q, event, Absent, Absent)>>), Count(q, "unknown", outcome),
         Goto(q, "answered"),
         UNCHANGED <<deployed, request, gone, store, user, plugin, errors, httpSamples, work>>
  PROVE  Kept(q)
<1> DEFINE x == Line(q, event, Absent, Absent)
<1>1. x \in LogLine /\ LineIsOwn(q, x) /\ x.event = event
  <2>1. event \in Events /\ Absent \in UserIds /\ Absent \in OperationIds
    BY DEF Events, UserIds, OperationIds
  <2>2. x \in LogLine
    BY <2>1, LineTypes DEF SignalsInv
  <2>3. LineIsOwn(q, x)
    BY <2>1, WrittenLineIsOwn DEF SignalsInv, RequestInv
  <2> QED BY <2>2, <2>3 DEF Line
<1> HIDE DEF x
<1>2. /\ lines' \in [HttpRequests -> Seq(LogLine)]
      /\ lines'[q] = Append(lines[q], x)
      /\ \A p \in HttpRequests \ {q} : lines'[p] = lines[p]
  BY <1>1, LoggedOne DEF SignalsInv, x
<1>3. /\ samples' \in [HttpRequests -> Seq(Sample)]
      /\ Len(samples'[q]) = Len(samples[q]) + 1
      /\ \A p \in HttpRequests \ {q} : samples'[p] = samples[p]
  BY Counted DEF SignalsInv, BusinessOperation, Outcomes
<1>4. stage' = [stage EXCEPT ![q] = "answered"]
  BY DEF Goto
<1>5. Types'
  BY <1>2, <1>3, <1>4 DEF SignalsInv, Types, plugin
<1>6. LinesAreOwn(q)' /\ WorkInv(q)'
  BY <1>1, <1>2, LinesKeep DEF SignalsInv, plugin
<1>7. CountsInv(q)' /\ Unplanned(q)' # {}
  BY <1>1, <1>2, <1>3, OtherLineCounts DEF SignalsInv
<1>8. StoreIsOwn(q)'
  BY <1>4 DEF StoreIsOwn, SignalsInv, RequestInv, NormalizeId, Traceparent, plugin
<1>9. StageInv(q)'
  <2>1. stage'[q] = "answered" /\ httpSamples'[q] = 0
    <3>1. httpSamples[q] = 0
      BY DEF SignalsInv, RequestInv, StageInv
    <3> QED BY <1>4, <3>1 DEF SignalsInv, Types
  <2> QED BY <1>7, <2>1 DEF StageInv
<1> QED BY <1>2, <1>3, <1>4, <1>5, <1>6, <1>7, <1>8, <1>9
           DEF Kept, RequestInv, SignalsInv, Types, Own, plugin

\* An operation ends in a failure or in a finish.
LEMMA EndingKeeps ==
  ASSUME SignalsInv, NEW q \in HttpRequests, NEW event \in {"finish", "failure"},
         NEW outcome \in Outcomes, NEW next \in {"responding", "answered"},
         stage[q] \in {"started", "resolved", "responding"}, terminalLogged[q] = FALSE,
         EndOperation(q, event, outcome), Goto(q, next),
         errors' \in [HttpRequests -> {"none", "auth", "other"}],
         \A p \in HttpRequests \ {q} : errors'[p] = errors[p],
         UNCHANGED <<deployed, request, gone, store, user, work>>
  PROVE  Kept(q)
<1>1. /\ lines' \in [HttpRequests -> Seq(LogLine)]
      /\ samples' \in [HttpRequests -> Seq(Sample)]
      /\ LinesAreOwn(q)' /\ CountsInv(q)' /\ WorkInv(q)' /\ Unplanned(q)' = {}
      /\ startLogged'[q] = TRUE /\ terminalLogged'[q] = TRUE
      /\ \A p \in HttpRequests \ {q} :
           UNCHANGED <<lines[p], samples[p], startLogged[p], terminalLogged[p], spanEnds[p]>>
  BY OperationEnds DEF SignalsInv
<1>2. /\ startLogged' \in [HttpRequests -> BOOLEAN]
      /\ terminalLogged' \in [HttpRequests -> BOOLEAN]
      /\ spanEnds' \in [HttpRequests -> Nat]
      /\ UNCHANGED <<metadata, httpSamples>>
  BY DEF EndOperation, SignalsInv, Types
<1>3. stage' = [stage EXCEPT ![q] = next]
  BY DEF Goto
<1>4. Types'
  BY <1>1, <1>2, <1>3 DEF SignalsInv, Types
<1>5. StoreIsOwn(q)'
  BY <1>2, <1>3 DEF StoreIsOwn, SignalsInv, RequestInv, NormalizeId, Traceparent
<1>6. StageInv(q)'
  <2>1. stage'[q] = next /\ httpSamples'[q] = 0
    <3>1. httpSamples[q] = 0
      BY DEF SignalsInv, RequestInv, StageInv
    <3> QED BY <1>2, <1>3, <3>1 DEF SignalsInv, Types
  <2>2. startLogged'[q] = terminalLogged'[q] /\ startLogged'[q] = TRUE /\ Unplanned(q)' = {}
    BY <1>1
  <2>3. next \notin {"outside", "received", "admitted", "started", "resolved", "finished"}
    OBVIOUS
  <2> QED BY <2>1, <2>2, <2>3 DEF StageInv
<1>7. ASSUME NEW p \in HttpRequests \ {q}
      PROVE  UNCHANGED Own(p)
  <2>1. stage'[p] = stage[p]
    BY <1>3 DEF SignalsInv, Types
  <2> QED BY <1>1, <1>2, <2>1 DEF Own
<1> QED BY <1>1, <1>4, <1>5, <1>6, <1>7 DEF Kept, RequestInv

LEMMA DidEncounterErrorsKeeps ==
  ASSUME SignalsInv, NEW q \in HttpRequests, NEW kind \in {"auth", "other"},
         DidEncounterErrors(q, kind)
  PROVE  Kept(q)
<1>1. terminalLogged[q] = FALSE
  BY DEF DidEncounterErrors, SignalsInv, RequestInv, StageInv, Unsaid
<1>2. Outcome(kind) \in Outcomes
  BY DEF Outcome, Outcomes
<1>3. /\ errors' \in [HttpRequests -> {"none", "auth", "other"}]
      /\ \A p \in HttpRequests \ {q} : errors'[p] = errors[p]
  BY DEF DidEncounterErrors, SignalsInv, Types
<1>4. /\ stage[q] \in {"started", "resolved", "responding"}
      /\ EndOperation(q, "failure", Outcome(kind)) /\ Goto(q, "responding")
      /\ UNCHANGED <<deployed, request, gone, store, user, work>>
  BY DEF DidEncounterErrors
<1> QED BY <1>1, <1>2, <1>3, <1>4, EndingKeeps

LEMMA DidResolveOperationKeeps ==
  ASSUME SignalsInv, NEW q \in HttpRequests, NEW operation \in BusinessOperation,
         DidResolveOperation(q, operation)
  PROVE  Kept(q)
<1>1. Unsaid(q)
  BY DEF DidResolveOperation, SignalsInv, RequestInv, StageInv
<1>2. /\ store'[q] = [store[q] EXCEPT !.operation = operation] /\ store[q] \in Context
      /\ metadata'[q] = operation /\ startLogged'[q] = TRUE /\ stage'[q] = "resolved"
      /\ stage[q] = "started"
      /\ UNCHANGED <<deployed, request, user, terminalLogged, spanEnds, samples, work, httpSamples>>
  BY DEF DidResolveOperation, EnrichWithOperation, CurrentContext, Goto, SignalsInv, Types
<1>3. /\ store'[q].correlation = store[q].correlation
      /\ store'[q].traceparent = store[q].traceparent
      /\ store'[q].user = store[q].user /\ store'[q].operation = operation
      /\ store'[q] \in Context
  BY <1>2 DEF Context, OperationIds
<1>4. PICK x \in LogLine :
        /\ x = ResolvedLine(q, operation)
        /\ x.event = "start" /\ x.operation = operation
        /\ x.correlation = NormalizeId(q, request[q].correlation)
        /\ x.trace = Prefer(ServerTrace(q), Traceparent(request[q].trace))
        /\ x.user = Prefer(store[q].user, user[q])
  <2> DEFINE y == OperationLine(q, "start")
  <2>1. "start" \in Events /\ user[q] \in UserIds /\ metadata[q] \in OperationIds
    BY DEF Events, SignalsInv, Types, OperationIds
  <2>2. y \in LogLine
    BY <2>1, LineTypes DEF OperationLine, SignalsInv
  <2>3. LineIsOwn(q, y)
    BY <1>2, <2>1, WrittenLineIsOwn DEF OperationLine, SignalsInv, RequestInv
  <2>4. y.event = "start"
    BY DEF OperationLine, Line
  <2> HIDE DEF y
  <2>5. ResolvedLine(q, operation) = [y EXCEPT !.operation = operation]
    BY DEF ResolvedLine, y
  <2> QED BY <2>2, <2>3, <2>4, <2>5 DEF LogLine, LineIsOwn, OperationIds
<1>5. /\ lines' \in [HttpRequests -> Seq(LogLine)]
      /\ lines'[q] = Append(lines[q], x)
      /\ \A p \in HttpRequests \ {q} : lines'[p] = lines[p]
  BY <1>4, LoggedOne DEF DidResolveOperation, SignalsInv
<1>6. LineIsOwn(q, x)'
  <2>1. Prefer(store[q].user, user[q]) \in {Absent, user[q]}
    BY DEF SignalsInv, RequestInv, StoreIsOwn, Prefer
  <2> QED BY <1>2, <1>3, <1>4, <2>1 DEF LineIsOwn, NormalizeId, Traceparent, Prefer, ServerTrace,
                                        SdkRuns
<1>7. LinesAreOwn(q)' /\ CountsInv(q)' /\ WorkInv(q)' /\ Unplanned(q)' = {}
  BY <1>1, <1>2, <1>4, <1>5, <1>6, OperationStarts DEF SignalsInv
<1>8. Types'
  BY <1>3, <1>5 DEF DidResolveOperation, EnrichWithOperation, CurrentContext, Goto, SignalsInv, Types
<1>9. StoreIsOwn(q)'
  BY <1>2, <1>3 DEF StoreIsOwn, SignalsInv, RequestInv, NormalizeId, Traceparent
<1>10. StageInv(q)'
  <2>1. httpSamples[q] = 0 /\ terminalLogged[q] = FALSE
    BY <1>1, <1>2 DEF SignalsInv, RequestInv, StageInv, Unsaid
  <2> QED BY <1>2, <1>7, <2>1 DEF StageInv
<1> QED BY <1>5, <1>7, <1>8, <1>9, <1>10
           DEF Kept, RequestInv, DidResolveOperation, EnrichWithOperation, Goto, SignalsInv, Types, Own

LEMMA WillSendResponseKeeps ==
  ASSUME SignalsInv, NEW q \in HttpRequests, WillSendResponse(q)
  PROVE  Kept(q)
<1>1. terminalLogged[q] \in BOOLEAN /\ stage[q] = "responding"
  BY DEF SignalsInv, Types, WillSendResponse
<1>2. CASE terminalLogged[q] = TRUE
  BY <1>1, <1>2, MovingOnKeeps DEF WillSendResponse, EndsHere
<1>3. CASE terminalLogged[q] = FALSE
  <2>1. /\ errors' \in [HttpRequests -> {"none", "auth", "other"}]
        /\ \A p \in HttpRequests \ {q} : errors'[p] = errors[p]
    BY DEF WillSendResponse, SignalsInv, Types
  <2>2. \/ EndOperation(q, "failure", "graphql_error")
        \/ EndOperation(q, "finish", "success")
    BY <1>3 DEF WillSendResponse, EndsHere
  <2> QED BY <1>1, <1>3, <2>1, <2>2, EndingKeeps DEF WillSendResponse, Outcomes
<1> QED BY <1>1, <1>2, <1>3

LEMMA SaveReservationRequestKeeps ==
  ASSUME SignalsInv, NEW q \in HttpRequests, SaveReservationRequest(q)
  PROVE  Kept(q)
<1> DEFINE event == "reservation_request.created"
           x == Line(q, event, Absent, "requestReservation")
<1>1. x \in LogLine /\ LineIsOwn(q, x) /\ x.event = event
      /\ x.trace = ActiveTraceparent(q) /\ x.correlation = CurrentContext(q).correlation
  <2>1. event \in Events /\ Absent \in UserIds /\ "requestReservation" \in OperationIds
    BY DEF Events, UserIds, OperationIds, BusinessOperation, Operations
  <2>2. x \in LogLine
    BY <2>1, LineTypes DEF SignalsInv
  <2>3. metadata[q] = "requestReservation" /\ stage[q] # "outside"
    BY DEF SaveReservationRequest
  <2>4. LineIsOwn(q, x)
    BY <2>1, <2>3, WrittenLineIsOwn DEF SignalsInv, RequestInv
  <2> QED BY <2>2, <2>4 DEF Line, ActiveTraceparent
<1>2. Log(q, <<x>>) /\ work' = [work EXCEPT ![q] = WorkContext(q)] /\ stage[q] = "resolved"
      /\ UNCHANGED <<deployed, stage, request, gone, store, user, plugin, errors, samples, httpSamples>>
  BY DEF SaveReservationRequest
<1> HIDE DEF x, event
<1>3. /\ lines' \in [HttpRequests -> Seq(LogLine)]
      /\ lines'[q] = Append(lines[q], x)
      /\ \A p \in HttpRequests \ {q} : lines'[p] = lines[p]
  BY <1>1, <1>2, LoggedOne DEF SignalsInv
<1>4. /\ WorkContext(q) \in Work
      /\ WorkContext(q) # NoWork =>
           /\ WorkContext(q).correlation = CurrentContext(q).correlation
           /\ WorkContext(q).trace = ActiveTraceparent(q)
           /\ SdkRuns => ActiveTraceparent(q) = ServerTrace(q)
  <2>1. ActiveTraceparent(q) \in TraceIds
    BY ServerTraceType
       DEF ActiveTraceparent, Prefer, CurrentContext, SignalsInv, Types, Context, TraceIds
  <2>2. CurrentContext(q).correlation \in Ids
    BY DEF CurrentContext, SignalsInv, Types, Context
  <2>3. SdkRuns => ServerTrace(q) # Absent
    BY AbsentAssumption DEF ServerTrace
  <2>4. NoWork \in Work
    BY DEF NoWork, Work, Ids, TraceIds
  <2>5. CASE ActiveTraceparent(q) = Absent
    BY <2>4, <2>5 DEF WorkContext
  <2>6. CASE ActiveTraceparent(q) # Absent
    BY <2>1, <2>2, <2>3, <2>6 DEF WorkContext, Work, ActiveTraceparent, Prefer
  <2> QED BY <2>5, <2>6
<1>5. Types'
  BY <1>2, <1>3, <1>4 DEF SignalsInv, Types, plugin
<1>6. LinesAreOwn(q)'
  BY <1>1, <1>2, <1>3, LinesKeep DEF SignalsInv, plugin
<1>7. CountsInv(q)' /\ Unplanned(q)' = Unplanned(q)
  <2>1. Len(samples[q]) \in Nat /\ Len(samples'[q]) = Len(samples[q]) + 0
    BY <1>2 DEF SignalsInv, Types
  <2>2. x.event \notin {"start", "finish", "failure", "graphql.context.failure", "unexpected_error"}
    BY <1>1 DEF event
  <2> QED BY <1>1, <1>2, <1>3, <2>1, <2>2, OtherLineCounts DEF SignalsInv
<1>8. StoreIsOwn(q)'
  BY <1>2 DEF StoreIsOwn, SignalsInv, RequestInv, NormalizeId, Traceparent, plugin
<1>9. StageInv(q)'
  BY <1>2, <1>7 DEF StageInv, SignalsInv, RequestInv, plugin
<1>10. WorkInv(q)'
  <2>1. work'[q] = WorkContext(q)
    BY <1>2 DEF SignalsInv, Types
  <2>2. CurrentContext(q).correlation = NormalizeId(q, request[q].correlation)
    BY <1>2 DEF SignalsInv, RequestInv, StoreIsOwn, CurrentContext
  <2>3. \E i \in DOMAIN lines'[q] : lines'[q][i] = x
    BY <1>1, <1>3, AppendedLine DEF SignalsInv, Types
  <2>4. NormalizeId(q, request[q].correlation)' = NormalizeId(q, request[q].correlation)
        /\ ServerTrace(q)' = ServerTrace(q) /\ SdkRuns' = SdkRuns
    BY <1>2 DEF NormalizeId, ServerTrace, SdkRuns
  <2> QED BY <1>1, <1>4, <2>1, <2>2, <2>3, <2>4 DEF WorkInv, event
<1> QED BY <1>2, <1>3, <1>5, <1>6, <1>7, <1>8, <1>9, <1>10
           DEF Kept, RequestInv, SignalsInv, Types, Own, plugin

LEMMA PluginKeeps ==
  ASSUME SignalsInv, NEW q \in HttpRequests, Plugin(q)
  PROVE  Kept(q)
<1>1. ASSUME ContextCreationDidFail(q)
      PROVE  Kept(q)
  BY <1>1, FailureOutsideKeeps DEF ContextCreationDidFail
<1>2. ASSUME RequestDidStart(q)
      PROVE  Kept(q)
  BY <1>2, MovingOnKeeps DEF RequestDidStart
<1>3. ASSUME NEW kind \in {"none", "other"}, Execute(q, kind)
      PROVE  Kept(q)
  BY <1>3, MovingOnKeeps DEF Execute
<1>4. ASSUME UnexpectedErrorProcessingRequest(q)
      PROVE  Kept(q)
  BY <1>4, FailureOutsideKeeps DEF UnexpectedErrorProcessingRequest
<1> QED BY <1>1, <1>2, <1>3, <1>4, DidEncounterErrorsKeeps, DidResolveOperationKeeps,
           WillSendResponseKeeps, SaveReservationRequestKeeps DEF Plugin

-----------------------------------------------------------------------------
(* The invariant. *)

LEMMA InitHolds == Init => SignalsInv
<1> SUFFICES ASSUME Init PROVE SignalsInv
  OBVIOUS
<1>1. Types
  <2>1. NoContext \in Context /\ NoWork \in Work /\ NoRequest \in Incoming
    BY DEF NoContext, NoWork, NoRequest, Context, Work, Incoming, Ids, TraceIds, UserIds,
           OperationIds, Routes, Headers
  <2> QED BY <2>1 DEF Init, Types, UserIds, BusinessOperation
<1>2. ASSUME NEW q \in HttpRequests
      PROVE  RequestInv(q)
  <2>1. Unsaid(q) /\ stage[q] = "outside" /\ httpSamples[q] = 0
    BY DEF Init, Unsaid
  <2>2. \A events : Logged(q, events) = {} /\ Cardinality(Logged(q, events)) = 0
    BY <2>1, NoLines, LoggedAt DEF Unsaid
  <2>3. CountsInv(q) /\ Unplanned(q) = {}
    BY <2>1, <2>2 DEF Unsaid, CountsInv, Starts, Endings, Unplanned
  <2>4. LinesAreOwn(q) /\ WorkInv(q)
    BY <2>1 DEF Unsaid, LinesAreOwn, WorkInv
  <2>5. StoreIsOwn(q)
    BY <2>1 DEF Init, StoreIsOwn, NoContext
  <2>6. StageInv(q)
    BY <2>1, <2>3 DEF StageInv
  <2> QED BY <2>3, <2>4, <2>5, <2>6 DEF RequestInv
<1> QED BY <1>1, <1>2 DEF SignalsInv

LEMMA NextHolds == SignalsInv /\ [Next]_vars => SignalsInv'
<1> SUFFICES ASSUME SignalsInv, [Next]_vars PROVE SignalsInv'
  OBVIOUS
<1>1. ASSUME NEW q \in HttpRequests, Kept(q)
      PROVE  SignalsInv'
  BY <1>1, OthersAreLeftAlone DEF Kept, SignalsInv
<1>2. CASE Next
  <2>1. PICK q \in HttpRequests :
          \/ \E incoming \in Callers[deployed][q] : Receive(q, incoming)
          \/ Boundary(q) \/ Plugin(q) \/ HangUp(q)
    BY <1>2 DEF Next
  <2>2. Kept(q)
    BY <2>1, ReceiveKeeps, BoundaryKeeps, PluginKeeps, HangUpKeeps
  <2> QED BY <1>1, <2>2
<1>3. CASE UNCHANGED vars
  <2>1. Types'
    BY <1>3 DEF vars, plugin, output, SignalsInv, Types
  <2>2. ASSUME NEW q \in HttpRequests
        PROVE  RequestInv(q)'
    <3>1. UNCHANGED Own(q) /\ UNCHANGED deployed
      BY <1>3 DEF vars, plugin, output, Own
    <3> QED BY <3>1, OthersAreLeftAlone DEF SignalsInv
  <2> QED BY <2>1, <2>2 DEF SignalsInv
<1> QED BY <1>2, <1>3

LEMMA SignalsInvariant == Spec => []SignalsInv
  BY InitHolds, NextHolds, PTL DEF Spec

-----------------------------------------------------------------------------
(* What the runs check. *)

\* Every variable has its type: the counters of a request never pass one, and its
\* lines and samples are of the kinds the code writes.
THEOREM SignalsTypeCorrect == Spec => []TypeOK
<1>1. SignalsInv => TypeOK
  <2> SUFFICES ASSUME SignalsInv PROVE TypeOK
    OBVIOUS
  <2>1. ASSUME NEW q \in HttpRequests
        PROVE  /\ spanEnds[q] \in 0..1 /\ httpSamples[q] \in 0..1
               /\ \A i \in DOMAIN lines[q] : lines[q][i].event \in Events
               /\ \A i \in DOMAIN samples[q] :
                    samples[q][i].outcome \in {"success", "graphql_error", "auth_error",
                                               "unexpected_error"}
    <3>1. spanEnds[q] \in 0..1
      BY DEF SignalsInv, RequestInv, CountsInv
    <3>2. httpSamples[q] \in 0..1
      <4>1. httpSamples[q] <= 1
        BY DEF SignalsInv, RequestInv, StageInv
      <4> QED BY <4>1 DEF SignalsInv, Types
    <3>3. lines[q] \in Seq(LogLine) /\ samples[q] \in Seq(Sample)
      BY DEF SignalsInv, Types
    <3>4. \A i \in DOMAIN lines[q] : lines[q][i] \in LogLine
      BY <3>3
    <3>5. \A i \in DOMAIN samples[q] : samples[q][i] \in Sample
      BY <3>3
    <3> QED BY <3>1, <3>2, <3>4, <3>5 DEF LogLine, Sample, Outcomes
  <2> QED BY <2>1 DEF SignalsInv, Types, TypeOK, UserIds
<1> QED BY <1>1, SignalsInvariant, PTL

\* However the requests interleave, a line and the saved work carry the ids of their
\* own request, as AsyncLocalStorage keeps its context.
THEOREM LinesKeepTheirRequest == Spec => []LinesStayWithTheirRequest
<1>1. SignalsInv => LinesStayWithTheirRequest
  BY DEF SignalsInv, RequestInv, LinesAreOwn, LineIsOwn, WorkInv, LinesStayWithTheirRequest
<1> QED BY <1>1, SignalsInvariant, PTL

\* In any order of Apollo's hooks, an operation has its start line, one terminal line,
\* one ended span and one sample, unless it failed unexpectedly.
THEOREM OperationsAlwaysAddUp == Spec => []OperationsAreAccounted
<1>1. SignalsInv => OperationsAreAccounted
  <2> SUFFICES ASSUME SignalsInv, NEW q \in HttpRequests
               PROVE  /\ Cardinality(Starts(q)) <= 1
                      /\ Cardinality(Endings(q)) <= 1
                      /\ \A i \in Endings(q) : \E j \in Starts(q) :
                           /\ j < i
                           /\ lines[q][j].operation = lines[q][i].operation
                           /\ lines[q][j].user = lines[q][i].user
                      /\ spanEnds[q] = Cardinality(Endings(q))
                      /\ Len(samples[q]) = Cardinality(Endings(q)) + Cardinality(Unplanned(q))
                      /\ stage[q] \in {"answered", "finished"} /\ startLogged[q]
                           /\ Unplanned(q) = {} => Endings(q) # {}
    BY DEF OperationsAreAccounted
  <2>1. /\ Cardinality(Starts(q)) <= 1 /\ Cardinality(Endings(q)) <= 1
        /\ spanEnds[q] = Cardinality(Endings(q))
        /\ Len(samples[q]) = Cardinality(Endings(q)) + Cardinality(Unplanned(q))
    BY DEF SignalsInv, RequestInv, CountsInv
  <2>2. ASSUME NEW i \in Endings(q)
        PROVE  \E j \in Starts(q) : /\ j < i
                                    /\ lines[q][j].operation = lines[q][i].operation
                                    /\ lines[q][j].user = lines[q][i].user
    <3>1. PICK j \in Starts(q) : j < i
      BY DEF SignalsInv, RequestInv, CountsInv
    <3>2. ASSUME NEW k \in Starts(q) \cup Endings(q)
          PROVE  /\ lines[q][k].operation = metadata[q]
                 /\ lines[q][k].user = Prefer(store[q].user, user[q])
      BY DEF Starts, Endings, Logged, SignalsInv, RequestInv, LinesAreOwn, LineIsOwn
    <3> QED BY <3>1, <3>2
  <2>3. ASSUME stage[q] \in {"answered", "finished"}, startLogged[q], Unplanned(q) = {}
        PROVE  Endings(q) # {}
    <3>1. startLogged[q] = TRUE
      BY <2>3 DEF SignalsInv, Types
    <3>2. terminalLogged[q] = TRUE
      BY <2>3, <3>1 DEF SignalsInv, RequestInv, StageInv
    <3>3. Cardinality(Endings(q)) = 1
      BY <3>2 DEF SignalsInv, RequestInv, CountsInv
    <3>4. Cardinality({}) = 0
      BY FS_EmptySet
    <3>5. Cardinality(Endings(q)) # Cardinality({})
      BY <3>3, <3>4
    <3> QED BY <3>5, Zenon
  <2> QED BY <2>1, <2>2, <2>3
<1> QED BY <1>1, SignalsInvariant, PTL

\* The work continues the trace its line shows, and the server span's when the SDK runs.
THEOREM WorkAlwaysContinuesTheTrace == Spec => []WorkContinuesTheTrace
<1>1. SignalsInv => WorkContinuesTheTrace
  BY DEF SignalsInv, RequestInv, WorkInv, WorkContinuesTheTrace
<1> QED BY <1>1, SignalsInvariant, PTL
=============================================================================
