--------------------- MODULE AuthenticationAudit_proofs ---------------------
(***************************************************************************)
(* Proofs about AuthenticationAudit and the publisher it extends, for any  *)
(* number of requests, any set of responses and configurations and any     *)
(* bound of the output buffer.                                             *)
(*                                                                         *)
(* PublisherInv adds to the properties of EventBridgePublisher that a call *)
(* has a result exactly when it has returned.  Every step of the service   *)
(* is a step of EventBridgePublisher or leaves it alone, so it carries     *)
(* over.  FlowInv says how far each request has come and what it has left  *)
(* behind, BufferInv what waits in the output buffer, SamplesInv what the  *)
(* metrics have counted.                                                   *)
(***************************************************************************)
EXTENDS AuthenticationAudit, FiniteSetTheorems, TLAPS

-----------------------------------------------------------------------------
(* The publisher. *)

ResultWhenReturned == \A c \in Calls : (result[c] # None) = (call[c] = "returned")

PublisherInv ==
  /\ PublisherTypeOK
  /\ ResultWhenReturned
  /\ NothingLeftBehind
  /\ AcceptedMeansTaken
  /\ VerdictMeansRefused

\* What the inspection of a response says about its shape.
LEMMA InspectionIsSound ==
  ASSUME NEW resp \in Response
  PROVE  LET res == InspectPutEventsResponse(resp) IN
         /\ res \in PublishResult
         /\ res.accepted => WellFormed(resp) /\ resp.failed = 0
         /\ res.reason \in VerdictReasons => WellFormed(resp) /\ resp.failed = 1
<1> DEFINE res == InspectPutEventsResponse(resp)
<1> USE DEF PublishResult, FailureReason, VerdictReasons, Accept, RejectFor
<1>1. CASE resp.entries # 1 \/ ~resp.counted
  BY <1>1 DEF InspectPutEventsResponse
<1>2. CASE resp.entries = 1 /\ resp.counted /\ SaysTaken(resp)
  BY <1>2 DEF InspectPutEventsResponse, SaysTaken, WellFormed, Response
<1>3. CASE resp.entries = 1 /\ resp.counted /\ SaysRefused(resp)
  <2>1. ~SaysTaken(resp) /\ WellFormed(resp) /\ resp.failed = 1
    BY <1>3 DEF SaysTaken, SaysRefused, WellFormed, Response
  <2>2. DetermineReason(resp.code) \in FailureReason
    BY DEF DetermineReason
  <2> QED
    BY <1>3, <2>1, <2>2 DEF InspectPutEventsResponse
<1>4. CASE resp.entries = 1 /\ resp.counted /\ ~SaysTaken(resp) /\ ~SaysRefused(resp)
  BY <1>4 DEF InspectPutEventsResponse
<1> QED
  BY <1>1, <1>2, <1>3, <1>4

LEMMA ClassificationIsTyped ==
  ASSUME NEW name \in ErrorNames
  PROVE  /\ ClassifyTransportError(name) \in FailureReason
         /\ ClassifyTransportError(name) \in VerdictReasons => name # "OtherError"
BY DEF ClassifyTransportError, ErrorNames, FailureReason, VerdictReasons

\* A call ends with a result that is true of the bus: the invariant holds after it.
LEMMA ReturnKeepsInv ==
  ASSUME PublisherInv, NEW c \in Calls, NEW res \in PublishResult,
         call[c] = "racing" \/ (call[c] = "idle" /\ c \notin timers \cup listeners),
         ReturnWith(c, res),
         res.accepted => bus[c] = "taken",
         res.reason \in VerdictReasons => bus[c] = "refused",
         UNCHANGED bus, aborted' \subseteq Signalled, requests' \subseteq Calls
  PROVE  PublisherInv'
<1> USE DEF PublisherInv
<1>1. /\ call' = [call EXCEPT ![c] = "returned"]
      /\ result' = [result EXCEPT ![c] = res]
      /\ timers' = timers \ {c} /\ listeners' = listeners \ {c}
  BY DEF ReturnWith, Cleanup
<1>2. PublisherTypeOK'
  BY <1>1 DEF PublisherTypeOK, CallState
<1>3. ResultWhenReturned'
  BY <1>1, NoneIsNoResult DEF PublisherTypeOK, ResultWhenReturned
<1>4. NothingLeftBehind'
  BY <1>1, SignalledAssumption DEF PublisherTypeOK, NothingLeftBehind
<1>5. AcceptedMeansTaken' /\ VerdictMeansRefused'
  BY <1>1 DEF PublisherTypeOK, AcceptedMeansTaken, VerdictMeansRefused
<1> QED
  BY <1>2, <1>3, <1>4, <1>5

LEMMA PublisherInvInit == PublisherInit => PublisherInv
BY SignalledAssumption
   DEF PublisherInit, PublisherInv, PublisherTypeOK, ResultWhenReturned, NothingLeftBehind,
       AcceptedMeansTaken, VerdictMeansRefused, CallState, BusState

LEMMA PublisherInvStep == PublisherInv /\ [PublisherNext]_publisherVars => PublisherInv'
<1> SUFFICES ASSUME PublisherInv, [PublisherNext]_publisherVars
             PROVE  PublisherInv'
  OBVIOUS
<1> USE DEF PublisherInv
<1>1. CASE UNCHANGED publisherVars
  BY <1>1 DEF publisherVars, PublisherTypeOK, ResultWhenReturned, NothingLeftBehind,
              AcceptedMeansTaken, VerdictMeansRefused
<1>2. ASSUME NEW c \in Calls, PublishInvalidEvent(c) \/ SendThrows(c)
      PROVE  PublisherInv'
  BY <1>2, SignalledAssumption
     DEF PublishInvalidEvent, SendThrows, PublisherTypeOK, CallState, ResultWhenReturned,
         NothingLeftBehind, AcceptedMeansTaken, VerdictMeansRefused
<1>3. ASSUME NEW c \in Calls, PublishAlreadyAborted(c)
      PROVE  PublisherInv'
  <2>1. RejectFor("aborted") \in PublishResult
    BY DEF RejectFor, PublishResult, FailureReason
  <2>2. c \notin timers \cup listeners /\ call[c] = "idle"
    BY <1>3 DEF PublishAlreadyAborted, NothingLeftBehind
  <2> QED
    BY <1>3, <2>1, <2>2, ReturnKeepsInv
       DEF PublishAlreadyAborted, RejectFor, VerdictReasons, PublisherTypeOK
<1>4. ASSUME NEW c \in Calls, Publish(c)
      PROVE  PublisherInv'
  <2>1. result[c] = None
    BY <1>4 DEF Publish, ResultWhenReturned
  <2>2. PublisherTypeOK'
    BY <1>4 DEF Publish, PublisherTypeOK, CallState, BusState
  <2>3. ResultWhenReturned' /\ AcceptedMeansTaken' /\ VerdictMeansRefused'
    BY <1>4, <2>1 DEF Publish, PublisherTypeOK, ResultWhenReturned, AcceptedMeansTaken,
                      VerdictMeansRefused
  <2>4. NothingLeftBehind'
    BY <1>4, SignalledAssumption DEF Publish, PublisherTypeOK, NothingLeftBehind
  <2> QED
    BY <2>2, <2>3, <2>4
<1>5. ASSUME NEW c \in Calls, CallerAborts(c)
      PROVE  PublisherInv'
  <2>1. CASE c \in listeners
    <3>1. RejectFor("aborted") \in PublishResult
      BY DEF RejectFor, PublishResult, FailureReason
    <3>2. call[c] = "racing"
      BY <2>1 DEF NothingLeftBehind
    <3> QED
      BY <1>5, <2>1, <3>1, <3>2, ReturnKeepsInv
         DEF CallerAborts, RejectFor, VerdictReasons, PublisherTypeOK
  <2>2. CASE c \notin listeners
    BY <1>5, <2>2 DEF CallerAborts, PublisherTypeOK, ResultWhenReturned, NothingLeftBehind,
                      AcceptedMeansTaken, VerdictMeansRefused
  <2> QED
    BY <2>1, <2>2
<1>6. ASSUME NEW c \in Calls, NEW fate \in {"taken", "refused"}, BusDecides(c, fate)
      PROVE  PublisherInv'
  <2>1. PublisherTypeOK'
    BY <1>6 DEF BusDecides, PublisherTypeOK, BusState
  <2>2. \A d \in Calls : bus[d] \in {"taken", "refused"} => bus'[d] = bus[d]
    BY <1>6 DEF BusDecides, PublisherTypeOK
  <2>3. AcceptedMeansTaken' /\ VerdictMeansRefused'
    BY <1>6, <2>2 DEF BusDecides, AcceptedMeansTaken, VerdictMeansRefused
  <2> QED
    BY <1>6, <2>1, <2>3 DEF BusDecides, ResultWhenReturned, NothingLeftBehind
<1>7. ASSUME NEW c \in Calls, NEW resp \in Responses, TransportResponds(c, resp)
      PROVE  PublisherInv'
  <2> DEFINE res == InspectPutEventsResponse(resp)
  <2>1. resp \in Response
    BY ResponsesAssumption
  <2>2. /\ res \in PublishResult
        /\ res.accepted => WellFormed(resp) /\ resp.failed = 0
        /\ res.reason \in VerdictReasons => WellFormed(resp) /\ resp.failed = 1
    BY <2>1, InspectionIsSound
  <2>3. /\ res.accepted => bus[c] = "taken"
        /\ res.reason \in VerdictReasons => bus[c] = "refused"
    BY <1>7, <2>2 DEF TransportResponds, TruthfulResponse
  <2> HIDE DEF res
  <2>4. /\ call[c] = "racing" /\ ReturnWith(c, res)
        /\ UNCHANGED <<aborted, bus>> /\ requests' \subseteq Calls
    BY <1>7 DEF TransportResponds, PublisherTypeOK, res
  <2> QED
    BY <2>2, <2>3, <2>4, ReturnKeepsInv DEF PublisherTypeOK
<1>8. ASSUME NEW c \in Calls, NEW name \in ErrorNames, TransportFails(c, name)
      PROVE  PublisherInv'
  <2> DEFINE res == RejectFor(ClassifyTransportError(name))
  <2>1. /\ res \in PublishResult /\ ~res.accepted
        /\ res.reason \in VerdictReasons => bus[c] = "refused"
    BY <1>8, ClassificationIsTyped DEF TransportFails, TruthfulError, RejectFor, PublishResult
  <2>2. /\ call[c] = "racing" /\ ReturnWith(c, res)
        /\ UNCHANGED <<aborted, bus>> /\ requests' \subseteq Calls
    BY <1>8 DEF TransportFails, PublisherTypeOK
  <2> HIDE DEF res
  <2> QED
    BY <2>1, <2>2, ReturnKeepsInv DEF PublisherTypeOK
<1>9. ASSUME NEW c \in Calls, TimeoutFires(c)
      PROVE  PublisherInv'
  <2>1. RejectFor("timeout") \in PublishResult
    BY DEF RejectFor, PublishResult, FailureReason
  <2>2. call[c] = "racing"
    BY <1>9 DEF TimeoutFires, NothingLeftBehind
  <2> QED
    BY <1>9, <2>1, <2>2, ReturnKeepsInv
       DEF TimeoutFires, RejectFor, VerdictReasons, PublisherTypeOK
<1>10. ASSUME NEW c \in Calls, LateAnswer(c)
       PROVE  PublisherInv'
  BY <1>10 DEF LateAnswer, PublisherTypeOK, ResultWhenReturned, NothingLeftBehind,
               AcceptedMeansTaken, VerdictMeansRefused
<1> QED
  BY <1>1, <1>2, <1>3, <1>4, <1>5, <1>6, <1>7, <1>8, <1>9, <1>10
     DEF PublisherNext, TransportStep

THEOREM PublisherInvariant == PublisherSpec => []PublisherInv
<1> QED
  BY PublisherInvInit, PublisherInvStep, PTL DEF PublisherSpec

\* Every variable of the publisher has its type.
THEOREM PublisherTypeCorrect == PublisherSpec => []PublisherTypeOK
BY PublisherInvariant, PTL DEF PublisherInv

\* An accepted result means that the bus has the event, whatever responses arrive
\* and in whatever order answer, timeout and abort come.
THEOREM AcceptanceIsTrue == PublisherSpec => []AcceptedMeansTaken
BY PublisherInvariant, PTL DEF PublisherInv

\* A reason that names a verdict means that the bus has refused the event.
THEOREM VerdictsAreTrue == PublisherSpec => []VerdictMeansRefused
BY PublisherInvariant, PTL DEF PublisherInv

\* Both, for every response the bus may give.
THEOREM ResultsTellTheTruth == PublisherSpec => []ResultsAreTrue
BY AcceptanceIsTrue, VerdictsAreTrue, PTL DEF ResultsAreTrue

\* Timeouts and abort listeners exist exactly while their race is on.
THEOREM CallsCleanUp == PublisherSpec => []NothingLeftBehind
BY PublisherInvariant, PTL DEF PublisherInv

LEMMA ResultStep ==
  ASSUME PublisherInv, [PublisherNext]_publisherVars,
         NEW d \in Calls, call[d] \in {"returned", "threw"}
  PROVE  call'[d] = call[d] /\ result'[d] = result[d]
<1>1. d \notin timers \cup listeners
  BY DEF PublisherInv, NothingLeftBehind
<1>2. CASE UNCHANGED publisherVars
  BY <1>2 DEF publisherVars
<1>3. ASSUME NEW c \in Calls,
             PublishInvalidEvent(c) \/ PublishAlreadyAborted(c) \/ Publish(c) \/ SendThrows(c)
      PROVE  call'[d] = call[d] /\ result'[d] = result[d]
  BY <1>3 DEF PublisherInv, PublisherTypeOK, PublishInvalidEvent, PublishAlreadyAborted,
              Publish, SendThrows, ReturnWith
<1>4. ASSUME NEW c \in Calls, CallerAborts(c)
      PROVE  call'[d] = call[d] /\ result'[d] = result[d]
  BY <1>1, <1>4 DEF PublisherInv, PublisherTypeOK, CallerAborts, ReturnWith
<1>5. ASSUME NEW c \in Calls, TransportStep(c)
      PROVE  call'[d] = call[d] /\ result'[d] = result[d]
  BY <1>1, <1>5 DEF PublisherInv, PublisherTypeOK, TransportStep, BusDecides,
                    TransportResponds, TransportFails, TimeoutFires, LateAnswer, ReturnWith
<1> QED
  BY <1>2, <1>3, <1>4, <1>5 DEF PublisherNext

\* What publish has returned never changes.
THEOREM ResultsAreFinal == PublisherSpec => ResultIsFinal
<1>1. PublisherInv /\ [PublisherNext]_publisherVars =>
        [\A c \in Calls : call[c] \in {"returned", "threw"} =>
            call'[c] = call[c] /\ result'[c] = result[c]]_publisherVars
  BY ResultStep
<1> QED
  BY <1>1, PublisherInvariant, PTL DEF PublisherSpec, ResultIsFinal

-----------------------------------------------------------------------------
(* The service. *)

RequestTypes ==
  /\ settings \in Settings
  /\ phase \in [Calls -> Phase]
  /\ attempt \in [Calls -> Attempt \cup {None}]
  /\ genuine \subseteq Calls
  /\ primary \in [Calls -> PublishResult \cup {None}]
  /\ emitFailed \subseteq Calls
  /\ audited \subseteq Calls
  /\ answer \in [Calls -> Answer \cup {None}]

OutputTypes ==
  /\ buffer \in Seq(Calls)
  /\ line \in [Calls -> LineState]
  /\ reported \subseteq Calls

SampleTypes == samples \in [Roles -> [BOOLEAN -> Nat]]

Entered == {"pending", "written", "lost"}

\* The decision of a request and the way to its answer.
DecisionFlow(r) ==
  /\ phase[r] = "new" => attempt[r] = None
  /\ phase[r] \notin {"new", "done"} => attempt[r] # None
  /\ attempt[r] = None => r \notin genuine
  /\ attempt[r] # None => (attempt[r].outcome = "AUTHENTICATED") = (r \in genuine)
  /\ phase[r] = "admitting" => r \in genuine
  /\ phase[r] # "done" \/ attempt[r] = None => answer[r] = None

\* What the primary publisher has said, and how the recorder has signalled it.
PrimaryFlow(r) ==
  /\ phase[r] = "waiting" => settings.publisher = "eventbridge"
  /\ phase[r] = "copied" => settings.mirror
  /\ primary[r] # None => phase[r] \in {"published", "copied", "done"} /\ attempt[r] # None
  /\ phase[r] \in {"published", "copied"} => primary[r] # None
  /\ (r \in emitFailed) = (primary[r] # None /\ phase[r] = "done" /\ ~primary[r].accepted)
  /\ (r \in audited) = (primary[r] # None /\ phase[r] = "done" /\ primary[r].accepted)

\* How the publish of the SDK belongs to the request.
CallFlow(r) ==
  /\ phase[r] \in {"new", "admitting", "recording"} \/ attempt[r] = None
       \/ settings.publisher = "stdout" => call[r] = "idle"
  /\ call[r] = "idle" => bus[r] = "nothing"
  /\ primary[r] # None /\ settings.publisher = "eventbridge" =>
       /\ call[r] \in {"returned", "threw"}
       /\ primary[r] = IF call[r] = "threw" THEN RejectFor("unavailable") ELSE result[r]

\* What has become of the line of the request.
LineFlow(r) ==
  /\ phase[r] \in {"new", "admitting", "recording", "waiting"} \/ attempt[r] = None
       => line[r] = "none"
  /\ phase[r] = "published" /\ settings.publisher = "eventbridge" => line[r] = "none"
  /\ settings.publisher = "stdout" /\ primary[r] # None =>
       primary[r].accepted = (line[r] \in Entered)
  /\ line[r] \in {"lost", "failed"} => r \in reported

DecisionInv == \A r \in Calls : DecisionFlow(r)
PrimaryInv == \A r \in Calls : PrimaryFlow(r)
CallInv == \A r \in Calls : CallFlow(r)
LineInv == \A r \in Calls : LineFlow(r)

\* The lines that wait are pending and none waits twice.
BufferInv ==
  /\ \A i \in 1..Len(buffer) : line[buffer[i]] = "pending"
  /\ \A i, j \in 1..Len(buffer) : buffer[i] = buffer[j] => i = j
  /\ PendingBounded

FlowInv ==
  /\ RequestTypes
  /\ DecisionInv
  /\ PrimaryInv
  /\ CallInv

----------------------------------------------------------------------------
LEMMA StepIsPublisherStep == [Next]_vars => [PublisherNext]_publisherVars
BY DEF Next, vars, Arrive, Handle, Transport, Login, AuthenticateGraphql, ServeLandingPage, Admit,
       PublishToStdout, PublishToEventBridge, PrimaryReturns, CopyToComparison, AnswerAudited,
       DrainLine, LoseLine, PublisherNext, publisherVars

\* The credential check succeeds for the configured credentials and nothing else.
LEMMA OnlyGenuineBodiesPass ==
  ASSUME NEW body \in Body
  PROVE  /\ Authenticate(body) \in FailureCode \cup {"AUTHENTICATED"}
         /\ (Authenticate(body) = "AUTHENTICATED") = Genuine(body)
BY DEF Body, Field, Authenticate, Genuine, Matches, FailureCode

LEMMA AcceptedTypes ==
  /\ Accept \in PublishResult /\ Accept.accepted
  /\ RejectFor("unavailable") \in PublishResult /\ ~RejectFor("unavailable").accepted
BY DEF Accept, RejectFor, PublishResult, FailureReason

LEMMA PlainInit == Init => FlowInv /\ OutputTypes /\ LineInv /\ BufferInv
<1> SUFFICES ASSUME Init PROVE FlowInv /\ OutputTypes /\ LineInv /\ BufferInv
  OBVIOUS
<1>1. FlowInv
  BY DEF Init, PublisherInit, FlowInv, RequestTypes, DecisionInv, DecisionFlow, PrimaryInv,
         PrimaryFlow, CallInv, CallFlow, Phase
<1>2. OutputTypes /\ LineInv
  BY DEF Init, OutputTypes, LineInv, LineFlow, LineState
<1>3. BufferInv
  BY MaxPendingAssumption DEF Init, BufferInv, PendingBounded
<1> QED
  BY <1>1, <1>2, <1>3

----------------------------------------------------------------------------
\* The steps of a request keep FlowInv

\* A credential check: its outcome is noted and the next phase follows from it.
LEMMA CheckKeepsFlow ==
  ASSUME FlowInv, NEW r \in Calls, phase[r] = "new",
         NEW new \in Attempt, NEW next \in {"recording", "admitting"},
         attempt' = [attempt EXCEPT ![r] = new],
         genuine' = (IF new.outcome = "AUTHENTICATED" THEN genuine \cup {r} ELSE genuine),
         phase' = [phase EXCEPT ![r] = next],
         next = "admitting" => new.outcome = "AUTHENTICATED",
         UNCHANGED <<publisherVars, settings, primary, emitFailed, audited, answer>>
  PROVE  FlowInv'
<1> USE DEF FlowInv
<1>1. attempt[r] = None /\ primary[r] = None /\ answer[r] = None /\ new # None
  BY NoneIsNoValue DEF DecisionInv, DecisionFlow, PrimaryInv, PrimaryFlow
<1>2. RequestTypes'
  BY DEF RequestTypes, Phase
<1>3. DecisionInv'
  BY <1>1 DEF RequestTypes, DecisionInv, DecisionFlow
<1>4. PrimaryInv'
  BY <1>1 DEF RequestTypes, PrimaryInv, PrimaryFlow
<1>5. CallInv'
  BY <1>1 DEF RequestTypes, CallInv, CallFlow, publisherVars
<1> QED
  BY <1>2, <1>3, <1>4, <1>5

LEMMA ArriveKeepsFlow ==
  ASSUME FlowInv, NEW r \in Calls, Arrive(r)
  PROVE  FlowInv'
<1>1. ASSUME NEW body \in Bodies, Login(r, body)
      PROVE  FlowInv'
  <2> DEFINE new == [boundary |-> "demo_login", outcome |-> Authenticate(body)]
  <2>1. new \in Attempt /\ (new.outcome = "AUTHENTICATED") = Genuine(body)
    BY BodiesAssumption, OnlyGenuineBodiesPass DEF Attempt
  <2>2. /\ phase[r] = "new"
        /\ attempt' = [attempt EXCEPT ![r] = new]
        /\ genuine' = (IF Genuine(body) THEN genuine \cup {r} ELSE genuine)
        /\ phase' = [phase EXCEPT ![r] = "recording"]
        /\ UNCHANGED <<publisherVars, settings, primary, emitFailed, audited, answer>>
    BY <1>1 DEF Login
  <2> HIDE DEF new
  <2> QED
    BY <2>1, <2>2, CheckKeepsFlow
<1>2. ASSUME NEW token \in Token, AuthenticateGraphql(r, token)
      PROVE  FlowInv'
  <2> DEFINE new == [boundary |-> "graphql",
                     outcome |-> IF TokenAccepted(token) THEN "AUTHENTICATED" ELSE "UNAUTHENTICATED"]
             next == IF TokenAccepted(token) THEN "admitting" ELSE "recording"
  <2>1. /\ new \in Attempt /\ next \in {"recording", "admitting"}
        /\ (new.outcome = "AUTHENTICATED") = TokenAccepted(token)
        /\ next = "admitting" => TokenAccepted(token)
    BY DEF Attempt, FailureCode, TokenAccepted
  <2>2. /\ phase[r] = "new"
        /\ attempt' = [attempt EXCEPT ![r] = new]
        /\ genuine' = (IF TokenAccepted(token) THEN genuine \cup {r} ELSE genuine)
        /\ phase' = [phase EXCEPT ![r] = next]
        /\ UNCHANGED <<publisherVars, settings, primary, emitFailed, audited, answer>>
    BY <1>2 DEF AuthenticateGraphql
  <2> HIDE DEF new, next
  <2> QED
    BY <2>1, <2>2, CheckKeepsFlow
<1>3. ASSUME ServeLandingPage(r)
      PROVE  FlowInv'
  <2>1. /\ phase[r] = "new" /\ attempt[r] = None /\ primary[r] = None
        /\ phase' = [phase EXCEPT ![r] = "done"]
    BY <1>3 DEF ServeLandingPage, FlowInv, DecisionInv, DecisionFlow, PrimaryInv, PrimaryFlow
  <2>2. RequestTypes' /\ DecisionInv'
    BY <1>3, <2>1 DEF ServeLandingPage, FlowInv, RequestTypes, Phase, DecisionInv, DecisionFlow
  <2>3. PrimaryInv'
    BY <1>3, <2>1 DEF ServeLandingPage, FlowInv, RequestTypes, PrimaryInv, PrimaryFlow
  <2>4. CallInv'
    BY <1>3, <2>1 DEF ServeLandingPage, FlowInv, RequestTypes, CallInv, CallFlow, publisherVars
  <2> QED
    BY <2>2, <2>3, <2>4 DEF FlowInv
<1> QED
  BY <1>1, <1>2, <1>3 DEF Arrive

\* The primary publisher has answered.
LEMMA PublishedKeepsFlow ==
  ASSUME FlowInv, NEW r \in Calls, NEW outcome \in PublishResult,
         phase[r] \in {"recording", "waiting"},
         primary' = [primary EXCEPT ![r] = outcome],
         phase' = [phase EXCEPT ![r] = "published"],
         settings.publisher = "eventbridge" =>
           /\ call[r] \in {"returned", "threw"}
           /\ outcome = IF call[r] = "threw" THEN RejectFor("unavailable") ELSE result[r],
         UNCHANGED <<publisherVars, settings, attempt, genuine, emitFailed, audited, answer>>
  PROVE  FlowInv'
<1> USE DEF FlowInv
<1>1. attempt[r] # None /\ primary[r] = None /\ outcome # None
  BY NoneIsNoResult DEF DecisionInv, DecisionFlow, PrimaryInv, PrimaryFlow
<1>2. RequestTypes'
  BY DEF RequestTypes, Phase
<1>3. DecisionInv'
  BY <1>1 DEF RequestTypes, DecisionInv, DecisionFlow
<1>4. PrimaryInv'
  BY <1>1 DEF RequestTypes, PrimaryInv, PrimaryFlow
<1>5. CallInv'
  BY <1>1 DEF RequestTypes, CallInv, CallFlow, publisherVars
<1> QED
  BY <1>2, <1>3, <1>4, <1>5

LEMMA HandleKeepsFlow ==
  ASSUME PublisherInv, FlowInv, NEW r \in Calls, Handle(r)
  PROVE  FlowInv'
<1> USE DEF FlowInv
<1>1. ASSUME Admit(r)
      PROVE  FlowInv'
  <2>1. attempt[r] # None /\ primary[r] = None
    BY <1>1 DEF Admit, DecisionInv, DecisionFlow, PrimaryInv, PrimaryFlow
  <2>2. RequestTypes'
    BY <1>1 DEF Admit, RequestTypes, Phase, Answer
  <2>3. DecisionInv'
    BY <1>1, <2>1 DEF Admit, RequestTypes, DecisionInv, DecisionFlow
  <2>4. PrimaryInv'
    BY <1>1, <2>1 DEF Admit, RequestTypes, PrimaryInv, PrimaryFlow
  <2>5. CallInv'
    BY <1>1, <2>1 DEF Admit, RequestTypes, CallInv, CallFlow, publisherVars
  <2> QED
    BY <2>2, <2>3, <2>4, <2>5
<1>2. ASSUME PublishToStdout(r)
      PROVE  FlowInv'
  <2>1. PICK accepted \in BOOLEAN :
          primary' = [primary EXCEPT ![r] = IF accepted THEN Accept ELSE RejectFor("unavailable")]
    BY <1>2 DEF PublishToStdout
  <2> QED
    BY <1>2, <2>1, AcceptedTypes, PublishedKeepsFlow DEF PublishToStdout
<1>3. ASSUME PublishToEventBridge(r)
      PROVE  FlowInv'
  <2>1. /\ phase[r] = "recording" /\ settings.publisher = "eventbridge"
        /\ attempt[r] # None /\ primary[r] = None
        /\ phase' = [phase EXCEPT ![r] = "waiting"]
    BY <1>3 DEF PublishToEventBridge, DecisionInv, DecisionFlow, PrimaryInv, PrimaryFlow
  <2>2. /\ \A q \in Calls \ {r} : call'[q] = call[q] /\ bus'[q] = bus[q] /\ result'[q] = result[q]
        /\ call'[r] # "idle"
    BY <1>3 DEF PublishToEventBridge, Publish, SendThrows, PublisherInv, PublisherTypeOK
  <2>3. RequestTypes'
    BY <1>3 DEF PublishToEventBridge, RequestTypes, Phase
  <2>4. DecisionInv'
    BY <1>3, <2>1 DEF PublishToEventBridge, RequestTypes, DecisionInv, DecisionFlow
  <2>5. PrimaryInv'
    BY <1>3, <2>1 DEF PublishToEventBridge, RequestTypes, PrimaryInv, PrimaryFlow
  <2>6. CallInv'
    BY <1>3, <2>1, <2>2 DEF PublishToEventBridge, RequestTypes, CallInv, CallFlow
  <2> QED
    BY <2>3, <2>4, <2>5, <2>6
<1>4. ASSUME PrimaryReturns(r)
      PROVE  FlowInv'
  <2> DEFINE outcome == IF call[r] = "threw" THEN RejectFor("unavailable") ELSE result[r]
  <2>1. outcome \in PublishResult
    BY <1>4, AcceptedTypes
       DEF PrimaryReturns, PublisherInv, PublisherTypeOK, ResultWhenReturned
  <2>2. /\ phase[r] = "waiting" /\ call[r] \in {"returned", "threw"}
        /\ primary' = [primary EXCEPT ![r] = outcome]
        /\ phase' = [phase EXCEPT ![r] = "published"]
        /\ UNCHANGED <<publisherVars, settings, attempt, genuine, emitFailed, audited, answer>>
    BY <1>4 DEF PrimaryReturns
  <2> QED
    BY <2>1, <2>2, PublishedKeepsFlow
<1>5. ASSUME CopyToComparison(r)
      PROVE  FlowInv'
  <2>1. /\ phase[r] = "published" /\ settings.mirror
        /\ attempt[r] # None /\ primary[r] # None
        /\ phase' = [phase EXCEPT ![r] = "copied"]
    BY <1>5 DEF CopyToComparison, Mirrors, DecisionInv, DecisionFlow, PrimaryInv, PrimaryFlow
  <2>2. RequestTypes' /\ DecisionInv'
    BY <1>5, <2>1 DEF CopyToComparison, RequestTypes, Phase, DecisionInv, DecisionFlow
  <2>3. PrimaryInv'
    BY <1>5, <2>1 DEF CopyToComparison, RequestTypes, PrimaryInv, PrimaryFlow
  <2>4. CallInv'
    BY <1>5, <2>1 DEF CopyToComparison, RequestTypes, CallInv, CallFlow, publisherVars
  <2> QED
    BY <2>2, <2>3, <2>4
<1>6. ASSUME AnswerAudited(r)
      PROVE  FlowInv'
  <2>1. /\ phase[r] \in {"published", "copied"}
        /\ attempt[r] # None /\ primary[r] # None
        /\ phase' = [phase EXCEPT ![r] = "done"]
    BY <1>6 DEF AnswerAudited, DecisionInv, DecisionFlow, PrimaryInv, PrimaryFlow
  <2>2. primary[r] \in PublishResult /\ primary[r].accepted \in BOOLEAN
    BY <2>1 DEF RequestTypes, PublishResult
  <2>3. [status |-> StatusOf(r),
         receipt |-> attempt[r].boundary = "demo_login" /\ primary[r].accepted] \in Answer
    BY <2>2 DEF StatusOf, Answer
  <2>4. RequestTypes'
    BY <1>6, <2>3 DEF AnswerAudited, RequestTypes, Phase
  <2>5. DecisionInv'
    BY <1>6, <2>1 DEF AnswerAudited, RequestTypes, DecisionInv, DecisionFlow
  <2>6. PrimaryInv'
    BY <1>6, <2>1 DEF AnswerAudited, RequestTypes, PrimaryInv, PrimaryFlow
  <2>7. CallInv'
    BY <1>6, <2>1 DEF AnswerAudited, RequestTypes, CallInv, CallFlow, publisherVars
  <2> QED
    BY <2>4, <2>5, <2>6, <2>7
<1> QED
  BY <1>1, <1>2, <1>3, <1>4, <1>5, <1>6 DEF Handle

\* The transport settles a publish that is still in the race, or changes what nobody
\* looks at: the calls that have ended keep their result.
LEMMA TransportKeepsFlow ==
  ASSUME PublisherInv, FlowInv, NEW r \in Calls, Transport(r)
  PROVE  FlowInv'
<1> USE DEF FlowInv
<1>1. [PublisherNext]_publisherVars
  BY DEF Transport, PublisherNext
<1>2. \A q \in Calls : call[q] \in {"returned", "threw"} => call'[q] = call[q] /\ result'[q] = result[q]
  BY <1>1, ResultStep
<1>3. \A q \in Calls : /\ call'[q] = "idle" <=> call[q] = "idle"
                       /\ call[q] = "idle" => bus'[q] = bus[q]
  BY DEF Transport, TransportStep, BusDecides, TransportResponds, TransportFails, TimeoutFires,
         LateAnswer, ReturnWith, PublisherInv, PublisherTypeOK, NothingLeftBehind, CallInv, CallFlow
<1>4. RequestTypes' /\ DecisionInv'
  BY DEF Transport, requestVars, RequestTypes, DecisionInv, DecisionFlow
<1>5. PrimaryInv'
  BY DEF Transport, requestVars, PrimaryInv, PrimaryFlow
<1>6. CallInv'
  BY <1>2, <1>3 DEF Transport, requestVars, CallInv, CallFlow
<1> QED
  BY <1>4, <1>5, <1>6

LEMMA IdleKeepsFlow ==
  ASSUME FlowInv, UNCHANGED <<publisherVars, requestVars>>
  PROVE  FlowInv'
<1>1. RequestTypes' /\ DecisionInv'
  BY DEF FlowInv, requestVars, RequestTypes, DecisionInv, DecisionFlow
<1>2. PrimaryInv'
  BY DEF FlowInv, requestVars, PrimaryInv, PrimaryFlow
<1>3. CallInv'
  BY DEF FlowInv, requestVars, publisherVars, CallInv, CallFlow
<1> QED
  BY <1>1, <1>2, <1>3 DEF FlowInv

LEMMA FlowStep == PublisherInv /\ FlowInv /\ [Next]_vars => FlowInv'
<1> SUFFICES ASSUME PublisherInv, FlowInv, [Next]_vars PROVE FlowInv'
  OBVIOUS
<1>1. CASE UNCHANGED vars
  BY <1>1, IdleKeepsFlow DEF vars
<1>2. CASE DrainLine \/ LoseLine
  BY <1>2, IdleKeepsFlow DEF DrainLine, LoseLine
<1> QED
  BY <1>1, <1>2, ArriveKeepsFlow, HandleKeepsFlow, TransportKeepsFlow DEF Next

----------------------------------------------------------------------------
\* The output buffer

LEMMA BufferItems ==
  ASSUME OutputTypes
  PROVE  Len(buffer) \in Nat /\ \A i \in 1..Len(buffer) : buffer[i] \in Calls
BY DEF OutputTypes

\* A line is written, finds no room, or fails: the request had none before.
LEMMA WriteKeepsBuffer ==
  ASSUME OutputTypes, LineInv, BufferInv, NEW r \in Calls, line[r] = "none",
         NEW accepted \in BOOLEAN, WriteLine(r, accepted)
  PROVE  /\ OutputTypes' /\ BufferInv'
         /\ \A q \in Calls \ {r} : line'[q] = line[q]
         /\ line'[r] = IF accepted THEN "pending" ELSE "failed"
         /\ reported \subseteq reported'
         /\ line'[r] = "failed" => r \in reported'
<1>1. Len(buffer) \in Nat /\ \A i \in 1..Len(buffer) : buffer[i] \in Calls
  BY BufferItems
<1>2. \A i \in 1..Len(buffer) : buffer[i] # r
  BY DEF BufferInv
<1>3. CASE accepted
  <2>1. /\ RoomForLine /\ buffer' = Append(buffer, r)
        /\ line' = [line EXCEPT ![r] = "pending"] /\ UNCHANGED reported
    BY <1>3 DEF WriteLine
  <2>2. /\ Len(buffer') = Len(buffer) + 1
        /\ \A i \in 1..Len(buffer) : buffer'[i] = buffer[i]
        /\ buffer'[Len(buffer) + 1] = r
    BY <1>1, <2>1 DEF OutputTypes
  <2>3. OutputTypes'
    BY <2>1 DEF OutputTypes, LineState
  <2>4. \A i \in 1..Len(buffer') : line'[buffer'[i]] = "pending"
    BY <1>1, <1>2, <2>1, <2>2 DEF OutputTypes, BufferInv
  <2>5. \A i, j \in 1..Len(buffer') : buffer'[i] = buffer'[j] => i = j
    BY <1>1, <1>2, <2>2 DEF BufferInv
  <2>6. PendingBounded'
    BY <2>1, <2>2 DEF PendingBounded, RoomForLine
  <2> QED
    BY <1>3, <2>1, <2>3, <2>4, <2>5, <2>6 DEF BufferInv, OutputTypes
<1>4. CASE ~accepted
  <2>1. /\ UNCHANGED buffer /\ line' = [line EXCEPT ![r] = "failed"]
        /\ reported' = reported \cup {r}
    BY <1>4 DEF WriteLine
  <2>2. OutputTypes'
    BY <2>1 DEF OutputTypes, LineState
  <2>3. BufferInv'
    BY <1>1, <1>2, <2>1 DEF OutputTypes, BufferInv, PendingBounded
  <2> QED
    BY <1>4, <2>1, <2>2, <2>3 DEF OutputTypes
<1> QED
  BY <1>3, <1>4

\* The oldest line leaves the buffer, written or lost.
LEMMA TakeKeepsBuffer ==
  ASSUME OutputTypes, BufferInv, NEW fate \in {"written", "lost"},
         buffer # << >>,
         line' = [line EXCEPT ![Head(buffer)] = fate],
         buffer' = Tail(buffer),
         reported' = (IF fate = "lost" THEN reported \cup {Head(buffer)} ELSE reported)
  PROVE  /\ OutputTypes' /\ BufferInv'
         /\ Head(buffer) \in Calls /\ line[Head(buffer)] = "pending"
<1>1. Len(buffer) \in Nat /\ \A i \in 1..Len(buffer) : buffer[i] \in Calls
  BY BufferItems
<1>2. /\ Len(buffer) >= 1 /\ Head(buffer) = buffer[1]
      /\ Len(buffer') = Len(buffer) - 1
      /\ \A i \in 1..Len(buffer') : buffer'[i] = buffer[i + 1]
  BY <1>1 DEF OutputTypes
<1>3. Head(buffer) \in Calls /\ line[Head(buffer)] = "pending"
  BY <1>1, <1>2 DEF BufferInv
<1>4. OutputTypes'
  BY <1>3 DEF OutputTypes, LineState
<1>5. \A i \in 1..Len(buffer') : i + 1 \in 1..Len(buffer) /\ buffer'[i] # Head(buffer)
  BY <1>1, <1>2 DEF BufferInv
<1>6. \A i \in 1..Len(buffer') : line'[buffer'[i]] = "pending"
  BY <1>1, <1>2, <1>3, <1>5 DEF OutputTypes, BufferInv
<1>7. \A i, j \in 1..Len(buffer') : buffer'[i] = buffer'[j] => i = j
  BY <1>1, <1>2, <1>5 DEF BufferInv
<1>8. PendingBounded'
  BY <1>1, <1>2, MaxPendingAssumption DEF BufferInv, PendingBounded
<1> QED
  BY <1>3, <1>4, <1>6, <1>7, <1>8 DEF BufferInv

OutputInv == OutputTypes /\ LineInv /\ BufferInv

\* A step of a request that writes no line and does not touch the settings.
LEMMA SilentKeepsOutput ==
  ASSUME FlowInv, OutputInv, NEW r \in Calls, UNCHANGED <<outputVars, settings>>,
         \A q \in Calls \ {r} : phase'[q] = phase[q] /\ attempt'[q] = attempt[q]
                                  /\ primary'[q] = primary[q],
         LineFlow(r)'
  PROVE  OutputInv'
<1>1. LineInv'
  BY DEF OutputInv, LineInv, LineFlow, outputVars
<1> QED
  BY <1>1 DEF OutputInv, OutputTypes, BufferInv, PendingBounded, outputVars

LEMMA ArriveKeepsOutput ==
  ASSUME FlowInv, OutputInv, NEW r \in Calls, Arrive(r)
  PROVE  OutputInv'
<1>1. /\ phase[r] = "new" /\ line[r] = "none" /\ primary[r] = None
      /\ UNCHANGED <<outputVars, settings, primary>>
  BY DEF Arrive, Login, AuthenticateGraphql, ServeLandingPage, FlowInv, PrimaryInv, PrimaryFlow,
         OutputInv, LineInv, LineFlow
<1>2. \A q \in Calls \ {r} : phase'[q] = phase[q] /\ attempt'[q] = attempt[q]
  BY DEF Arrive, Login, AuthenticateGraphql, ServeLandingPage, FlowInv, RequestTypes
<1>3. LineFlow(r)'
  BY <1>1 DEF LineFlow, outputVars
<1> QED
  BY <1>1, <1>2, <1>3, SilentKeepsOutput

\* One of the two publishes that write a line.
LEMMA WriteKeepsOutput ==
  ASSUME FlowInv, OutputInv, NEW r \in Calls, line[r] = "none",
         NEW accepted \in BOOLEAN, WriteLine(r, accepted),
         NEW next \in {"published", "copied"},
         next = "published" => settings.publisher = "stdout",
         phase' = [phase EXCEPT ![r] = next],
         attempt[r] # None, UNCHANGED <<settings, attempt>>,
         \A q \in Calls \ {r} : primary'[q] = primary[q],
         settings.publisher = "stdout" => primary'[r].accepted = accepted
  PROVE  OutputInv'
<1>1. /\ OutputTypes' /\ BufferInv'
      /\ \A q \in Calls \ {r} : line'[q] = line[q]
      /\ line'[r] = IF accepted THEN "pending" ELSE "failed"
      /\ reported \subseteq reported'
      /\ line'[r] = "failed" => r \in reported'
  BY WriteKeepsBuffer DEF OutputInv
<1>2. \A q \in Calls \ {r} : phase'[q] = phase[q]
  BY DEF FlowInv, RequestTypes
<1>3. phase'[r] = next
  BY DEF FlowInv, RequestTypes
<1>4. LineFlow(r)'
  BY <1>1, <1>3 DEF LineFlow, Entered
<1>5. \A q \in Calls \ {r} : LineFlow(q)'
  BY <1>1, <1>2 DEF OutputInv, LineInv, LineFlow
<1> QED
  BY <1>1, <1>4, <1>5 DEF OutputInv, LineInv

LEMMA HandleKeepsOutput ==
  ASSUME PublisherInv, FlowInv, OutputInv, NEW r \in Calls, Handle(r)
  PROVE  OutputInv'
<1>1. CASE Admit(r)
  <2>1. /\ phase[r] = "admitting" /\ line[r] = "none" /\ primary[r] = None
        /\ UNCHANGED <<outputVars, settings, attempt, primary>>
    BY <1>1 DEF Admit, FlowInv, PrimaryInv, PrimaryFlow, OutputInv, LineInv, LineFlow
  <2>2. \A q \in Calls \ {r} : phase'[q] = phase[q]
    BY <1>1 DEF Admit, FlowInv, RequestTypes
  <2>3. LineFlow(r)'
    BY <2>1 DEF LineFlow, outputVars
  <2> QED
    BY <2>1, <2>2, <2>3, SilentKeepsOutput
<1>2. CASE PublishToStdout(r)
  <2>1. /\ phase[r] = "recording" /\ line[r] = "none" /\ settings.publisher = "stdout"
        /\ attempt[r] # None /\ UNCHANGED <<settings, attempt>>
        /\ phase' = [phase EXCEPT ![r] = "published"]
    BY <1>2 DEF PublishToStdout, FlowInv, DecisionInv, DecisionFlow, OutputInv, LineInv, LineFlow
  <2>2. PICK accepted \in BOOLEAN :
          /\ WriteLine(r, accepted)
          /\ primary' = [primary EXCEPT ![r] = IF accepted THEN Accept ELSE RejectFor("unavailable")]
    BY <1>2 DEF PublishToStdout
  <2>3. /\ primary'[r] = IF accepted THEN Accept ELSE RejectFor("unavailable")
        /\ \A q \in Calls \ {r} : primary'[q] = primary[q]
    BY <2>2 DEF FlowInv, RequestTypes
  <2>4. primary'[r].accepted = accepted
    <3>1. CASE accepted = TRUE
      <4>1. primary'[r] = Accept
        BY <2>3, <3>1
      <4>2. Accept.accepted = TRUE
        BY DEF Accept
      <4> QED
        BY <3>1, <4>1, <4>2, Zenon
    <3>2. CASE accepted = FALSE
      <4>1. primary'[r] = RejectFor("unavailable")
        BY <2>3, <3>2
      <4>2. RejectFor("unavailable").accepted = FALSE
        BY DEF RejectFor
      <4> QED
        BY <3>2, <4>1, <4>2, Zenon
    <3> QED
      BY <3>1, <3>2
  <2> QED
    BY <2>1, <2>2, <2>3, <2>4, WriteKeepsOutput
<1>3. CASE PublishToEventBridge(r)
  <2>1. /\ phase[r] = "recording" /\ line[r] = "none" /\ primary[r] = None
        /\ UNCHANGED <<outputVars, settings, attempt, primary>>
    BY <1>3 DEF PublishToEventBridge, FlowInv, PrimaryInv, PrimaryFlow, OutputInv, LineInv, LineFlow
  <2>2. \A q \in Calls \ {r} : phase'[q] = phase[q]
    BY <1>3 DEF PublishToEventBridge, FlowInv, RequestTypes
  <2>3. LineFlow(r)'
    BY <2>1 DEF LineFlow, outputVars
  <2> QED
    BY <2>1, <2>2, <2>3, SilentKeepsOutput
<1>4. CASE PrimaryReturns(r)
  <2>1. /\ phase[r] = "waiting" /\ settings.publisher = "eventbridge" /\ line[r] = "none"
        /\ UNCHANGED <<outputVars, settings, attempt>>
    BY <1>4 DEF PrimaryReturns, FlowInv, PrimaryInv, PrimaryFlow, OutputInv, LineInv, LineFlow
  <2>2. \A q \in Calls \ {r} : phase'[q] = phase[q] /\ primary'[q] = primary[q]
    BY <1>4 DEF PrimaryReturns, FlowInv, RequestTypes
  <2>3. LineFlow(r)'
    BY <2>1 DEF LineFlow, outputVars
  <2> QED
    BY <2>1, <2>2, <2>3, SilentKeepsOutput
<1>5. CASE CopyToComparison(r)
  <2>1. /\ phase[r] = "published" /\ settings.publisher = "eventbridge"
        /\ attempt[r] # None /\ UNCHANGED <<settings, attempt, primary>>
        /\ phase' = [phase EXCEPT ![r] = "copied"]
    BY <1>5, SettingsAssumption
       DEF CopyToComparison, Mirrors, FlowInv, RequestTypes, DecisionInv, DecisionFlow
  <2>2. line[r] = "none"
    BY <2>1 DEF OutputInv, LineInv, LineFlow
  <2>3. PICK accepted \in BOOLEAN : WriteLine(r, accepted)
    BY <1>5 DEF CopyToComparison
  <2> QED
    BY <2>1, <2>2, <2>3, WriteKeepsOutput
<1>6. CASE AnswerAudited(r)
  <2>1. /\ phase[r] \in {"published", "copied"} /\ phase'[r] = "done" /\ attempt[r] # None
        /\ UNCHANGED <<outputVars, settings, attempt, primary>>
        /\ \A q \in Calls \ {r} : phase'[q] = phase[q]
    BY <1>6 DEF AnswerAudited, FlowInv, RequestTypes, DecisionInv, DecisionFlow
  <2>2. LineFlow(r)
    BY DEF OutputInv, LineInv
  <2>3. LineFlow(r)'
    BY <2>1, <2>2 DEF LineFlow, outputVars
  <2> QED
    BY <2>1, <2>3, SilentKeepsOutput
<1> QED
  BY <1>1, <1>2, <1>3, <1>4, <1>5, <1>6 DEF Handle

LEMMA TakeKeepsOutput ==
  ASSUME FlowInv, OutputInv, DrainLine \/ LoseLine
  PROVE  /\ OutputInv'
         /\ Head(buffer) \in Calls /\ line[Head(buffer)] = "pending"
         /\ \E fate \in {"written", "lost"} : line' = [line EXCEPT ![Head(buffer)] = fate]
<1>1. PICK fate \in {"written", "lost"} :
        /\ buffer # << >> /\ buffer' = Tail(buffer)
        /\ line' = [line EXCEPT ![Head(buffer)] = fate]
        /\ reported' = (IF fate = "lost" THEN reported \cup {Head(buffer)} ELSE reported)
  BY DEF DrainLine, LoseLine
<1>2. UNCHANGED requestVars
  BY DEF DrainLine, LoseLine
<1>3. /\ OutputTypes' /\ BufferInv'
      /\ Head(buffer) \in Calls /\ line[Head(buffer)] = "pending"
  BY <1>1, TakeKeepsBuffer DEF OutputInv
<1>4. LineInv'
  <2> PICK h \in Calls : h = Head(buffer)
    BY <1>3
  <2>1. /\ line'[h] = fate /\ \A q \in Calls \ {h} : line'[q] = line[q]
        /\ reported \subseteq reported'
        /\ fate = "lost" => h \in reported'
    BY <1>1, <1>3 DEF OutputInv, OutputTypes
  <2>2. LineFlow(h) /\ line[h] = "pending"
    BY <1>3 DEF OutputInv, LineInv
  <2>3. LineFlow(h)'
    BY <1>2, <2>1, <2>2 DEF LineFlow, Entered, requestVars
  <2>4. \A q \in Calls \ {h} : LineFlow(q)'
    BY <1>2, <2>1 DEF OutputInv, LineInv, LineFlow, requestVars
  <2> QED
    BY <2>3, <2>4 DEF LineInv
<1> QED
  BY <1>1, <1>3, <1>4 DEF OutputInv

LEMMA OutputStep == PublisherInv /\ FlowInv /\ OutputInv /\ [Next]_vars => OutputInv'
<1> SUFFICES ASSUME PublisherInv, FlowInv, OutputInv, [Next]_vars PROVE OutputInv'
  OBVIOUS
<1>1. CASE UNCHANGED <<outputVars, requestVars>>
  BY <1>1 DEF OutputInv, OutputTypes, LineInv, LineFlow, BufferInv, PendingBounded, outputVars,
              requestVars
<1>2. CASE UNCHANGED vars
  BY <1>1, <1>2 DEF vars
<1>3. ASSUME NEW r \in Calls, Transport(r) PROVE OutputInv'
  BY <1>1, <1>3 DEF Transport
<1> QED
  BY <1>2, <1>3, ArriveKeepsOutput, HandleKeepsOutput, TakeKeepsOutput DEF Next

----------------------------------------------------------------------------
\* The metrics

Answered(accepted) == {r \in Calls : primary[r] # None /\ primary[r].accepted = accepted}

SamplesInv ==
  /\ SampleTypes
  /\ \A accepted \in BOOLEAN : samples["primary"][accepted] = Cardinality(Answered(accepted))
  /\ samples["comparison"][TRUE] + samples["comparison"][FALSE] =
       IF settings.mirror THEN Cardinality(Copied) ELSE 0

\* One more request in a set of requests.
LEMMA OneMore ==
  ASSUME NEW S \in SUBSET Calls, NEW r \in Calls, r \notin S
  PROVE  Cardinality(S) \in Nat /\ Cardinality(S \cup {r}) = Cardinality(S) + 1
<1>1. IsFiniteSet(S)
  BY CallsAssumption, FS_Subset
<1> QED
  BY <1>1, FS_AddElement, FS_CardinalityType

\* One sample more of one kind, the other kinds as before.
LEMMA CountAddsOne ==
  ASSUME SampleTypes, NEW role \in Roles, NEW accepted \in BOOLEAN, Count(role, accepted)
  PROVE  /\ SampleTypes'
         /\ samples'[role][accepted] = samples[role][accepted] + 1
         /\ \A other \in BOOLEAN : other # accepted => samples'[role][other] = samples[role][other]
         /\ \A other \in Roles \ {role} : samples'[other] = samples[other]
BY DEF SampleTypes, Count

LEMMA SamplesInit == Init => SamplesInv
<1> SUFFICES ASSUME Init PROVE SamplesInv
  OBVIOUS
<1>1. \A accepted \in BOOLEAN : Answered(accepted) = {}
  BY DEF Init, Answered
<1>2. Copied = {}
  BY DEF Init, Copied
<1>3. SampleTypes
  BY DEF Init, SampleTypes
<1>4. \A role \in Roles : \A accepted \in BOOLEAN : samples[role][accepted] = 0
  BY DEF Init
<1>5. "primary" \in Roles /\ "comparison" \in Roles
  BY DEF Roles
<1> QED
  <2>1. \A accepted \in BOOLEAN : samples["primary"][accepted] = Cardinality(Answered(accepted))
    BY <1>1, <1>4, <1>5, FS_EmptySet
  <2>2. samples["comparison"][TRUE] = 0 /\ samples["comparison"][FALSE] = 0
    BY <1>4, <1>5
  <2>3. Cardinality(Copied) = 0
    BY <1>2, FS_EmptySet
  <2> QED
    BY <1>3, <2>1, <2>2, <2>3 DEF SamplesInv

\* A step that leaves the samples and the primary results alone, and the copies too
\* where there is a mirror.
LEMMA UncountedKeepsSamples ==
  ASSUME SamplesInv, UNCHANGED <<samples, primary, settings>>,
         settings.mirror => Copied' = Copied
  PROVE  SamplesInv'
<1>1. \A accepted \in BOOLEAN : Answered(accepted)' = Answered(accepted)
  BY DEF Answered
<1> QED
  BY <1>1 DEF SamplesInv, SampleTypes

\* The primary publisher has answered and is counted.
LEMMA PrimaryKeepsSamples ==
  ASSUME FlowInv, SamplesInv, NEW r \in Calls, NEW outcome \in PublishResult,
         primary[r] = None, primary' = [primary EXCEPT ![r] = outcome],
         Count("primary", outcome.accepted),
         phase' = [phase EXCEPT ![r] = "published"],
         UNCHANGED settings
  PROVE  SamplesInv'
<1>1. outcome.accepted \in BOOLEAN /\ outcome # None
  BY NoneIsNoResult DEF PublishResult
<1>2. PICK accepted \in BOOLEAN : accepted = outcome.accepted
  BY <1>1
<1>3. primary'[r] = outcome /\ \A q \in Calls \ {r} : primary'[q] = primary[q]
  BY DEF FlowInv, RequestTypes
<1>4. Answered(accepted)' = Answered(accepted) \cup {r} /\ r \notin Answered(accepted)
  BY <1>1, <1>2, <1>3 DEF Answered
<1>5. \A other \in BOOLEAN : other # accepted => Answered(other)' = Answered(other)
  BY <1>2, <1>3 DEF Answered
<1>6. Copied' = Copied
  BY <1>3 DEF Copied, FlowInv, RequestTypes
<1>7. /\ SampleTypes'
      /\ samples'["primary"][accepted] = samples["primary"][accepted] + 1
      /\ \A other \in BOOLEAN :
           other # accepted => samples'["primary"][other] = samples["primary"][other]
      /\ samples'["comparison"] = samples["comparison"]
  BY <1>2, CountAddsOne DEF SamplesInv, Roles
<1>8. Cardinality(Answered(accepted)') = Cardinality(Answered(accepted)) + 1
  <2>1. Answered(accepted) \in SUBSET Calls
    BY DEF Answered
  <2> QED
    BY <1>4, <2>1, OneMore
<1>9. \A other \in BOOLEAN : samples'["primary"][other] = Cardinality(Answered(other)')
  BY <1>5, <1>7, <1>8 DEF SamplesInv
<1> QED
  BY <1>6, <1>7, <1>9 DEF SamplesInv

\* The mirror has copied and its copy is counted.
LEMMA CopyKeepsSamples ==
  ASSUME FlowInv, SamplesInv, NEW r \in Calls, CopyToComparison(r)
  PROVE  SamplesInv'
<1>1. PICK accepted \in BOOLEAN : Count("comparison", accepted)
  BY DEF CopyToComparison
<1>2. /\ phase[r] = "published" /\ settings.mirror /\ primary[r] # None
      /\ phase' = [phase EXCEPT ![r] = "copied"] /\ UNCHANGED <<primary, settings>>
  BY DEF CopyToComparison, Mirrors, FlowInv, PrimaryInv, PrimaryFlow
<1>3. Copied' = Copied \cup {r} /\ r \notin Copied
  BY <1>2 DEF Copied, FlowInv, RequestTypes
<1>4. Cardinality(Copied') = Cardinality(Copied) + 1 /\ Cardinality(Copied) \in Nat
  BY <1>3, OneMore DEF Copied
<1>5. /\ SampleTypes'
      /\ samples'["comparison"][accepted] = samples["comparison"][accepted] + 1
      /\ \A other \in BOOLEAN :
           other # accepted => samples'["comparison"][other] = samples["comparison"][other]
      /\ samples'["primary"] = samples["primary"]
  BY <1>1, CountAddsOne DEF SamplesInv, Roles
<1>6. samples["comparison"][TRUE] \in Nat /\ samples["comparison"][FALSE] \in Nat
  BY DEF SamplesInv, SampleTypes, Roles
<1>7. samples'["comparison"][TRUE] + samples'["comparison"][FALSE] = Cardinality(Copied')
  <2>1. CASE accepted = TRUE
    <3>1. samples'["comparison"][TRUE] = samples["comparison"][TRUE] + 1
      BY <1>5, <2>1
    <3>2. samples'["comparison"][FALSE] = samples["comparison"][FALSE]
      <4>1. FALSE \in BOOLEAN /\ FALSE # accepted
        BY <2>1
      <4> QED
        BY <1>5, <4>1
    <3>3. samples["comparison"][TRUE] + samples["comparison"][FALSE] = Cardinality(Copied)
      BY <1>2 DEF SamplesInv
    <3> DEFINE a == samples["comparison"][TRUE]
               b == samples["comparison"][FALSE]
               n == Cardinality(Copied)
               m == Cardinality(Copied')
               x == samples'["comparison"][TRUE]
               y == samples'["comparison"][FALSE]
    <3>4. a \in Nat /\ b \in Nat /\ n \in Nat /\ m = n + 1 /\ a + b = n
      BY <1>4, <1>6, <3>3
    <3>5. x = a + 1 /\ y = b
      BY <3>1, <3>2
    <3> HIDE DEF a, b, n, m, x, y
    <3>6. x + y = m
      BY <3>4, <3>5
    <3> QED
      BY <3>6 DEF m, x, y
  <2>2. CASE accepted = FALSE
    <3>1. samples'["comparison"][FALSE] = samples["comparison"][FALSE] + 1
      BY <1>5, <2>2
    <3>2. samples'["comparison"][TRUE] = samples["comparison"][TRUE]
      <4>1. TRUE \in BOOLEAN /\ TRUE # accepted
        BY <2>2
      <4> QED
        BY <1>5, <4>1
    <3>3. samples["comparison"][TRUE] + samples["comparison"][FALSE] = Cardinality(Copied)
      BY <1>2 DEF SamplesInv
    <3> DEFINE a == samples["comparison"][TRUE]
               b == samples["comparison"][FALSE]
               n == Cardinality(Copied)
               m == Cardinality(Copied')
               x == samples'["comparison"][TRUE]
               y == samples'["comparison"][FALSE]
    <3>4. a \in Nat /\ b \in Nat /\ n \in Nat /\ m = n + 1 /\ a + b = n
      BY <1>4, <1>6, <3>3
    <3>5. y = b + 1 /\ x = a
      BY <3>1, <3>2
    <3> HIDE DEF a, b, n, m, x, y
    <3>6. x + y = m
      BY <3>4, <3>5
    <3> QED
      BY <3>6 DEF m, x, y
  <2> QED
    BY <2>1, <2>2
<1>8. \A kind \in BOOLEAN : Answered(kind)' = Answered(kind)
  BY <1>2 DEF Answered
<1> QED
  BY <1>2, <1>5, <1>7, <1>8 DEF SamplesInv

LEMMA SamplesStep == PublisherInv /\ FlowInv /\ SamplesInv /\ [Next]_vars => SamplesInv'
<1> SUFFICES ASSUME PublisherInv, FlowInv, SamplesInv, [Next]_vars PROVE SamplesInv'
  OBVIOUS
<1>1. CASE UNCHANGED requestVars
  BY <1>1, UncountedKeepsSamples DEF requestVars, Copied
<1>2. ASSUME NEW r \in Calls, Arrive(r) PROVE SamplesInv'
  <2>1. phase[r] = "new" /\ primary[r] = None /\ UNCHANGED <<samples, primary, settings>>
    BY <1>2 DEF Arrive, Login, AuthenticateGraphql, ServeLandingPage, FlowInv, PrimaryInv,
                PrimaryFlow
  <2>2. \A q \in Calls \ {r} : phase'[q] = phase[q]
    BY <1>2 DEF Arrive, Login, AuthenticateGraphql, ServeLandingPage, FlowInv, RequestTypes
  <2>3. Copied' = Copied
    BY <2>1, <2>2 DEF Copied
  <2> QED
    BY <2>1, <2>3, UncountedKeepsSamples
<1>3. ASSUME NEW r \in Calls, Admit(r) \/ PublishToEventBridge(r) PROVE SamplesInv'
  <2>1. primary[r] = None /\ UNCHANGED <<samples, primary, settings>>
    BY <1>3 DEF Admit, PublishToEventBridge, FlowInv, PrimaryInv, PrimaryFlow
  <2>2. \A q \in Calls \ {r} : phase'[q] = phase[q]
    BY <1>3 DEF Admit, PublishToEventBridge, FlowInv, RequestTypes
  <2>3. Copied' = Copied
    BY <2>1, <2>2 DEF Copied
  <2> QED
    BY <2>1, <2>3, UncountedKeepsSamples
<1>4. ASSUME NEW r \in Calls, PublishToStdout(r) PROVE SamplesInv'
  <2>1. PICK accepted \in BOOLEAN :
          /\ Count("primary", accepted)
          /\ primary' = [primary EXCEPT ![r] = IF accepted THEN Accept ELSE RejectFor("unavailable")]
    BY <1>4 DEF PublishToStdout
  <2>2. primary[r] = None /\ phase' = [phase EXCEPT ![r] = "published"] /\ UNCHANGED settings
    BY <1>4 DEF PublishToStdout, FlowInv, PrimaryInv, PrimaryFlow
  <2>3. CASE accepted = TRUE
    <3>1. Accept \in PublishResult /\ Accept.accepted = TRUE
      BY DEF Accept, PublishResult
    <3> QED
      BY <2>1, <2>2, <2>3, <3>1, PrimaryKeepsSamples
  <2>4. CASE accepted = FALSE
    <3>1. RejectFor("unavailable") \in PublishResult /\ RejectFor("unavailable").accepted = FALSE
      BY DEF RejectFor, PublishResult, FailureReason
    <3> QED
      BY <2>1, <2>2, <2>4, <3>1, PrimaryKeepsSamples
  <2> QED
    BY <2>3, <2>4
<1>5. ASSUME NEW r \in Calls, PrimaryReturns(r) PROVE SamplesInv'
  <2> DEFINE outcome == IF call[r] = "threw" THEN RejectFor("unavailable") ELSE result[r]
  <2>1. outcome \in PublishResult
    BY <1>5, AcceptedTypes DEF PrimaryReturns, PublisherInv, PublisherTypeOK, ResultWhenReturned
  <2>2. /\ Count("primary", outcome.accepted) /\ primary' = [primary EXCEPT ![r] = outcome]
        /\ primary[r] = None /\ phase' = [phase EXCEPT ![r] = "published"] /\ UNCHANGED settings
    BY <1>5 DEF PrimaryReturns, FlowInv, PrimaryInv, PrimaryFlow
  <2> HIDE DEF outcome
  <2> QED
    BY <2>1, <2>2, PrimaryKeepsSamples
<1>6. ASSUME NEW r \in Calls, AnswerAudited(r) PROVE SamplesInv'
  <2>1. /\ phase[r] = (IF settings.mirror THEN "copied" ELSE "published")
        /\ phase' = [phase EXCEPT ![r] = "done"]
        /\ UNCHANGED <<samples, primary, settings>>
    BY <1>6 DEF AnswerAudited, Mirrors
  <2>2. settings.mirror => Copied' = Copied
    BY <2>1 DEF Copied, FlowInv, RequestTypes
  <2> QED
    BY <2>1, <2>2, UncountedKeepsSamples
<1>7. ASSUME NEW r \in Calls, CopyToComparison(r) PROVE SamplesInv'
  BY <1>7, CopyKeepsSamples
<1>8. ASSUME NEW r \in Calls, Transport(r) PROVE SamplesInv'
  BY <1>1, <1>8 DEF Transport
<1>9. CASE DrainLine \/ LoseLine \/ UNCHANGED vars
  BY <1>1, <1>9 DEF DrainLine, LoseLine, vars
<1> QED
  BY <1>2, <1>3, <1>4, <1>5, <1>6, <1>7, <1>8, <1>9 DEF Next, Handle

----------------------------------------------------------------------------
AuditInv == PublisherInv /\ FlowInv /\ OutputInv /\ SamplesInv

LEMMA AuditInvInit == Init => AuditInv
<1>1. Init => PublisherInit
  BY DEF Init
<1> QED
  BY <1>1, PublisherInvInit, PlainInit, SamplesInit DEF AuditInv, OutputInv

LEMMA AuditInvStep == AuditInv /\ [Next]_vars => AuditInv'
BY StepIsPublisherStep, PublisherInvStep, FlowStep, OutputStep, SamplesStep DEF AuditInv

THEOREM AuditInvariant == Spec => []AuditInv
BY AuditInvInit, AuditInvStep, PTL DEF Spec

\* Every variable of the service has its type.
THEOREM AuditTypeCorrect == Spec => []TypeOK
<1>1. AuditInv => TypeOK
  BY DEF AuditInv, PublisherInv, FlowInv, RequestTypes, OutputInv, OutputTypes, SamplesInv,
         SampleTypes, TypeOK
<1> QED
  BY <1>1, AuditInvariant, PTL

\* The output buffer never holds more lines than its bound, however many requests
\* write at once.
THEOREM PendingIsBounded == Spec => []PendingBounded
<1>1. AuditInv => PendingBounded
  BY DEF AuditInv, OutputInv, BufferInv
<1> QED
  BY <1>1, AuditInvariant, PTL

\* What the primary publisher has accepted it has: the bus has taken the event, or
\* its line has entered the output buffer.
LEMMA AcceptedIsKept ==
  ASSUME AuditInv, NEW r \in Calls, primary[r] # None, primary[r].accepted
  PROVE  r \in Kept
<1>1. FlowInv /\ CallFlow(r) /\ LineFlow(r)
  BY DEF AuditInv, FlowInv, CallInv, OutputInv, LineInv
<1>2. CASE settings.publisher = "stdout"
  BY <1>1, <1>2 DEF LineFlow, Entered, Kept
<1>3. CASE settings.publisher = "eventbridge"
  <2>1. ~RejectFor("unavailable").accepted
    BY AcceptedTypes
  <2>2. call[r] # "threw" /\ primary[r] = result[r]
    BY <1>1, <1>3, <2>1 DEF CallFlow
  <2>3. bus[r] = "taken"
    BY <2>2 DEF AuditInv, PublisherInv, AcceptedMeansTaken
  <2> QED
    BY <1>3, <2>3 DEF Kept
<1>4. settings \in Setting
  BY <1>1, SettingsAssumption DEF FlowInv, RequestTypes
<1> QED
  BY <1>2, <1>3, <1>4 DEF Setting

\* An audited request that was answered has its event in the trail or has left a
\* signal, also when its line is lost after the answer.
THEOREM NoLossIsSilent == Spec => []NoSilentLoss
<1>1. ASSUME AuditInv, NEW r \in Calls, phase[r] = "done", primary[r] # None,
             r \notin emitFailed \cup reported
      PROVE  r \in Kept /\ (settings.publisher = "stdout" => line[r] # "lost")
  <2>1. PrimaryFlow(r) /\ LineFlow(r)
    BY <1>1 DEF AuditInv, FlowInv, PrimaryInv, OutputInv, LineInv
  <2>2. r \in Kept
    BY <1>1, <2>1, AcceptedIsKept DEF PrimaryFlow
  <2> QED
    BY <1>1, <2>1, <2>2 DEF LineFlow
<1>2. AuditInv => NoSilentLoss
  BY <1>1 DEF NoSilentLoss
<1> QED
  BY <1>2, AuditInvariant, PTL

\* The primary samples and the two log lines count exactly what the primary
\* publisher has answered.
THEOREM AlertingSignal == Spec => []AlertingSignalIsExact
<1>1. ASSUME AuditInv PROVE AlertingSignalIsExact
  <2>1. \A accepted \in BOOLEAN :
          samples["primary"][accepted] =
            Cardinality({r \in Calls : primary[r] # None /\ primary[r].accepted = accepted})
    BY <1>1 DEF AuditInv, SamplesInv, Answered
  <2>2. emitFailed \subseteq Calls /\ audited \subseteq Calls
    BY <1>1 DEF AuditInv, FlowInv, RequestTypes
  <2>3. \A r \in Calls : PrimaryFlow(r)
    BY <1>1 DEF AuditInv, FlowInv, PrimaryInv
  <2>4. emitFailed = {r \in Calls : primary[r] # None /\ ~primary[r].accepted /\ phase[r] = "done"}
    BY <2>2, <2>3 DEF PrimaryFlow
  <2>5. audited = {r \in Calls : primary[r] # None /\ primary[r].accepted /\ phase[r] = "done"}
    BY <2>2, <2>3 DEF PrimaryFlow
  <2> QED
    BY <2>1, <2>4, <2>5 DEF AlertingSignalIsExact
<1> QED
  BY <1>1, AuditInvariant, PTL

\* The mirror copies each published event once, and its outcome is never taken for
\* that of the primary publisher.
THEOREM CopyOnly == Spec => []ComparisonIsOnlyACopy
<1>1. AuditInv => ComparisonIsOnlyACopy
  BY DEF AuditInv, SamplesInv, FlowInv, CallInv, CallFlow, ComparisonIsOnlyACopy
<1> QED
  BY <1>1, AuditInvariant, PTL

----------------------------------------------------------------------------
\* The service implements AuditedAuthentication

Presented(r) ==
  IF attempt[r] = None THEN None ELSE IF r \in genuine THEN "genuine" ELSE "false"
Replied(r) ==
  IF answer[r] = None THEN None
  ELSE [granted |-> answer[r].status # "401", receipt |-> answer[r].receipt]

PresentedBar == [r \in Calls |-> Presented(r)]
RepliedBar == [r \in Calls |-> Replied(r)]

\* Nothing the promise can see changes.
LEMMA SilentForPromise ==
  ASSUME UNCHANGED <<attempt, genuine, answer>>, Kept' = Kept
  PROVE  UNCHANGED Promise!auditVars
BY DEF Promise!auditVars

\* A credential check presents the credentials.
LEMMA PresentStep ==
  ASSUME FlowInv, NEW r \in Calls, phase[r] = "new", NEW new \in Attempt,
         attempt' = [attempt EXCEPT ![r] = new],
         genuine' \in {genuine, genuine \cup {r}},
         UNCHANGED <<answer, bus, line, settings>>
  PROVE  Promise!Next
<1>1. attempt[r] = None /\ new # None /\ r \notin genuine
  BY NoneIsNoValue DEF FlowInv, DecisionInv, DecisionFlow
<1>2. attempt \in [Calls -> Attempt \cup {None}]
  BY DEF FlowInv, RequestTypes
<1>3. PICK kind \in {"genuine", "false"} :
        Presented(r)' = kind /\ \A q \in Calls \ {r} : Presented(q)' = Presented(q)
  BY <1>1, <1>2 DEF Presented
<1>4. PresentedBar[r] = None /\ PresentedBar' = [PresentedBar EXCEPT ![r] = kind]
  BY <1>1, <1>3 DEF PresentedBar, Presented
<1>5. Kept' = Kept /\ RepliedBar' = RepliedBar
  BY DEF Kept, RepliedBar, Replied
<1>6. Promise!Present(r, kind)
  BY <1>4, <1>5 DEF Promise!Present, PresentedBar, RepliedBar, Presented, Replied
<1> QED
  BY <1>6 DEF Promise!Next

\* An event that is kept from now on is recorded after its credentials were presented.
LEMMA RecordStep ==
  ASSUME NEW r \in Calls, attempt[r] # None, Kept' = Kept \cup {r},
         UNCHANGED <<attempt, genuine, answer>>
  PROVE  Promise!Next \/ UNCHANGED Promise!auditVars
<1>1. CASE r \in Kept
  BY <1>1, SilentForPromise
<1>2. CASE r \notin Kept
  <2>1. Presented(r) # None
    BY NoneIsNoValue DEF Presented
  <2>2. Promise!Record(r)
    BY <1>2, <2>1 DEF Promise!Record, Presented
  <2> QED
    BY <2>2 DEF Promise!Next
<1> QED
  BY <1>1, <1>2

\* An answer grants what the credentials deserve, with a receipt only for a kept event.
LEMMA AnswerStep ==
  ASSUME FlowInv, NEW r \in Calls, attempt[r] # None, answer[r] = None,
         NEW status, NEW receipt \in BOOLEAN,
         answer' = [answer EXCEPT ![r] = [status |-> status, receipt |-> receipt]],
         [status |-> status, receipt |-> receipt] \in Answer,
         (status # "401") = (r \in genuine),
         receipt => r \in Kept,
         UNCHANGED <<attempt, genuine>>, Kept' = Kept
  PROVE  Promise!Next
<1> DEFINE said == [granted |-> Presented(r) = "genuine", receipt |-> receipt]
<1>1. Presented(r) # None /\ (Presented(r) = "genuine") = (r \in genuine)
  BY NoneIsNoValue DEF Presented
<1>2. answer \in [Calls -> Answer \cup {None}] /\ [status |-> status, receipt |-> receipt] # None
  BY NoneIsNoValue DEF FlowInv, RequestTypes
<1>3. Replied(r)' = [granted |-> status # "401", receipt |-> receipt]
  BY <1>2 DEF Replied
<1>4. Replied(r)' = said
  BY <1>1, <1>3
<1> HIDE DEF said
<1>5. \A q \in Calls \ {r} : Replied(q)' = Replied(q)
  BY <1>2 DEF Replied
<1>6. RepliedBar[r] = None /\ RepliedBar' = [RepliedBar EXCEPT ![r] = said]
  <2>1. RepliedBar[r] = None
    BY DEF RepliedBar, Replied
  <2>2. RepliedBar' = [RepliedBar EXCEPT ![r] = said]
    BY <1>4, <1>5 DEF RepliedBar
  <2> QED
    BY <2>1, <2>2
<1>7. PresentedBar' = PresentedBar /\ PresentedBar[r] = Presented(r)
  BY DEF PresentedBar, Presented
<1>8. Promise!Answer(r, receipt)
  BY <1>1, <1>6, <1>7 DEF Promise!Answer, PresentedBar, RepliedBar, Presented, Replied, said
<1> QED
  BY <1>8 DEF Promise!Next

LEMMA PromiseInit == Init => Promise!Init
BY DEF Init, PublisherInit, Promise!Init, Kept

LEMMA ArrivePresents ==
  ASSUME AuditInv, NEW r \in Calls, Arrive(r)
  PROVE  Promise!Next \/ UNCHANGED Promise!auditVars
<1>1. FlowInv
  BY DEF AuditInv
<1>2. ASSUME NEW body \in Bodies, Login(r, body) PROVE Promise!Next
  <2>1. [boundary |-> "demo_login", outcome |-> Authenticate(body)] \in Attempt
    BY BodiesAssumption, OnlyGenuineBodiesPass DEF Attempt
  <2> QED
    BY <1>1, <1>2, <2>1, PresentStep DEF Login, publisherVars, outputVars
<1>3. ASSUME NEW token \in Token, AuthenticateGraphql(r, token) PROVE Promise!Next
  <2>1. [boundary |-> "graphql",
         outcome |-> IF TokenAccepted(token) THEN "AUTHENTICATED" ELSE "UNAUTHENTICATED"] \in Attempt
    BY DEF Attempt, FailureCode
  <2> QED
    BY <1>1, <1>3, <2>1, PresentStep DEF AuthenticateGraphql, publisherVars, outputVars
<1>4. ASSUME ServeLandingPage(r) PROVE UNCHANGED Promise!auditVars
  <2>1. UNCHANGED <<attempt, genuine, answer>> /\ Kept' = Kept
    BY <1>4 DEF ServeLandingPage, publisherVars, outputVars, Kept
  <2> QED
    BY <2>1, SilentForPromise
<1> QED
  BY <1>2, <1>3, <1>4 DEF Arrive

LEMMA HandleKeepsPromise ==
  ASSUME AuditInv, NEW r \in Calls, Handle(r)
  PROVE  Promise!Next \/ UNCHANGED Promise!auditVars
<1>0. /\ FlowInv /\ OutputInv /\ PublisherInv
      /\ DecisionFlow(r) /\ PrimaryFlow(r) /\ CallFlow(r) /\ LineFlow(r)
  BY DEF AuditInv, FlowInv, DecisionInv, PrimaryInv, CallInv, OutputInv, LineInv
<1>1. CASE Admit(r)
  <2>1. attempt[r] # None /\ answer[r] = None /\ r \in genuine
    BY <1>0, <1>1 DEF Admit, DecisionFlow
  <2>2. [status |-> "next", receipt |-> FALSE] \in Answer
    BY DEF Answer
  <2>3. UNCHANGED <<attempt, genuine>> /\ Kept' = Kept
    BY <1>1 DEF Admit, publisherVars, outputVars, Kept
  <2>4. answer' = [answer EXCEPT ![r] = [status |-> "next", receipt |-> FALSE]]
    BY <1>1 DEF Admit
  <2>5. ("next" # "401") = (r \in genuine)
    BY <2>1
  <2>6. FALSE \in BOOLEAN /\ (FALSE => r \in Kept)
    OBVIOUS
  <2> QED
    BY <1>0, <2>1, <2>2, <2>3, <2>4, <2>5, <2>6, AnswerStep
<1>2. CASE PublishToStdout(r)
  <2>1. /\ attempt[r] # None /\ line[r] = "none" /\ settings.publisher = "stdout"
        /\ UNCHANGED <<settings, attempt, genuine, answer>>
    BY <1>0, <1>2 DEF PublishToStdout, DecisionFlow, LineFlow
  <2>2. PICK accepted \in BOOLEAN : WriteLine(r, accepted)
    BY <1>2 DEF PublishToStdout
  <2>3. line' = [line EXCEPT ![r] = IF accepted THEN "pending" ELSE "failed"]
    BY <2>2 DEF WriteLine
  <2>4. Kept' = Kept \/ Kept' = Kept \cup {r}
    BY <1>0, <2>1, <2>3 DEF OutputInv, OutputTypes, Kept
  <2> QED
    BY <2>1, <2>4, SilentForPromise, RecordStep
<1>3. CASE PublishToEventBridge(r)
  <2>1. call[r] = "idle" /\ bus[r] = "nothing"
    BY <1>0, <1>3 DEF PublishToEventBridge, Publish, SendThrows, CallFlow
  <2>2. \A q \in Calls : bus'[q] = "taken" <=> bus[q] = "taken"
    BY <1>0, <1>3, <2>1 DEF PublishToEventBridge, Publish, SendThrows, PublisherInv, PublisherTypeOK
  <2>3. UNCHANGED <<attempt, genuine, answer>> /\ Kept' = Kept
    BY <1>3, <2>2 DEF PublishToEventBridge, outputVars, Kept
  <2> QED
    BY <2>3, SilentForPromise
<1>4. CASE PrimaryReturns(r)
  <2>1. UNCHANGED <<attempt, genuine, answer>> /\ Kept' = Kept
    BY <1>4 DEF PrimaryReturns, publisherVars, outputVars, Kept
  <2> QED
    BY <2>1, SilentForPromise
<1>5. CASE CopyToComparison(r)
  <2>1. settings.publisher = "eventbridge"
    BY <1>0, <1>5, SettingsAssumption DEF CopyToComparison, Mirrors, FlowInv, RequestTypes
  <2>2. UNCHANGED <<attempt, genuine, answer>> /\ Kept' = Kept
    BY <1>5, <2>1 DEF CopyToComparison, publisherVars, Kept
  <2> QED
    BY <2>2, SilentForPromise
<1>6. CASE AnswerAudited(r)
  <2> DEFINE receipt == attempt[r].boundary = "demo_login" /\ primary[r].accepted
  <2>1. /\ phase[r] \in {"published", "copied"}
        /\ attempt[r] # None /\ primary[r] # None /\ answer[r] = None
    BY <1>0, <1>6 DEF AnswerAudited, DecisionFlow, PrimaryFlow
  <2>2. primary[r].accepted \in BOOLEAN
    BY <1>0, <2>1 DEF FlowInv, RequestTypes, PublishResult
  <2>3. receipt \in BOOLEAN /\ (receipt => r \in Kept)
    BY <2>1, <2>2, AcceptedIsKept
  <2>4. (StatusOf(r) # "401") = (r \in genuine)
    BY <1>0, <2>1 DEF StatusOf, DecisionFlow
  <2>5. answer' = [answer EXCEPT ![r] = [status |-> StatusOf(r), receipt |-> receipt]]
    BY <1>6 DEF AnswerAudited
  <2> HIDE DEF receipt
  <2>6. [status |-> StatusOf(r), receipt |-> receipt] \in Answer
    BY <2>3 DEF StatusOf, Answer
  <2>7. UNCHANGED <<attempt, genuine>> /\ Kept' = Kept
    BY <1>6 DEF AnswerAudited, publisherVars, outputVars, Kept
  <2> QED
    BY <1>0, <2>1, <2>3, <2>4, <2>5, <2>6, <2>7, AnswerStep
<1> QED
  BY <1>1, <1>2, <1>3, <1>4, <1>5, <1>6 DEF Handle

LEMMA TransportKeepsPromise ==
  ASSUME AuditInv, NEW r \in Calls, Transport(r)
  PROVE  Promise!Next \/ UNCHANGED Promise!auditVars
<1>1. UNCHANGED <<settings, attempt, genuine, answer, line>>
  BY DEF Transport, requestVars, outputVars
<1>2. ASSUME NEW fate \in {"taken", "refused"}, BusDecides(r, fate)
      PROVE  Promise!Next \/ UNCHANGED Promise!auditVars
  <2>1. CallFlow(r) /\ bus \in [Calls -> BusState]
    BY DEF AuditInv, FlowInv, CallInv, PublisherInv, PublisherTypeOK
  <2>2. attempt[r] # None /\ settings.publisher # "stdout"
    BY <1>2, <2>1 DEF BusDecides, CallFlow
  <2>3. settings.publisher = "eventbridge"
    BY <2>2, SettingsAssumption DEF AuditInv, FlowInv, RequestTypes, Setting
  <2>4. bus[r] = "asked" /\ bus' = [bus EXCEPT ![r] = fate]
    BY <1>2 DEF BusDecides
  <2>5. Kept' = Kept \/ Kept' = Kept \cup {r}
    BY <1>1, <2>1, <2>3, <2>4 DEF Kept
  <2> QED
    BY <1>1, <2>2, <2>5, SilentForPromise, RecordStep
<1>3. ASSUME UNCHANGED bus
      PROVE  UNCHANGED Promise!auditVars
  <2>1. Kept' = Kept
    BY <1>1, <1>3 DEF Kept
  <2> QED
    BY <1>1, <2>1, SilentForPromise
<1> QED
  BY <1>2, <1>3 DEF Transport, TransportStep, TransportResponds, TransportFails, TimeoutFires,
                    LateAnswer

LEMMA PromiseStep == AuditInv /\ [Next]_vars => [Promise!Next]_(Promise!auditVars)
<1> SUFFICES ASSUME AuditInv, [Next]_vars
             PROVE  Promise!Next \/ UNCHANGED Promise!auditVars
  OBVIOUS
<1>1. CASE UNCHANGED vars
  <2>1. UNCHANGED <<attempt, genuine, answer>> /\ Kept' = Kept
    BY <1>1 DEF vars, publisherVars, outputVars, requestVars, Kept
  <2> QED
    BY <2>1, SilentForPromise
<1>2. CASE DrainLine \/ LoseLine
  <2>1. /\ OutputInv /\ Head(buffer) \in Calls /\ line[Head(buffer)] = "pending"
        /\ \E fate \in {"written", "lost"} : line' = [line EXCEPT ![Head(buffer)] = fate]
    BY <1>2, TakeKeepsOutput DEF AuditInv
  <2>2. UNCHANGED <<settings, bus, attempt, genuine, answer>>
    BY <1>2 DEF DrainLine, LoseLine, publisherVars, requestVars
  <2>3. \A r \in Calls : line'[r] \in {"pending", "written", "lost"}
                           <=> line[r] \in {"pending", "written", "lost"}
    BY <2>1 DEF OutputInv, OutputTypes
  <2>4. Kept' = Kept
    BY <2>2, <2>3 DEF Kept
  <2> QED
    BY <2>2, <2>4, SilentForPromise
<1> QED
  BY <1>1, <1>2, ArrivePresents, HandleKeepsPromise, TransportKeepsPromise DEF Next

\* The credential decision stands whatever the audit trail does, and an answer
\* carries a receipt only when the primary publisher has accepted the event.
THEOREM DecisionsStand == Spec => ImplementsPromise
BY PromiseInit, PromiseStep, AuditInvariant, PTL DEF Spec, ImplementsPromise, Promise!Spec
=============================================================================
