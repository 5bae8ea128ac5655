------------------------ MODULE EventBridgePublisher ------------------------
(***************************************************************************)
(* EventBridgeAuditPublisher.publish of the audit SDK: one PutEvents call  *)
(* with one entry, raced against a timeout and the caller's abort signal.  *)
(*                                                                         *)
(* JavaScript runs one callback at a time and drains the promise jobs a    *)
(* callback has queued before the next one starts.  So the first of the    *)
(* three events (transport settles, timer fires, caller aborts) decides    *)
(* the race, and what follows up to the return of publish belongs to the   *)
(* same action.  The event may have been taken by the bus in the meantime: *)
(* what a result says about the bus is what this module is about.          *)
(***************************************************************************)
EXTENDS Naturals

CONSTANTS
  Calls,          \* calls of publish; each has its own event
  Signalled,      \* calls whose caller passes an abort signal
  InvalidEvents,  \* calls whose event violates the audit contract
  Responses,      \* the PutEvents responses the transport may deliver
  None

\* The parts of a PutEvents response the code looks at: the number of entries, the
\* failure count and whether it is there, and the fields of the first entry.
Response == [entries : 0..2, counted : BOOLEAN, failed : 0..2,
             eventId : {"absent", "blank", "given"},
             code : {"absent", "blank", "ThrottlingException", "InternalFailure",
                     "AccessDeniedException", "OtherCode"},
             message : {"absent", "given"}]

ErrorNames == {"ThrottlingException", "TooManyRequestsException", "InvalidArgument",
               "InvalidParameterException", "ResourceNotFoundException",
               "AccessDeniedException", "OtherError"}

ASSUME SignalledAssumption == Signalled \subseteq Calls
ASSUME ResponsesAssumption == Responses \subseteq Response

FailureReason == {"timeout", "aborted", "rejected", "throttled", "configuration", "unavailable"}
PublishResult == [accepted : {TRUE}, reason : {"none"}]
                   \cup [accepted : {FALSE}, reason : FailureReason]

Accept == [accepted |-> TRUE, reason |-> "none"]
RejectFor(reason) == [accepted |-> FALSE, reason |-> reason]

ASSUME NoneIsNoResult == None \notin PublishResult

VARIABLES
  call,       \* state of each call: idle, racing, returned or threw
  result,     \* what publish returned
  timers,     \* calls whose timeout is armed
  listeners,  \* calls with a listener on the caller's signal
  aborted,    \* calls whose caller has aborted
  requests,   \* calls whose send() promise is pending
  bus         \* what the bus has done with the event of each call

publisherVars == <<call, result, timers, listeners, aborted, requests, bus>>

CallState == {"idle", "racing", "returned", "threw"}
BusState == {"nothing", "asked", "taken", "refused"}

PublisherInit ==
  /\ call = [c \in Calls |-> "idle"]
  /\ result = [c \in Calls |-> None]
  /\ timers = {}
  /\ listeners = {}
  /\ aborted = {}
  /\ requests = {}
  /\ bus = [c \in Calls |-> "nothing"]

DetermineReason(code) ==
  CASE code = "ThrottlingException"   -> "throttled"
    [] code = "InternalFailure"       -> "unavailable"
    [] code = "AccessDeniedException" -> "configuration"
    [] OTHER                          -> "rejected"

\* Mutant: a response that counts no failure is a success whatever the entry says.
InspectCountOnly(resp) ==
  IF resp.counted /\ resp.failed = 0 THEN Accept ELSE RejectFor("unavailable")

SaysTaken(resp) ==
  resp.failed = 0 /\ resp.code = "absent" /\ resp.message = "absent" /\ resp.eventId = "given"

SaysRefused(resp) ==
  resp.failed = 1 /\ resp.eventId = "absent" /\ resp.code \notin {"absent", "blank"}
                  /\ resp.message # "absent"

\* Unknown and contradictory responses fail closed.
InspectPutEventsResponse(resp) ==
  IF resp.entries # 1 \/ ~resp.counted THEN RejectFor("unavailable")
  ELSE IF SaysTaken(resp) THEN Accept
  ELSE IF SaysRefused(resp) THEN RejectFor(DetermineReason(resp.code))
  ELSE RejectFor("unavailable")

ClassifyTransportError(name) ==
  CASE name \in {"ThrottlingException", "TooManyRequestsException"} -> "throttled"
    [] name \in {"InvalidArgument", "InvalidParameterException",
                 "ResourceNotFoundException", "AccessDeniedException"} -> "configuration"
    [] OTHER -> "unavailable"

\* Mutant: the abort listener is removed only by the abort itself ({ once: true }).
CleanupTimer(c) == timers' = timers \ {c} /\ UNCHANGED listeners

\* The finally block: the timeout and the abort listener are removed on every way out.
Cleanup(c) ==
  /\ timers' = timers \ {c}
  /\ listeners' = listeners \ {c}

\* publish returns `res`; the send() promise may still be pending.
ReturnWith(c, res) ==
  /\ call' = [call EXCEPT ![c] = "returned"]
  /\ result' = [result EXCEPT ![c] = res]
  /\ Cleanup(c)

\* assertValidAuthenticationAuditEvent throws.
PublishInvalidEvent(c) ==
  /\ call[c] = "idle" /\ c \in InvalidEvents
  /\ call' = [call EXCEPT ![c] = "threw"]
  /\ UNCHANGED <<result, timers, listeners, aborted, requests, bus>>

\* The signal was aborted before the call: nothing is sent.
PublishAlreadyAborted(c) ==
  /\ call[c] = "idle" /\ c \notin InvalidEvents
  /\ c \in aborted
  /\ ReturnWith(c, RejectFor("aborted"))
  /\ UNCHANGED <<aborted, requests, bus>>

\* Mutant: the timeout is left to the transport.
PublishWithoutTimeout(c) ==
  /\ call[c] = "idle" /\ c \notin InvalidEvents
  /\ c \notin aborted
  /\ call' = [call EXCEPT ![c] = "racing"]
  /\ listeners' = listeners \cup ({c} \cap Signalled)
  /\ requests' = requests \cup {c}
  /\ bus' = [bus EXCEPT ![c] = "asked"]
  /\ UNCHANGED <<result, timers, aborted>>

\* The listener and the timeout are set before the request is sent.
Publish(c) ==
  /\ call[c] = "idle" /\ c \notin InvalidEvents
  /\ c \notin aborted
  /\ call' = [call EXCEPT ![c] = "racing"]
  /\ timers' = timers \cup {c}
  /\ listeners' = listeners \cup ({c} \cap Signalled)
  /\ requests' = requests \cup {c}
  /\ bus' = [bus EXCEPT ![c] = "asked"]
  /\ UNCHANGED <<result, aborted>>

\* The client throws before it has sent anything; the finally block runs.
SendThrows(c) ==
  /\ call[c] = "idle" /\ c \notin InvalidEvents
  /\ c \notin aborted
  /\ call' = [call EXCEPT ![c] = "threw"]
  /\ UNCHANGED <<result, timers, listeners, aborted, requests, bus>>

\* The bus takes the event or refuses it, in its own time.
BusDecides(c, fate) ==
  /\ bus[c] = "asked"
  /\ bus' = [bus EXCEPT ![c] = fate]
  /\ UNCHANGED <<call, result, timers, listeners, aborted, requests>>

\* A response that follows the PutEvents contract tells what became of the entry.
WellFormed(resp) ==
  /\ resp.entries = 1 /\ resp.counted /\ resp.failed \in {0, 1}
  /\ resp.eventId = (IF resp.failed = 0 THEN "given" ELSE "absent")
  /\ (resp.code = "absent") = (resp.failed = 0) /\ resp.code # "blank"
  /\ (resp.message = "absent") = (resp.failed = 0)

TruthfulResponse(c, resp) ==
  /\ bus[c] \in {"taken", "refused"}
  /\ WellFormed(resp) => (bus[c] = "taken") = (resp.failed = 0)

\* An error of the service refuses the request; other errors leave the event's fate open.
TruthfulError(c, name) == name # "OtherError" => bus[c] = "refused"

\* send() resolves while publish still waits for it.
TransportResponds(c, resp) ==
  /\ c \in requests /\ call[c] = "racing"
  /\ TruthfulResponse(c, resp)
  /\ requests' = requests \ {c}
  /\ ReturnWith(c, InspectPutEventsResponse(resp))
  /\ UNCHANGED <<aborted, bus>>

\* send() rejects while publish still waits for it.
TransportFails(c, name) ==
  /\ c \in requests /\ call[c] = "racing"
  /\ TruthfulError(c, name)
  /\ requests' = requests \ {c}
  /\ ReturnWith(c, RejectFor(ClassifyTransportError(name)))
  /\ UNCHANGED <<aborted, bus>>

\* The timeout resolves the boundary and then aborts the request.
TimeoutFires(c) ==
  /\ c \in timers
  /\ ReturnWith(c, RejectFor("timeout"))
  /\ UNCHANGED <<aborted, requests, bus>>

\* The caller aborts: before the call, during the race, or after its end.
CallerAborts(c) ==
  /\ c \in Signalled \ aborted
  /\ aborted' = aborted \cup {c}
  /\ IF c \in listeners
     THEN ReturnWith(c, RejectFor("aborted"))
     ELSE UNCHANGED <<call, result, timers, listeners>>
  /\ UNCHANGED <<requests, bus>>

\* The aborted send() settles after publish has returned; nobody waits for it.
LateAnswer(c) ==
  /\ c \in requests /\ call[c] # "racing"
  /\ requests' = requests \ {c}
  /\ UNCHANGED <<call, result, timers, listeners, aborted, bus>>

TransportStep(c) ==
  \/ \E fate \in {"taken", "refused"} : BusDecides(c, fate)
  \/ \E resp \in Responses : TransportResponds(c, resp)
  \/ \E name \in ErrorNames : TransportFails(c, name)
  \/ TimeoutFires(c)
  \/ LateAnswer(c)

PublisherNext ==
  \E c \in Calls :
    \/ PublishInvalidEvent(c)
    \/ PublishAlreadyAborted(c)
    \/ Publish(c)
    \/ SendThrows(c)
    \/ CallerAborts(c)
    \/ TransportStep(c)

\* Only the timer is fair: the bus may never answer.
PublisherSpec ==
  PublisherInit /\ [][PublisherNext]_publisherVars
                /\ \A c \in Calls : WF_publisherVars(TimeoutFires(c))

(***************************************************************************)
(* Properties                                                              *)
(***************************************************************************)

\* Every variable has its type.
PublisherTypeOK ==
  /\ call \in [Calls -> CallState]
  /\ result \in [Calls -> PublishResult \cup {None}]
  /\ timers \subseteq Calls
  /\ listeners \subseteq Signalled
  /\ aborted \subseteq Signalled
  /\ requests \subseteq Calls
  /\ bus \in [Calls -> BusState]

\* An accepted result is a promise: the bus has the event.  A malformed or
\* contradictory response, a late one, or one of a refused entry never counts
\* as acceptance (inspect-put-events-response.ts).
AcceptedMeansTaken ==
  \A c \in Calls : result[c] # None /\ result[c].accepted => bus[c] = "taken"

\* Of the failure reasons only timeout, aborted and unavailable leave it open
\* whether the event was delivered; the other three are verdicts of the bus, and an
\* operator may act on them (classifyTransportError, determineReason).
VerdictReasons == {"rejected", "throttled", "configuration"}
VerdictMeansRefused ==
  \A c \in Calls : result[c] # None /\ result[c].reason \in VerdictReasons => bus[c] = "refused"

\* The result tells what the bus did, as far as it claims to know.
ResultsAreTrue == AcceptedMeansTaken /\ VerdictMeansRefused

\* A timeout and an abort listener exist only while the race is on: a call that
\* has ended leaves nothing behind on the event loop or on the caller's signal
\* (the finally block of publish).
NothingLeftBehind ==
  /\ timers = {c \in Calls : call[c] = "racing"}
  /\ listeners = {c \in Signalled : call[c] = "racing"}

\* What publish has returned never changes, whatever the transport, the timer and
\* the caller do afterwards.
ResultIsFinal ==
  [][\A c \in Calls : call[c] \in {"returned", "threw"} =>
        call'[c] = call[c] /\ result'[c] = result[c]]_publisherVars
=============================================================================
