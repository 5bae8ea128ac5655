----------------------------- MODULE InMemoryWork -----------------------------
(***************************************************************************)
(* The in-memory profile: the processor over the in-memory work repository *)
(* and the store both in-memory repositories share.  There is no database, *)
(* no transaction and no unique index; what a call does between two awaits *)
(* is one turn of the event loop, and one action here.  Other turns run    *)
(* in between: heartbeats, new requests, and other passes if there are any.*)
(*                                                                         *)
(* All calls but confirm finish in one turn.  Confirm checks the claim and *)
(* looks for a conflict in one turn and writes in the next one, without    *)
(* looking again.  The service runs a single pass at a time over its store *)
(* (one fake worker, which polls again when the pass has ended); with more *)
(* passes deployed one sees what that is worth.                            *)
(*                                                                         *)
(* The store is gone with its process, so nothing survives a crash.  The   *)
(* lease is abstracted to whether it has run out: any moment will do.      *)
(* Reservation ids are fresh UUIDs and never collide.                      *)
(***************************************************************************)
EXTENDS Integers, Sequences, FiniteSets

CONSTANTS
  Requests,              \* ids of the requests users may submit
  Seats,                 \* (screening, seat) pairs
  Passes,                \* processing passes
  Deployments,           \* sets of passes that run over one store, and the requests
                         \* whose commit the failure policy blocks
  MaxLeaseTimeouts,      \* RESERVATION_WORKER_MAX_LEASE_TIMEOUTS
  MaxTransientFailures,  \* RESERVATION_WORKER_MAX_TRANSIENT_FAILURES
  None

ASSUME NoneAssumption == None \notin Requests
ASSUME DeploymentsAssumption ==
  Deployments \subseteq [passes : SUBSET Passes, injectedFailures : SUBSET Requests]
ASSUME BudgetsAssumption == MaxLeaseTimeouts \in Nat /\ MaxTransientFailures \in Nat \ {0}

VARIABLES
  \* the store
  status,                 \* reservationRequestsById; ABSENT when not in the map
  seats,                  \* the seats of a stored request
  queue,                  \* stored requests by their sequence number
  claimToken,             \* work metadata: 0 when undefined
  expired,                \* requests whose claimExpiresAt has passed
  leaseTimeoutCount,
  transientFailureCount,
  claims,                 \* claim tokens handed out so far
  reservations,           \* reservationsById in insertion order: <<request, seats>>
  attempts,               \* processingAttemptsByReservationRequestId
  \* the passes
  deployed,               \* the deployment that uses this store
  pc,                     \* the await a pass is in
  item,                   \* the claimed work item it holds
  conflict,               \* what its last conflict lookup returned
  \* history
  together                \* sets of requests whose confirms were open at once

rowVars == <<status, seats, queue, claimToken, expired, leaseTimeoutCount,
             transientFailureCount, claims>>
bookVars == <<reservations, attempts>>
passVars == <<pc, item, conflict>>
vars == <<rowVars, bookVars, passVars, deployed, together>>

-----------------------------------------------------------------------------
RequestStatus == {"ABSENT", "REQUESTED", "PROCESSING", "CONFIRMED", "REJECTED", "FAILED"}
TerminalStatus == {"CONFIRMED", "REJECTED", "FAILED"}

Outcomes == {"confirmed", "rejected", "unexpected-error", "lease-timeout"}
Attempt == [outcome : Outcomes, conflict : Requests \cup {None}]

WorkItem == [request : Requests \cup {None}, claimToken : Nat, transientFailureCount : Nat]
NoItem == [request |-> None, claimToken |-> 0, transientFailureCount |-> 0]

\* A pass waits for its claim ("claimed"), its conflict lookup ("looked"), the
\* lookup inside confirm ("confirming"), or for a call that threw ("recovering").
PassState == {"idle", "claimed", "looked", "confirming", "recovering"}

Init ==
  /\ status = [r \in Requests |-> "ABSENT"]
  /\ seats = [r \in Requests |-> {}]
  /\ queue = <<>>
  /\ claimToken = [r \in Requests |-> 0]
  /\ expired = {}
  /\ leaseTimeoutCount = [r \in Requests |-> 0]
  /\ transientFailureCount = [r \in Requests |-> 0]
  /\ claims = [r \in Requests |-> 0]
  /\ reservations = <<>>
  /\ attempts = [r \in Requests |-> <<>>]
  /\ deployed \in Deployments
  /\ pc = [p \in Passes |-> "idle"]
  /\ item = [p \in Passes |-> NoItem]
  /\ conflict = [p \in Passes |-> None]
  /\ together = {}

-----------------------------------------------------------------------------
(* The store. *)

\* saveReservationRequest allocates the next sequence number with the request.
Submit(r, wanted) ==
  /\ status[r] = "ABSENT"
  /\ wanted # {}
  /\ status' = [status EXCEPT ![r] = "REQUESTED"]
  /\ seats' = [seats EXCEPT ![r] = wanted]
  /\ queue' = Append(queue, r)
  /\ UNCHANGED <<claimToken, expired, leaseTimeoutCount, transientFailureCount, claims,
                 bookVars, passVars>>

\* isExpiredProcessingRequest
Expired(r) == status[r] = "PROCESSING" /\ r \in expired

\* Mutant: a request whose processing has stopped is never claimed again.
ClaimableOnce(r) == status[r] = "REQUESTED" /\ transientFailureCount[r] < MaxTransientFailures

\* Mutant: the scan skips only requests that are being worked on.
ClaimableUnlessHeld(r) ==
  \/ status[r] \notin {"ABSENT", "PROCESSING"} /\ transientFailureCount[r] < MaxTransientFailures
  \/ Expired(r)

Claimable(r) ==
  \/ status[r] = "REQUESTED" /\ transientFailureCount[r] < MaxTransientFailures
  \/ Expired(r)

\* Mutant: the scan keeps the last request it meets instead of the lowest.
LatestInQueue(r) ==
  \E i \in 1..Len(queue) :
    /\ queue[i] = r /\ Claimable(r)
    /\ \A j \in (i + 1)..Len(queue) : ~Claimable(queue[j])

\* The claimable request with the lowest sequence number.
NextInQueue(r) ==
  \E i \in 1..Len(queue) :
    /\ queue[i] = r /\ Claimable(r)
    /\ \A j \in 1..(i - 1) : ~Claimable(queue[j])

Overlaps(i, r) == reservations[i][2] \cap seats[r] # {}

\* findConflictingConfirmedReservation: the first reservation in the map with one
\* of the seats.
FirstConflict(r) ==
  IF \A i \in 1..Len(reservations) : ~Overlaps(i, r) THEN None
  ELSE LET i == CHOOSE i \in 1..Len(reservations) :
                  Overlaps(i, r) /\ \A j \in 1..(i - 1) : ~Overlaps(j, r)
       IN reservations[i][1]

\* requireClaimedProcessingRequest
Owns(p) ==
  /\ status[item[p].request] = "PROCESSING"
  /\ claimToken[item[p].request] = item[p].claimToken

\* The request gets its new status and clearClaimMetadata drops the lease.
MoveTo(r, newStatus) ==
  /\ status' = [status EXCEPT ![r] = newStatus]
  /\ claimToken' = [claimToken EXCEPT ![r] = 0]
  /\ expired' = expired \ {r}
  /\ UNCHANGED <<seats, queue, claims>>

Record(r, outcome, with) ==
  attempts' = [attempts EXCEPT ![r] = Append(@, [outcome |-> outcome, conflict |-> with])]

EndPass(p) ==
  /\ pc' = [pc EXCEPT ![p] = "idle"]
  /\ item' = [item EXCEPT ![p] = NoItem]
  /\ conflict' = [conflict EXCEPT ![p] = None]

Goto(p, next) == pc' = [pc EXCEPT ![p] = next] /\ UNCHANGED <<item, conflict>>

-----------------------------------------------------------------------------
(* claimNextPendingReservationRequest: one turn, scan and write together. *)

\* Mutant: the budget is checked for every claim and not only for a reclaim.
TimedOutTooOften(r) == leaseTimeoutCount[r] >= MaxLeaseTimeouts

LeaseBudgetSpent(r) == Expired(r) /\ leaseTimeoutCount[r] >= MaxLeaseTimeouts

Claim(p) ==
  /\ pc[p] = "idle"
  /\ \E r \in Requests :
       /\ NextInQueue(r) /\ ~LeaseBudgetSpent(r)
       /\ status' = [status EXCEPT ![r] = "PROCESSING"]
       /\ claims' = [claims EXCEPT ![r] = @ + 1]
       /\ claimToken' = [claimToken EXCEPT ![r] = claims[r] + 1]
       /\ expired' = expired \ {r}
       /\ leaseTimeoutCount' = [leaseTimeoutCount EXCEPT ![r] = IF Expired(r) THEN @ + 1 ELSE @]
       /\ item' = [item EXCEPT ![p] = [request |-> r, claimToken |-> claims[r] + 1,
                                       transientFailureCount |-> transientFailureCount[r]]]
  /\ pc' = [pc EXCEPT ![p] = "claimed"]
  /\ UNCHANGED <<seats, queue, transientFailureCount, bookVars, conflict>>

\* failExpiredClaimAfterLeaseTimeoutBudget; the pass hears of no request.
FailExpiredClaim(p) ==
  /\ pc[p] = "idle"
  /\ \E r \in Requests :
       /\ NextInQueue(r) /\ LeaseBudgetSpent(r)
       /\ MoveTo(r, "FAILED")
       /\ Record(r, "lease-timeout", None)
  /\ UNCHANGED <<leaseTimeoutCount, transientFailureCount, reservations, passVars>>

-----------------------------------------------------------------------------
(* The pass: one action per turn between two awaits. *)

LookForConflict(p) ==
  /\ pc[p] = "claimed"
  /\ pc' = [pc EXCEPT ![p] = "looked"]
  /\ conflict' = [conflict EXCEPT ![p] = FirstConflict(item[p].request)]
  /\ UNCHANGED <<rowVars, bookVars, item>>

Reject(p) ==
  /\ pc[p] = "looked"
  /\ conflict[p] # None
  /\ Owns(p)
  /\ MoveTo(item[p].request, "REJECTED")
  /\ Record(item[p].request, "rejected", conflict[p])
  /\ EndPass(p)
  /\ UNCHANGED <<leaseTimeoutCount, transientFailureCount, reservations>>

\* The failure policy throws SeatReservationCommitError.
PolicyBlocksCommit(p) ==
  /\ pc[p] = "looked"
  /\ conflict[p] = None
  /\ item[p].request \in deployed.injectedFailures
  /\ Goto(p, "recovering")
  /\ UNCHANGED <<rowVars, bookVars>>

\* Mutant: confirm relies on the lookup the pass has made before.
ConfirmOnEarlierLookup(p) ==
  /\ pc[p] = "looked"
  /\ conflict[p] = None
  /\ item[p].request \notin deployed.injectedFailures
  /\ Owns(p)
  /\ Goto(p, "confirming")
  /\ UNCHANGED <<rowVars, bookVars>>

\* confirmClaimedReservationRequest up to its await: the claim is checked and the
\* conflict looked up for the second time.
BeginConfirm(p) ==
  /\ pc[p] = "looked"
  /\ conflict[p] = None
  /\ item[p].request \notin deployed.injectedFailures
  /\ Owns(p)
  /\ pc' = [pc EXCEPT ![p] = "confirming"]
  /\ conflict' = [conflict EXCEPT ![p] = FirstConflict(item[p].request)]
  /\ UNCHANGED <<rowVars, bookVars, item>>

\* ... and after it: the writes, whatever has happened to the request meanwhile.
FinishConfirm(p) ==
  /\ pc[p] = "confirming"
  /\ LET r == item[p].request IN
       \/ /\ conflict[p] = None
          /\ reservations' = Append(reservations, <<r, seats[r]>>)
          /\ MoveTo(r, "CONFIRMED")
          /\ Record(r, "confirmed", None)
       \/ /\ conflict[p] # None
          /\ MoveTo(r, "REJECTED")
          /\ Record(r, "rejected", conflict[p])
          /\ UNCHANGED reservations
  /\ EndPass(p)
  /\ UNCHANGED <<leaseTimeoutCount, transientFailureCount>>

HasRetriesLeft(p) == item[p].transientFailureCount + 1 < MaxTransientFailures

\* handleUnexpectedFailure: release for a retry, or fail.
HandleFailure(p) ==
  /\ pc[p] = "recovering"
  /\ Owns(p)
  /\ LET r == item[p].request IN
       /\ MoveTo(r, IF HasRetriesLeft(p) THEN "REQUESTED" ELSE "FAILED")
       /\ transientFailureCount' = [transientFailureCount EXCEPT ![r] = @ + 1]
       /\ Record(r, "unexpected-error", None)
  /\ EndPass(p)
  /\ UNCHANGED <<leaseTimeoutCount, reservations>>

\* requireClaimedProcessingRequest throws; nothing catches it in the handler.
ClaimLost(p) ==
  /\ pc[p] \in {"looked", "recovering"}
  /\ pc[p] = "looked" => conflict[p] # None \/ item[p].request \notin deployed.injectedFailures
  /\ ~Owns(p)
  /\ IF pc[p] = "recovering" THEN EndPass(p) ELSE Goto(p, "recovering")
  /\ UNCHANGED <<rowVars, bookVars>>

\* Recording the claim or opening its span throws, outside the try block.
PassThrows(p) ==
  /\ pc[p] = "claimed"
  /\ EndPass(p)
  /\ UNCHANGED <<rowVars, bookVars>>

-----------------------------------------------------------------------------
(* Leases. *)

\* heartbeatClaimedReservationRequest renews the lease if the claim is current.
Heartbeat(p) ==
  /\ pc[p] # "idle"
  /\ Owns(p)
  /\ expired' = expired \ {item[p].request}
  /\ UNCHANGED <<status, seats, queue, claimToken, leaseTimeoutCount,
                 transientFailureCount, claims, bookVars, passVars>>

LeaseRunsOut(r) ==
  /\ status[r] = "PROCESSING"
  /\ expired' = expired \cup {r}
  /\ UNCHANGED <<status, seats, queue, claimToken, leaseTimeoutCount,
                 transientFailureCount, claims, bookVars, passVars>>

-----------------------------------------------------------------------------
PassTurn(p) ==
  \/ Claim(p)
  \/ FailExpiredClaim(p)
  \/ LookForConflict(p)
  \/ Reject(p)
  \/ PolicyBlocksCommit(p)
  \/ BeginConfirm(p)
  \/ FinishConfirm(p)
  \/ HandleFailure(p)
  \/ ClaimLost(p)

Turn ==
  \/ \E r \in Requests, wanted \in SUBSET Seats : Submit(r, wanted)
  \/ \E p \in deployed.passes : PassTurn(p) \/ PassThrows(p) \/ Heartbeat(p)
  \/ \E r \in Requests : LeaseRunsOut(r)

\* Confirms are open together when both passes are between lookup and write.
OpenTogether ==
  {open \in SUBSET Requests :
     \E p, q \in Passes : /\ p # q
                          /\ pc[p] = "confirming" /\ pc[q] = "confirming"
                          /\ open = {item[p].request, item[q].request}}

Remember == together' = together \cup OpenTogether'

Note == Remember /\ UNCHANGED deployed

Next == Turn /\ Note

Spec == Init /\ [][Next]_vars

\* Polls go on, promise jobs run, leases run out.  Passes may throw for ever, but
\* not from some point on every pass before its conflict lookup: SF.
Fairness ==
  /\ \A p \in Passes : WF_vars(p \in deployed.passes /\ PassTurn(p) /\ Note)
  /\ \A p \in Passes : SF_vars(p \in deployed.passes /\ LookForConflict(p) /\ Note)
  /\ \A r \in Requests : WF_vars(LeaseRunsOut(r) /\ Note)

FairSpec == Spec /\ Fairness

-----------------------------------------------------------------------------
(* Properties. *)

StateTypes ==
  /\ status \in [Requests -> RequestStatus]
  /\ seats \in [Requests -> SUBSET Seats]
  /\ queue \in Seq(Requests)
  /\ claimToken \in [Requests -> Nat]
  /\ expired \subseteq Requests
  /\ leaseTimeoutCount \in [Requests -> Nat]
  /\ transientFailureCount \in [Requests -> Nat]
  /\ claims \in [Requests -> Nat]
  /\ reservations \in Seq(Requests \X SUBSET Seats)
  /\ attempts \in [Requests -> Seq(Attempt)]
  /\ pc \in [Passes -> PassState]
  /\ item \in [Passes -> WorkItem]
  /\ conflict \in [Passes -> Requests \cup {None}]
  /\ \A p \in Passes : pc[p] # "idle" => item[p].request \in Requests

\* Every variable has its type, and a pass that holds a claim names its request.
TypeOK == StateTypes /\ deployed \in Deployments /\ together \subseteq SUBSET Requests

\* The only window of the in-memory confirm is its await: two reservations share
\* a seat only if both were written by confirms that were open at the same time.
DoubleBookingNeedsOpenConfirms ==
  \A i, j \in 1..Len(reservations) :
    i < j /\ reservations[i][2] \cap reservations[j][2] # {} =>
      {reservations[i][1], reservations[j][1]} \in together

SinglePass == \E p \in Passes : deployed.passes = {p}

\* With the single pass of the service, a stored reservation belongs to a CONFIRMED
\* request and holds its seats, and every CONFIRMED request has one: queries on
\* either map agree.
ReservationIffConfirmed ==
  SinglePass =>
    \A r \in Requests :
      status[r] = "CONFIRMED" <=>
        \E i \in 1..Len(reservations) : reservations[i] = <<r, seats[r]>>

Failures(r) == Cardinality({i \in 1..Len(attempts[r]) : attempts[r][i].outcome = "unexpected-error"})

\* Both budgets are kept, every failure is counted once, and a request that waits
\* can still be claimed: none is stranded as REQUESTED with its budget spent.
RetryBudgets ==
  \A r \in Requests :
    /\ transientFailureCount[r] = Failures(r)
    /\ leaseTimeoutCount[r] <= MaxLeaseTimeouts
    /\ status[r] = "REQUESTED" => transientFailureCount[r] < MaxTransientFailures
    /\ status[r] = "FAILED" => \/ transientFailureCount[r] = MaxTransientFailures
                              \/ leaseTimeoutCount[r] = MaxLeaseTimeouts

\* Requests, reservations, history and counters of the maps tell the same story.
MapsAgree == TypeOK /\ ReservationIffConfirmed /\ RetryBudgets

\* First come, first served: a request is claimed for the first time only after
\* every request with a lower sequence number has been claimed at least once.
FirstComeFirstServed ==
  \A i, j \in 1..Len(queue) : i < j /\ claims[queue[j]] > 0 => claims[queue[i]] > 0

Lifecycle == INSTANCE ReservationLifecycle

\* With the single pass of the service the in-memory profile implements the same
\* life of a request as the tables do.
ImplementsLifecycle ==
  Lifecycle!Init /\ [][SinglePass => Lifecycle!Next]_<<status, seats>>

\* Every stored request is answered, although passes throw and leases run out.
EveryRequestAnswered ==
  \A r \in Requests : status[r] = "REQUESTED" ~> status[r] \in TerminalStatus
=============================================================================
