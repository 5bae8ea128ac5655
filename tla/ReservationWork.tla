--------------------------- MODULE ReservationWork ---------------------------
(***************************************************************************)
(* The asynchronous processing of reservation requests over PostgreSQL:    *)
(* the reservation_requests, reservations, reservation_seats and           *)
(* reservation_request_processing_attempts tables, and the service         *)
(* processes ("workers") that poll them, claim one request at a time under *)
(* a lease, process it and heartbeat the lease meanwhile.                  *)
(*                                                                         *)
(* Each database transaction is one action, because it locks the request   *)
(* row with FOR UPDATE before it reads it, except for the claim: its row   *)
(* lock is visible to other workers (SKIP LOCKED passes over it, FOR       *)
(* UPDATE waits for it), so it is the two actions Select and CommitClaim / *)
(* FailExpiredClaim.                                                       *)
(*                                                                         *)
(* A request is identified by its sequence number, the identity column.    *)
(* Inserts take a number early and commit in any order, so requests appear *)
(* in any order.  A claim token is a fresh UUID that is only ever compared *)
(* with the tokens of the same request: the n-th claim of a request has    *)
(* token n.  claimed_by is left out, every process claims under the same   *)
(* worker id (use-case.providers.ts:71).                                   *)
(*                                                                         *)
(* Time is kept relative to the present, so that it needs no horizon:      *)
(* claimExpiresIn is claim_expires_at minus the current time, age is the   *)
(* current time minus the clock reading a poll started with.               *)
(***************************************************************************)
EXTENDS Integers, Sequences, FiniteSets

CONSTANTS
  Requests,              \* sequence numbers of the requests users may submit
  Seats,                 \* (screening, seat) pairs
  Workers,               \* service processes running the fake worker
  InjectedFailures,      \* requests whose commit the failure policy blocks
  MaxLeaseTimeouts,      \* RESERVATION_WORKER_MAX_LEASE_TIMEOUTS
  MaxTransientFailures,  \* RESERVATION_WORKER_MAX_TRANSIENT_FAILURES
  Lease,                 \* claim lease, in ticks
  Skew,                  \* how far a process clock may be off, in ticks
  MaxLag,                \* bound: ticks between reading the clock and claiming
  MaxBeats               \* bound: heartbeat updates in flight

None == 0

ASSUME RequestsAssumption == Requests \subseteq Nat \ {None}
ASSUME FailuresAssumption == InjectedFailures \subseteq Requests
ASSUME BudgetsAssumption ==
  /\ MaxLeaseTimeouts \in Nat
  /\ MaxTransientFailures \in Nat \ {0}
ASSUME TimeAssumption ==
  /\ Lease \in Nat \ {0}
  /\ Skew \in Nat
  /\ MaxLag \in Nat
  /\ MaxBeats \in Nat

VARIABLES
  \* reservation_requests
  status,                 \* status; ABSENT before the row is inserted
  seats,                  \* reservation_request_seats of the request
  claimToken,             \* claim_token; None when null
  claimExpiresIn,         \* claim_expires_at, relative to now; 0 when null
  leaseTimeoutCount,      \* lease_timeout_count
  transientFailureCount,  \* transient_failure_count
  claims,                 \* claim tokens handed out so far
  \* reservations, reservation_seats and processing attempts
  reservations,           \* requests that have a reservation row
  reservationSeats,       \* <<request, seat>> rows of reservation_seats
  attempts,               \* processing attempts of a request, in append order
  \* the processes
  pc,                     \* where the worker's processing pass stands
  age,                    \* how long ago the pass read its clock
  item,                   \* the claimed work item the pass holds
  conflict,               \* the reservation its conflict lookup returned
  beats                   \* heartbeat updates sent and not yet executed

rowVars == <<status, seats, claimToken, claimExpiresIn, leaseTimeoutCount,
             transientFailureCount, claims>>
bookVars == <<reservations, reservationSeats, attempts>>
workerVars == <<pc, age, item, conflict>>
vars == <<rowVars, bookVars, workerVars, beats>>

-----------------------------------------------------------------------------
RequestStatus == {"ABSENT", "REQUESTED", "PROCESSING", "CONFIRMED", "REJECTED", "FAILED"}
TerminalStatus == {"CONFIRMED", "REJECTED", "FAILED"}

\* A processing attempt names how the pass ended; "claim" is the token of the
\* claim it was recorded under.
Outcomes == {"confirmed", "rejected", "unexpected-error", "lease-timeout"}
Attempt == [claim : Nat, outcome : Outcomes, conflict : Requests \cup {None}]

\* The claimed work item is a snapshot the pass keeps until it ends.
WorkItem == [request : Requests \cup {None}, claimToken : Nat, transientFailureCount : Nat]
NoItem == [request |-> None, claimToken |-> 0, transientFailureCount |-> 0]

Beat == [request : Requests, claimToken : Nat, expiresIn : Int]

\* "selected" is inside the claim transaction, row lock held.  The passes that
\* hold a work item are looking for a conflict ("claimed"), inside the reject or
\* confirm call ("rejecting", "confirming"), translating a seat unique violation
\* ("conflicted", "translating"), or handling an exception ("recovering").
Holding == {"claimed", "rejecting", "confirming", "conflicted", "translating", "recovering"}
PassState == {"idle", "polling", "selected", "down"} \cup Holding

\* Passes whose call locks the request row before reading it.
RowLocking == {"rejecting", "confirming", "translating", "recovering"}

Init ==
  /\ status = [r \in Requests |-> "ABSENT"]
  /\ seats = [r \in Requests |-> {}]
  /\ claimToken = [r \in Requests |-> None]
  /\ claimExpiresIn = [r \in Requests |-> 0]
  /\ leaseTimeoutCount = [r \in Requests |-> 0]
  /\ transientFailureCount = [r \in Requests |-> 0]
  /\ claims = [r \in Requests |-> 0]
  /\ reservations = {}
  /\ reservationSeats = {}
  /\ attempts = [r \in Requests |-> <<>>]
  /\ pc = [w \in Workers |-> "idle"]
  /\ age = [w \in Workers |-> 0]
  /\ item = [w \in Workers |-> NoItem]
  /\ conflict = [w \in Workers |-> None]
  /\ beats = {}

-----------------------------------------------------------------------------
(* Row predicates and updates. *)

\* The lease has run out by the clock reading the pass started with.
Expired(r, w) == status[r] = "PROCESSING" /\ claimExpiresIn[r] <= -age[w]

\* Mutant: the reclaim branch is missing.
ClaimableOnce(r, w) == status[r] = "REQUESTED" /\ transientFailureCount[r] < MaxTransientFailures

Claimable(r, w) ==
  \/ status[r] = "REQUESTED" /\ transientFailureCount[r] < MaxTransientFailures
  \/ Expired(r, w)

\* A claim transaction has the row locked ...
RowLocked(r) == \E v \in Workers : pc[v] = "selected" /\ item[v].request = r

\* ... and a short statement of another process may have it locked right now.
MayBeLocked(r, w) ==
  \/ \E v \in Workers \ {w} : pc[v] \in RowLocking /\ item[v].request = r
  \/ \E b \in beats : b.request = r

\* Mutant: only the existence of the row is checked.
OwnsByExistence(w) == status[item[w].request] # "ABSENT"

\* requireClaimedProcessingRequest: the row still belongs to this work item.
Owns(w) ==
  /\ status[item[w].request] = "PROCESSING"
  /\ claimToken[item[w].request] = item[w].claimToken

\* Mutant: the lookup compares screenings and not seats.
AnyReservation(r) == reservations

\* Confirmed reservations that hold one of the seats the request asks for.
ConflictingReservations(r) ==
  {q \in reservations : \E s \in seats[r] : <<q, s>> \in reservationSeats}

\* Leaving PROCESSING clears the lease columns.
MoveTo(r, newStatus) ==
  /\ status' = [status EXCEPT ![r] = newStatus]
  /\ claimToken' = [claimToken EXCEPT ![r] = None]
  /\ claimExpiresIn' = [claimExpiresIn EXCEPT ![r] = 0]
  /\ UNCHANGED <<seats, claims>>

\* Mutant: errors that will be retried leave no attempt.
RecordOnlyOutcomes(r, claim, outcome, with) ==
  attempts' = [attempts EXCEPT ![r] =
                 IF outcome = "unexpected-error" THEN @
                 ELSE Append(@, [claim |-> claim, outcome |-> outcome, conflict |-> with])]

Record(r, claim, outcome, with) ==
  attempts' = [attempts EXCEPT ![r] =
                 Append(@, [claim |-> claim, outcome |-> outcome, conflict |-> with])]

\* The pass is over; the next poll is scheduled.
EndPass(w, next) ==
  /\ pc' = [pc EXCEPT ![w] = next]
  /\ age' = [age EXCEPT ![w] = 0]
  /\ item' = [item EXCEPT ![w] = NoItem]
  /\ conflict' = [conflict EXCEPT ![w] = None]

\* The pass goes on with the same work item.
Goto(w, next) ==
  /\ pc' = [pc EXCEPT ![w] = next]
  /\ UNCHANGED <<age, item, conflict>>

\* A commit whose acknowledgement is lost throws although it took effect.
EndPassOrLoseReply(w) == EndPass(w, "idle") \/ Goto(w, "recovering")

-----------------------------------------------------------------------------
(* Intake and polling. *)

\* saveReservationRequest commits the request and its seats.
Submit(r, wanted) ==
  /\ status[r] = "ABSENT"
  /\ wanted # {}
  /\ status' = [status EXCEPT ![r] = "REQUESTED"]
  /\ seats' = [seats EXCEPT ![r] = wanted]
  /\ UNCHANGED <<claimToken, claimExpiresIn, leaseTimeoutCount, transientFailureCount,
                 claims, bookVars, workerVars, beats>>

\* The poll timer fires and the processor reads its clock, before it claims.
StartPoll(w, offset) ==
  /\ pc[w] = "idle"
  /\ pc' = [pc EXCEPT ![w] = "polling"]
  /\ age' = [age EXCEPT ![w] = offset]
  /\ UNCHANGED <<rowVars, bookVars, item, conflict, beats>>

\* FOR UPDATE SKIP LOCKED, lowest sequence first: a lower row is passed over
\* only when another transaction has it locked.
Select(w) ==
  /\ pc[w] = "polling"
  /\ \E r \in Requests :
       /\ Claimable(r, w) /\ ~RowLocked(r)
       /\ \A q \in Requests :
            q < r /\ Claimable(q, w) => RowLocked(q) \/ MayBeLocked(q, w)
       /\ item' = [item EXCEPT ![w] = [NoItem EXCEPT !.request = r]]
  /\ pc' = [pc EXCEPT ![w] = "selected"]
  /\ UNCHANGED <<rowVars, bookVars, age, conflict, beats>>

\* No row qualifies, or all that do are locked: 'no-pending-request'.
FindNothing(w) ==
  /\ pc[w] = "polling"
  /\ \A r \in Requests : Claimable(r, w) => RowLocked(r) \/ MayBeLocked(r, w)
  /\ EndPass(w, "idle")
  /\ UNCHANGED <<rowVars, bookVars, beats>>

\* Mutant: the budget is checked for every claim and not only for a reclaim.
TimedOutTooOften(r) == leaseTimeoutCount[r] >= MaxLeaseTimeouts

LeaseBudgetSpent(r) == status[r] = "PROCESSING" /\ leaseTimeoutCount[r] >= MaxLeaseTimeouts

\* Mutant: a reclaim keeps the token of the claim it takes over.
TokenOrFresh(r) == IF claimToken[r] # None THEN claimToken[r] ELSE claims[r] + 1

FreshToken(r) == claims[r] + 1

\* Mutant: a reclaim is not counted.
LeaseTimeoutsUncounted(r) == leaseTimeoutCount[r]

\* Claiming a row that is still PROCESSING takes it from a holder that timed out.
LeaseTimeoutsAfterClaim(r) ==
  IF status[r] = "PROCESSING" THEN leaseTimeoutCount[r] + 1 ELSE leaseTimeoutCount[r]

CommitClaim(w) ==
  /\ pc[w] = "selected"
  /\ LET r == item[w].request IN
       /\ ~LeaseBudgetSpent(r)
       /\ status' = [status EXCEPT ![r] = "PROCESSING"]
       /\ claims' = [claims EXCEPT ![r] = @ + 1]
       /\ claimToken' = [claimToken EXCEPT ![r] = FreshToken(r)]
       /\ claimExpiresIn' = [claimExpiresIn EXCEPT ![r] = Lease - age[w]]
       /\ leaseTimeoutCount' = [leaseTimeoutCount EXCEPT ![r] = LeaseTimeoutsAfterClaim(r)]
       /\ item' = [item EXCEPT ![w] =
                     [request |-> r,
                      claimToken |-> FreshToken(r),
                      transientFailureCount |-> transientFailureCount[r]]]
  /\ pc' = [pc EXCEPT ![w] = "claimed"]
  /\ age' = [age EXCEPT ![w] = 0]
  /\ UNCHANGED <<seats, transientFailureCount, bookVars, conflict, beats>>

\* The selected row expired once too often: it fails instead of being claimed.
FailExpiredClaim(w) ==
  /\ pc[w] = "selected"
  /\ LET r == item[w].request IN
       /\ LeaseBudgetSpent(r)
       /\ MoveTo(r, "FAILED")
       /\ Record(r, claims[r], "lease-timeout", None)
  /\ EndPass(w, "idle")
  /\ UNCHANGED <<leaseTimeoutCount, transientFailureCount, reservations, reservationSeats, beats>>

-----------------------------------------------------------------------------
(* Processing a claimed work item. *)

FindConflict(w) ==
  /\ pc[w] = "claimed"
  /\ \E q \in ConflictingReservations(item[w].request) :
       conflict' = [conflict EXCEPT ![w] = q]
  /\ pc' = [pc EXCEPT ![w] = "rejecting"]
  /\ UNCHANGED <<rowVars, bookVars, age, item, beats>>

\* No conflict: the failure policy may block the commit, else it is attempted.
FindNoConflict(w) ==
  /\ pc[w] = "claimed"
  /\ ConflictingReservations(item[w].request) = {}
  /\ Goto(w, IF item[w].request \in InjectedFailures THEN "recovering" ELSE "confirming")
  /\ UNCHANGED <<rowVars, bookVars, beats>>

Reject(w) ==
  /\ pc[w] \in {"rejecting", "translating"}
  /\ LET r == item[w].request IN
       /\ ~RowLocked(r)
       /\ Owns(w)
       /\ MoveTo(r, "REJECTED")
       /\ Record(r, item[w].claimToken, "rejected", conflict[w])
  /\ EndPassOrLoseReply(w)
  /\ UNCHANGED <<leaseTimeoutCount, transientFailureCount, reservations, reservationSeats, beats>>

\* Mutant: the index is unique per reservation.
SeatsNotMine(r) == \A s \in seats[r] : <<r, s>> \notin reservationSeats

\* The unique index on (screening_id, seat_id) finds every requested seat free.
SeatsFree(r) == \A s \in seats[r] : ~ \E q \in Requests : <<q, s>> \in reservationSeats

Confirm(w) ==
  /\ pc[w] = "confirming"
  /\ LET r == item[w].request IN
       /\ ~RowLocked(r)
       /\ Owns(w)
       /\ SeatsFree(r)
       /\ reservations' = reservations \cup {r}
       /\ reservationSeats' = reservationSeats \cup ({r} \X seats[r])
       /\ MoveTo(r, "CONFIRMED")
       /\ Record(r, item[w].claimToken, "confirmed", None)
  /\ EndPassOrLoseReply(w)
  /\ UNCHANGED <<leaseTimeoutCount, transientFailureCount, beats>>

\* The seat insert violates the unique index and the transaction rolls back.
ConfirmFindsSeatTaken(w) ==
  /\ pc[w] = "confirming"
  /\ ~RowLocked(item[w].request)
  /\ Owns(w)
  /\ ~SeatsFree(item[w].request)
  /\ Goto(w, "conflicted")
  /\ UNCHANGED <<rowVars, bookVars, beats>>

\* The violation is translated outside the transaction: look the winner up,
\* then reject; without a winner the violation is rethrown.
LookUpWinner(w) ==
  LET found == ConflictingReservations(item[w].request) IN
  /\ pc[w] = "conflicted"
  /\ \E q \in IF found = {} THEN {None} ELSE found :
       /\ conflict' = [conflict EXCEPT ![w] = q]
       /\ pc' = [pc EXCEPT ![w] = IF q = None THEN "recovering" ELSE "translating"]
  /\ UNCHANGED <<rowVars, bookVars, age, item, beats>>

HasRetriesLeft(w) == item[w].transientFailureCount + 1 < MaxTransientFailures

ReleaseForRetry(w) ==
  /\ pc[w] = "recovering"
  /\ HasRetriesLeft(w)
  /\ LET r == item[w].request IN
       /\ ~RowLocked(r)
       /\ Owns(w)
       /\ MoveTo(r, "REQUESTED")
       /\ transientFailureCount' = [transientFailureCount EXCEPT ![r] = @ + 1]
       /\ Record(r, item[w].claimToken, "unexpected-error", None)
  /\ EndPass(w, "idle")
  /\ UNCHANGED <<leaseTimeoutCount, reservations, reservationSeats, beats>>

Fail(w) ==
  /\ pc[w] = "recovering"
  /\ ~HasRetriesLeft(w)
  /\ LET r == item[w].request IN
       /\ ~RowLocked(r)
       /\ Owns(w)
       /\ MoveTo(r, "FAILED")
       /\ transientFailureCount' = [transientFailureCount EXCEPT ![r] = @ + 1]
       /\ Record(r, item[w].claimToken, "unexpected-error", None)
  /\ EndPass(w, "idle")
  /\ UNCHANGED <<leaseTimeoutCount, reservations, reservationSeats, beats>>

-----------------------------------------------------------------------------
(* Exceptions, crashes, heartbeats and time. *)

\* requireClaimedProcessingRequest throws: the claim was lost or has ended.
\* Inside the failure handler nothing catches it and the pass is over.
ClaimLost(w) ==
  /\ pc[w] \in RowLocking
  /\ ~RowLocked(item[w].request)
  /\ ~Owns(w)
  /\ IF pc[w] = "recovering" THEN EndPass(w, "idle") ELSE Goto(w, "recovering")
  /\ UNCHANGED <<rowVars, bookVars, beats>>

\* A call of the processing pass throws without effect; the failure is handled.
CallThrows(w) ==
  /\ pc[w] \in Holding \ {"recovering"}
  /\ Goto(w, "recovering")
  /\ UNCHANGED <<rowVars, bookVars, beats>>

\* A throw nothing in the processor catches (claiming, recording the claim, or
\* the failure handler itself) ends the pass; the worker swallows it.
PassThrows(w) ==
  /\ pc[w] \in {"polling", "selected", "claimed", "recovering"}
  /\ EndPass(w, "idle")
  /\ UNCHANGED <<rowVars, bookVars, beats>>

\* The process dies (open transactions roll back) and is started again.
Crash(w) ==
  /\ pc[w] # "down"
  /\ EndPass(w, "down")
  /\ UNCHANGED <<rowVars, bookVars, beats>>

Restart(w) ==
  /\ pc[w] = "down"
  /\ EndPass(w, "idle")
  /\ UNCHANGED <<rowVars, bookVars, beats>>

\* The heartbeat timer fires: the update carries the expiry computed now.
SendBeat(w, offset) ==
  /\ pc[w] \in Holding
  /\ Cardinality(beats) < MaxBeats
  /\ beats' = beats \cup {[request |-> item[w].request,
                           claimToken |-> item[w].claimToken,
                           expiresIn |-> Lease - offset]}
  /\ UNCHANGED <<rowVars, bookVars, workerVars>>

\* The update matches on PROCESSING and the claim token, not on the old expiry.
ExecuteBeat(b) ==
  /\ b \in beats
  /\ ~RowLocked(b.request)
  /\ beats' = beats \ {b}
  /\ claimExpiresIn' = IF status[b.request] = "PROCESSING" /\ claimToken[b.request] = b.claimToken
                       THEN [claimExpiresIn EXCEPT ![b.request] = b.expiresIn]
                       ELSE claimExpiresIn
  /\ UNCHANGED <<status, seats, claimToken, leaseTimeoutCount, transientFailureCount, claims,
                 bookVars, workerVars>>

LoseBeat(b) ==
  /\ b \in beats
  /\ beats' = beats \ {b}
  /\ UNCHANGED <<rowVars, bookVars, workerVars>>

\* A tick later.  An expiry so far in the past has expired for every poll, also for
\* one that took all of MaxLag and whose clock is slow.
Sooner(n) == IF n > -(MaxLag + Skew) THEN n - 1 ELSE n

Claiming(w) == pc[w] \in {"polling", "selected"}

Tick ==
  /\ \A w \in Workers : Claiming(w) => age[w] < MaxLag
  /\ age' = [w \in Workers |-> IF Claiming(w) THEN age[w] + 1 ELSE age[w]]
  /\ claimExpiresIn' = [r \in Requests |->
                          IF status[r] = "PROCESSING" THEN Sooner(claimExpiresIn[r])
                          ELSE claimExpiresIn[r]]
  /\ beats' = {[b EXCEPT !.expiresIn = Sooner(@)] : b \in beats}
  /\ UNCHANGED <<status, seats, claimToken, leaseTimeoutCount, transientFailureCount, claims,
                 bookVars, pc, item, conflict>>

-----------------------------------------------------------------------------
Offsets == (-Skew)..Skew

ClaimStep(w) == CommitClaim(w) \/ FailExpiredClaim(w)

Poll(w) == \E offset \in Offsets : StartPoll(w, offset)

WorkerStep(w) ==
  \/ Poll(w)
  \/ Select(w)
  \/ FindNothing(w)
  \/ ClaimStep(w)
  \/ FindConflict(w)
  \/ FindNoConflict(w)
  \/ Reject(w)
  \/ Confirm(w)
  \/ ConfirmFindsSeatTaken(w)
  \/ LookUpWinner(w)
  \/ ReleaseForRetry(w)
  \/ Fail(w)
  \/ ClaimLost(w)
  \/ Restart(w)

Disturbance(w) ==
  \/ CallThrows(w)
  \/ PassThrows(w)
  \/ Crash(w)

HeartbeatStep ==
  \/ \E w \in Workers, offset \in Offsets : SendBeat(w, offset)
  \/ \E b \in beats : ExecuteBeat(b)
  \/ \E b \in beats : LoseBeat(b)

Next ==
  \/ \E r \in Requests, wanted \in SUBSET Seats : Submit(r, wanted)
  \/ \E w \in Workers : WorkerStep(w)
  \/ \E w \in Workers : Disturbance(w)
  \/ HeartbeatStep
  \/ Tick

Spec == Init /\ [][Next]_vars

-----------------------------------------------------------------------------
(* Properties. *)

RowTypes ==
  /\ status \in [Requests -> RequestStatus]
  /\ seats \in [Requests -> SUBSET Seats]
  /\ claimToken \in [Requests -> Nat]
  /\ claimExpiresIn \in [Requests -> Int]
  /\ leaseTimeoutCount \in [Requests -> Nat]
  /\ transientFailureCount \in [Requests -> Nat]
  /\ claims \in [Requests -> Nat]

BookTypes ==
  /\ reservations \subseteq Requests
  /\ reservationSeats \subseteq Requests \X Seats
  /\ attempts \in [Requests -> Seq(Attempt)]

PassTypes ==
  /\ pc \in [Workers -> PassState]
  /\ age \in [Workers -> Int]
  /\ item \in [Workers -> WorkItem]
  /\ conflict \in [Workers -> Requests \cup {None}]
  /\ \A w \in Workers : pc[w] \in Holding \cup {"selected"} => item[w].request \in Requests

\* Every variable has its type, and a pass that has selected or claimed a request
\* names it.
TypeOK == RowTypes /\ BookTypes /\ PassTypes /\ beats \subseteq Beat

\* No seat of a screening is ever held by two reservations, however the passes
\* of several workers interleave between conflict lookup and confirm.
NoDoubleBooking ==
  \A x, y \in reservationSeats : x[2] = y[2] => x[1] = y[1]

\* A reader that sees CONFIRMED finds the reservation with every requested seat,
\* and a request in any other state has neither a reservation nor a seat row.
ReservationIffConfirmed ==
  \A r \in Requests :
    /\ r \in reservations <=> status[r] = "CONFIRMED"
    /\ {s \in Seats : <<r, s>> \in reservationSeats} = IF r \in reservations THEN seats[r] ELSE {}

\* A rejection names a confirmed reservation of another request for one of its
\* seats, also when the conflict was found only by the unique index.
RejectionNamesWinner ==
  \A r \in Requests : \A i \in 1..Len(attempts[r]) :
    attempts[r][i].outcome = "rejected" =>
      LET q == attempts[r][i].conflict IN
      /\ q \in reservations \ {r}
      /\ seats[q] \cap seats[r] # {}

\* No claim leaves two attempts in the history, although nothing in the schema
\* forbids it and a pass may act again after a lost reply or a lost claim.
OneAttemptPerClaim ==
  \A r \in Requests : \A i, j \in 1..Len(attempts[r]) :
    i < j => attempts[r][i].claim < attempts[r][j].claim

Failures(r) == {i \in 1..Len(attempts[r]) : attempts[r][i].outcome = "unexpected-error"}

StatusAfter(outcome) ==
  CASE outcome = "confirmed" -> "CONFIRMED"
    [] outcome = "rejected" -> "REJECTED"
    [] OTHER -> "FAILED"

\* The history tells the same story as the row: all attempts but the last are
\* unexpected errors, one per counted transient failure, and an attempt that
\* ended the request is the last one and agrees with the status.
HistoryMatchesRow ==
  \A r \in Requests :
    /\ transientFailureCount[r] = Cardinality(Failures(r))
    /\ \A i \in 1..Len(attempts[r]) \ Failures(r) :
         i = Len(attempts[r]) /\ status[r] = StatusAfter(attempts[r][i].outcome)
    /\ status[r] \in {"CONFIRMED", "REJECTED"} => Failures(r) # 1..Len(attempts[r])

\* The retry budgets: neither counter passes its maximum, a request is FAILED
\* exactly for having used one up, and a released request can be claimed again
\* (the claim query ignores REQUESTED rows whose transient budget is spent).
RetryBudgets ==
  \A r \in Requests :
    /\ transientFailureCount[r] <= MaxTransientFailures
    /\ leaseTimeoutCount[r] <= MaxLeaseTimeouts
    /\ transientFailureCount[r] = MaxTransientFailures => status[r] = "FAILED"
    /\ status[r] = "FAILED" => \/ transientFailureCount[r] = MaxTransientFailures
                              \/ leaseTimeoutCount[r] = MaxLeaseTimeouts

TimedOutForGood(r) ==
  \E i \in 1..Len(attempts[r]) : attempts[r][i].outcome = "lease-timeout"

\* Every claim is paid for: all claims but the current or deciding one were
\* counted as a transient failure or as a lease timeout, never as both.
EveryClaimAccounted ==
  \A r \in Requests :
    claims[r] = transientFailureCount[r] + leaseTimeoutCount[r]
                + IF status[r] \in {"PROCESSING", "CONFIRMED", "REJECTED"} \/ TimedOutForGood(r)
                  THEN 1 ELSE 0

\* The two counters are exact: they pay for the claims, and end the request when
\* they should, with crashes, lost replies and lost claims in between.
BudgetsAreExact == RetryBudgets /\ EveryClaimAccounted

\* At most one pass owns a request, and the failure count it read when it
\* claimed is still the row's: the retry decision is never based on a stale count.
ExclusiveClaim ==
  \A w \in Workers : pc[w] \in Holding /\ Owns(w) =>
    /\ item[w].transientFailureCount = transientFailureCount[item[w].request]
    /\ \A v \in Workers \ {w} :
         ~ (pc[v] \in Holding /\ item[v].request = item[w].request /\ Owns(v))

\* A unique violation always has a winner to reject for: the lookup outside the
\* rolled back transaction finds a committed reservation.
WinnerIsVisible ==
  \A w \in Workers : pc[w] = "conflicted" => ConflictingReservations(item[w].request) # {}

\* CONFIRMED, REJECTED and FAILED are final: no late pass, retry, heartbeat or
\* reclaim changes the request, its reservation or its history again.
TerminalIsFinal ==
  [][\A r \in Requests : status[r] \in TerminalStatus =>
       /\ UNCHANGED <<status[r], seats[r], claimToken[r], leaseTimeoutCount[r],
                      transientFailureCount[r], attempts[r]>>
       /\ r \in reservations <=> r \in reservations']_vars

\* What the port says of a heartbeat, that it "renews an owned claim": executing
\* one never shortens the lease, however late it arrives.
BeatNeverShortensLease ==
  [][ (\E b \in beats : ExecuteBeat(b)) =>
        \A r \in Requests : claimExpiresIn'[r] >= claimExpiresIn[r] ]_vars

Lifecycle == INSTANCE ReservationLifecycle

\* The tables, claims and passes implement the life of a request that users are
\* promised (ReservationLifecycle).
ImplementsLifecycle == Lifecycle!Spec

\* Every submitted request is answered, although workers crash, calls fail and
\* leases run out.
EveryRequestAnswered ==
  \A r \in Requests : status[r] = "REQUESTED" ~> status[r] \in TerminalStatus
=============================================================================
