----------------------- MODULE ReservationWork_proofs -----------------------
(***************************************************************************)
(* Proofs about ReservationWork, for any set of requests, seats and        *)
(* workers and any budgets, leases and bounds: types, bookings, which pass *)
(* may act on a request, what its history of attempts says, the retry      *)
(* budgets, and the refinement of ReservationLifecycle.                    *)
(***************************************************************************)
EXTENDS ReservationWork, SequenceTheorems, FiniteSetTheorems, TLAPS

-----------------------------------------------------------------------------
(* What the shared pieces of the actions do to the types. *)

LEMMA EndPassTypes ==
  ASSUME PassTypes, NEW w \in Workers, NEW next \in {"idle", "down"}, EndPass(w, next)
  PROVE  PassTypes'
<1>1. pc' \in [Workers -> PassState] /\ age' \in [Workers -> Int]
  BY DEF PassTypes, EndPass, PassState
<1>2. item' \in [Workers -> WorkItem] /\ conflict' \in [Workers -> Requests \cup {None}]
  BY DEF PassTypes, EndPass, WorkItem, NoItem, None
<1>3. \A v \in Workers : pc'[v] \in Holding \cup {"selected"} => item'[v].request \in Requests
  BY DEF PassTypes, EndPass, Holding
<1> QED
  BY <1>1, <1>2, <1>3 DEF PassTypes

LEMMA GotoTypes ==
  ASSUME PassTypes, NEW w \in Workers, NEW next \in Holding, pc[w] \in Holding, Goto(w, next)
  PROVE  PassTypes'
  BY DEF PassTypes, Goto, PassState

LEMMA MoveToTypes ==
  ASSUME RowTypes, NEW r \in Requests, NEW newStatus \in RequestStatus, MoveTo(r, newStatus)
  PROVE  /\ status' \in [Requests -> RequestStatus]
         /\ claimToken' \in [Requests -> Nat]
         /\ claimExpiresIn' \in [Requests -> Int]
         /\ UNCHANGED <<seats, claims>>
  BY DEF RowTypes, MoveTo, None

LEMMA RecordTypes ==
  ASSUME BookTypes, NEW r \in Requests, NEW claim \in Nat, NEW outcome \in Outcomes,
         NEW with \in Requests \cup {None}, Record(r, claim, outcome, with)
  PROVE  attempts' \in [Requests -> Seq(Attempt)]
<1> DEFINE new == [claim |-> claim, outcome |-> outcome, conflict |-> with]
<1>1. new \in Attempt
  BY DEF Attempt
<1>2. Append(attempts[r], new) \in Seq(Attempt)
  BY <1>1 DEF BookTypes
<1> HIDE DEF new
<1>3. attempts' = [attempts EXCEPT ![r] = Append(@, new)]
  BY DEF Record, new
<1> QED
  BY <1>2, <1>3 DEF BookTypes

-----------------------------------------------------------------------------
(* Type correctness. *)

LEMMA TypeInit == Init => TypeOK
<1> SUFFICES ASSUME Init PROVE TypeOK
  OBVIOUS
<1>1. RowTypes
  BY DEF Init, RowTypes, RequestStatus, None
<1>2. BookTypes
  BY DEF Init, BookTypes
<1>3. PassTypes
  BY DEF Init, PassTypes, PassState, Holding, WorkItem, NoItem, None
<1> QED
  BY <1>1, <1>2, <1>3 DEF Init, TypeOK

LEMMA TypeNext == TypeOK /\ [Next]_vars => TypeOK'
<1> SUFFICES ASSUME TypeOK, [Next]_vars PROVE TypeOK'
  OBVIOUS
<1>a. RowTypes /\ BookTypes /\ PassTypes /\ beats \subseteq Beat
  BY DEF TypeOK
<1> USE DEF TypeOK
<1>1. ASSUME NEW r \in Requests, NEW wanted \in SUBSET Seats, Submit(r, wanted) PROVE TypeOK'
  BY <1>1, <1>a DEF Submit, RowTypes, BookTypes, PassTypes, bookVars, workerVars, RequestStatus
<1>2. ASSUME NEW w \in Workers, Poll(w) PROVE TypeOK'
  BY <1>2, <1>a, TimeAssumption
  DEF Poll, StartPoll, Offsets, PassState, Holding, RowTypes, BookTypes, PassTypes, rowVars, bookVars
<1>3. ASSUME NEW w \in Workers, Select(w) PROVE TypeOK'
  <2>1. PICK r \in Requests : item' = [item EXCEPT ![w] = [NoItem EXCEPT !.request = r]]
    BY <1>3 DEF Select
  <2>2. [NoItem EXCEPT !.request = r] \in WorkItem
    BY DEF NoItem, WorkItem, None
  <2>3. item' \in [Workers -> WorkItem] /\ item'[w].request \in Requests
    BY <2>1, <2>2, <1>a DEF PassTypes, NoItem
  <2>4. pc' = [pc EXCEPT ![w] = "selected"] /\ UNCHANGED <<rowVars, bookVars, age, conflict, beats>>
    BY <1>3 DEF Select
  <2>5. \A v \in Workers \ {w} : item'[v] = item[v] /\ pc'[v] = pc[v]
    BY <2>1, <2>4, <1>a DEF PassTypes
  <2>6. PassTypes'
    BY <2>3, <2>4, <2>5, <1>a DEF PassTypes, PassState
  <2> QED
    BY <2>4, <2>6, <1>a DEF RowTypes, BookTypes, rowVars, bookVars
<1>4. ASSUME NEW w \in Workers, FindNothing(w) PROVE TypeOK'
  BY <1>4, <1>a, EndPassTypes DEF FindNothing, RowTypes, BookTypes, rowVars, bookVars
<1>5. ASSUME NEW w \in Workers, CommitClaim(w) PROVE TypeOK'
  <2> DEFINE r == item[w].request
  <2>1. r \in Requests
    BY <1>5, <1>a DEF CommitClaim, PassTypes
  <2>2. FreshToken(r) \in Nat /\ LeaseTimeoutsAfterClaim(r) \in Nat
    BY <2>1, <1>a DEF RowTypes, FreshToken, LeaseTimeoutsAfterClaim
  <2>3. RowTypes'
    BY <1>5, <2>1, <2>2, <1>a, TimeAssumption DEF CommitClaim, RowTypes, PassTypes, RequestStatus
  <2>4. BookTypes' /\ beats' \subseteq Beat
    BY <1>5, <1>a DEF CommitClaim, BookTypes, bookVars
  <2>5. [request |-> r, claimToken |-> FreshToken(r),
         transientFailureCount |-> transientFailureCount[r]] \in WorkItem
    BY <2>1, <2>2, <1>a DEF WorkItem, RowTypes
  <2>6. PassTypes'
    BY <1>5, <2>1, <2>5, <1>a DEF CommitClaim, PassTypes, PassState, Holding
  <2> QED
    BY <2>3, <2>4, <2>6
<1>6. ASSUME NEW w \in Workers, FailExpiredClaim(w) PROVE TypeOK'
  <2>1. item[w].request \in Requests
    BY <1>6, <1>a DEF FailExpiredClaim, PassTypes, Holding
  <2>2. RowTypes'
    BY <1>6, <2>1, <1>a, MoveToTypes DEF FailExpiredClaim, RowTypes, RequestStatus
  <2>3. attempts' \in [Requests -> Seq(Attempt)]
    BY <1>6, <2>1, <1>a, RecordTypes DEF FailExpiredClaim, RowTypes, WorkItem, Outcomes
  <2>4. BookTypes'
    BY <1>6, <2>1, <2>3, <1>a DEF FailExpiredClaim, BookTypes
  <2>5. PassTypes'
    BY <1>6, <1>a, EndPassTypes DEF FailExpiredClaim
  <2> QED
    BY <1>6, <2>2, <2>4, <2>5, <1>a DEF FailExpiredClaim
<1>7. ASSUME NEW w \in Workers, FindConflict(w) PROVE TypeOK'
  BY <1>7, <1>a DEF FindConflict, ConflictingReservations, PassState, Holding, RowTypes, BookTypes, PassTypes, rowVars, bookVars
<1>8. ASSUME NEW w \in Workers, FindNoConflict(w) PROVE TypeOK'
  BY <1>8, <1>a, GotoTypes DEF FindNoConflict, Holding, RowTypes, BookTypes, rowVars, bookVars
<1>9. ASSUME NEW w \in Workers, Reject(w) PROVE TypeOK'
  <2>1. item[w].request \in Requests
    BY <1>9, <1>a DEF Reject, PassTypes, Holding
  <2>2. RowTypes'
    BY <1>9, <2>1, <1>a, MoveToTypes DEF Reject, RowTypes, RequestStatus
  <2>3. attempts' \in [Requests -> Seq(Attempt)]
    BY <1>9, <2>1, <1>a, RecordTypes DEF Reject, PassTypes, WorkItem, Outcomes, None
  <2>4. BookTypes'
    BY <1>9, <2>1, <2>3, <1>a DEF Reject, BookTypes
  <2>5. PassTypes'
    BY <1>9, <1>a, EndPassTypes, GotoTypes DEF EndPassOrLoseReply, Holding, Reject
  <2> QED
    BY <1>9, <2>2, <2>4, <2>5, <1>a DEF Reject
<1>10. ASSUME NEW w \in Workers, Confirm(w) PROVE TypeOK'
  <2>1. item[w].request \in Requests
    BY <1>10, <1>a DEF Confirm, PassTypes, Holding
  <2>2. RowTypes'
    BY <1>10, <2>1, <1>a, MoveToTypes DEF Confirm, RowTypes, RequestStatus
  <2>3. attempts' \in [Requests -> Seq(Attempt)]
    BY <1>10, <2>1, <1>a, RecordTypes DEF Confirm, PassTypes, WorkItem, Outcomes, None
  <2>4. BookTypes'
    BY <1>10, <2>1, <2>3, <1>a DEF Confirm, BookTypes, RowTypes
  <2>5. PassTypes'
    BY <1>10, <1>a, EndPassTypes, GotoTypes DEF EndPassOrLoseReply, Holding, Confirm
  <2> QED
    BY <1>10, <2>2, <2>4, <2>5, <1>a DEF Confirm
<1>11. ASSUME NEW w \in Workers, ConfirmFindsSeatTaken(w) PROVE TypeOK'
  BY <1>11, <1>a, GotoTypes DEF ConfirmFindsSeatTaken, Holding, RowTypes, BookTypes, rowVars, bookVars
<1>12. ASSUME NEW w \in Workers, LookUpWinner(w) PROVE TypeOK'
  <2>1. PICK q \in Requests \cup {None} :
          /\ conflict' = [conflict EXCEPT ![w] = q]
          /\ pc' = [pc EXCEPT ![w] = IF q = None THEN "recovering" ELSE "translating"]
    BY <1>12, <1>a DEF LookUpWinner, ConflictingReservations, BookTypes
  <2>2. PassTypes'
    BY <1>12, <2>1, <1>a DEF LookUpWinner, PassTypes, PassState, Holding
  <2> QED
    BY <1>12, <2>2, <1>a DEF LookUpWinner, RowTypes, BookTypes, rowVars, bookVars
<1>13. ASSUME NEW w \in Workers, ReleaseForRetry(w) PROVE TypeOK'
  <2>1. item[w].request \in Requests
    BY <1>13, <1>a DEF ReleaseForRetry, PassTypes, Holding
  <2>2. RowTypes'
    BY <1>13, <2>1, <1>a, MoveToTypes DEF ReleaseForRetry, RowTypes, RequestStatus
  <2>3. attempts' \in [Requests -> Seq(Attempt)]
    BY <1>13, <2>1, <1>a, RecordTypes DEF ReleaseForRetry, PassTypes, WorkItem, Outcomes, None
  <2>4. BookTypes'
    BY <1>13, <2>1, <2>3, <1>a DEF ReleaseForRetry, BookTypes
  <2>5. PassTypes'
    BY <1>13, <1>a, EndPassTypes DEF ReleaseForRetry
  <2> QED
    BY <1>13, <2>2, <2>4, <2>5, <1>a DEF ReleaseForRetry
<1>14. ASSUME NEW w \in Workers, Fail(w) PROVE TypeOK'
  <2>1. item[w].request \in Requests
    BY <1>14, <1>a DEF Fail, PassTypes, Holding
  <2>2. RowTypes'
    BY <1>14, <2>1, <1>a, MoveToTypes DEF Fail, RowTypes, RequestStatus
  <2>3. attempts' \in [Requests -> Seq(Attempt)]
    BY <1>14, <2>1, <1>a, RecordTypes DEF Fail, PassTypes, WorkItem, Outcomes, None
  <2>4. BookTypes'
    BY <1>14, <2>1, <2>3, <1>a DEF Fail, BookTypes
  <2>5. PassTypes'
    BY <1>14, <1>a, EndPassTypes DEF Fail
  <2> QED
    BY <1>14, <2>2, <2>4, <2>5, <1>a DEF Fail
<1>15. ASSUME NEW w \in Workers, ClaimLost(w) PROVE TypeOK'
  BY <1>15, <1>a, EndPassTypes, GotoTypes DEF ClaimLost, RowLocking, Holding, RowTypes, BookTypes, rowVars, bookVars
<1>16. ASSUME NEW w \in Workers, CallThrows(w) PROVE TypeOK'
  BY <1>16, <1>a, GotoTypes DEF CallThrows, Holding, RowTypes, BookTypes, rowVars, bookVars
<1>17. ASSUME NEW w \in Workers, PassThrows(w) PROVE TypeOK'
  BY <1>17, <1>a, EndPassTypes DEF PassThrows, RowTypes, BookTypes, rowVars, bookVars
<1>18. ASSUME NEW w \in Workers, Crash(w) PROVE TypeOK'
  BY <1>18, <1>a, EndPassTypes DEF Crash, RowTypes, BookTypes, rowVars, bookVars
<1>19. ASSUME NEW w \in Workers, Restart(w) PROVE TypeOK'
  BY <1>19, <1>a, EndPassTypes DEF Restart, RowTypes, BookTypes, rowVars, bookVars
<1>20. ASSUME NEW w \in Workers, NEW offset \in Offsets, SendBeat(w, offset) PROVE TypeOK'
  <2>1. [request |-> item[w].request, claimToken |-> item[w].claimToken,
         expiresIn |-> Lease - offset] \in Beat
    BY <1>20, <1>a, TimeAssumption DEF SendBeat, PassTypes, WorkItem, Beat, Offsets
  <2> QED
    BY <1>20, <2>1, <1>a DEF SendBeat, RowTypes, BookTypes, PassTypes, rowVars, bookVars, workerVars
<1>21. ASSUME NEW b \in beats, ExecuteBeat(b) PROVE TypeOK'
  <2>1. b.expiresIn \in Int
    BY <1>a DEF Beat
  <2> QED
    BY <1>21, <2>1, <1>a DEF ExecuteBeat, RowTypes, BookTypes, PassTypes, bookVars, workerVars
<1>22. ASSUME NEW b \in beats, LoseBeat(b) PROVE TypeOK'
  BY <1>22, <1>a DEF LoseBeat, RowTypes, BookTypes, PassTypes, rowVars, bookVars, workerVars
<1>23. ASSUME Tick PROVE TypeOK'
  <2>1. \A n \in Int : Sooner(n) \in Int
    BY DEF Sooner
  <2>2. \A b \in beats : [b EXCEPT !.expiresIn = Sooner(@)] \in Beat
    BY <2>1, <1>a DEF Beat
  <2>3. beats' \subseteq Beat
    BY <1>23, <2>2 DEF Tick
  <2> QED
    BY <1>23, <2>1, <2>3, <1>a DEF Tick, RowTypes, BookTypes, PassTypes, bookVars
<1>24. ASSUME UNCHANGED vars PROVE TypeOK'
  BY <1>24, <1>a DEF vars, RowTypes, BookTypes, PassTypes, rowVars, bookVars, workerVars
<1> QED
  BY <1>1, <1>2, <1>3, <1>4, <1>5, <1>6, <1>7, <1>8, <1>9, <1>10, <1>11, <1>12, <1>13, <1>14, <1>15, <1>16, <1>17, <1>18, <1>19, <1>20, <1>21, <1>22, <1>23, <1>24
  DEF Next, WorkerStep, ClaimStep, Disturbance, HeartbeatStep

\* Every behaviour of the table, claim and worker model is well typed.
THEOREM TypeCorrect == Spec => []TypeOK
<1>1. Init => TypeOK
  BY TypeInit
<1>2. TypeOK /\ [Next]_vars => TypeOK'
  BY TypeNext
<1> QED
  BY <1>1, <1>2, PTL DEF Spec

-----------------------------------------------------------------------------
(* What a step does to the passes of the workers that do not take it. *)

Untouched(v) == pc'[v] = pc[v] /\ item'[v] = item[v] /\ conflict'[v] = conflict[v]

LEMMA EndPassFrame ==
  ASSUME PassTypes, NEW w \in Workers, NEW next, EndPass(w, next)
  PROVE  pc'[w] = next /\ \A v \in Workers \ {w} : Untouched(v)
  BY DEF PassTypes, EndPass, Untouched

LEMMA GotoFrame ==
  ASSUME PassTypes, NEW w \in Workers, NEW next, Goto(w, next)
  PROVE  /\ pc'[w] = next /\ UNCHANGED <<item, conflict>>
         /\ \A v \in Workers \ {w} : Untouched(v)
  BY DEF PassTypes, Goto, Untouched

-----------------------------------------------------------------------------
(* The row lock of a claim transaction. *)

\* Two claim transactions never have the same row selected.
RowLockExclusive ==
  \A w, v \in Workers :
    pc[w] = "selected" /\ pc[v] = "selected" /\ item[w].request = item[v].request => w = v

\* A selected row stays claimable until its claim transaction ends.
SelectedIsOpen ==
  \A w \in Workers : pc[w] = "selected" => status[item[w].request] \in {"REQUESTED", "PROCESSING"}

LockInv == RowLockExclusive /\ SelectedIsOpen

LEMMA LockInit == Init => LockInv
  BY DEF Init, LockInv, RowLockExclusive, SelectedIsOpen

\* A step that selects no row preserves LockInv if it changes the status of rows
\* only that no other claim transaction has selected.
LEMMA LockFrame ==
  ASSUME LockInv,
         \A v \in Workers : pc'[v] = "selected" =>
           /\ pc[v] = "selected" /\ item'[v] = item[v]
           /\ status'[item[v].request] = status[item[v].request]
  PROVE  LockInv'
  BY DEF LockInv, RowLockExclusive, SelectedIsOpen

LEMMA LockNext == TypeOK /\ LockInv /\ [Next]_vars => LockInv'
<1> SUFFICES ASSUME TypeOK, LockInv, [Next]_vars PROVE LockInv'
  OBVIOUS
<1>a. RowTypes /\ PassTypes
  BY DEF TypeOK
<1>1. ASSUME NEW r \in Requests, NEW wanted \in SUBSET Seats, Submit(r, wanted) PROVE LockInv'
  <2>1. \A v \in Workers : pc[v] = "selected" => item[v].request # r
    BY <1>1 DEF Submit, LockInv, SelectedIsOpen
  <2> QED
    BY <1>1, <2>1, <1>a, LockFrame DEF Submit, workerVars, RowTypes
<1>2. ASSUME NEW w \in Workers, Poll(w) PROVE LockInv'
  BY <1>2, <1>a, LockFrame DEF Poll, StartPoll, rowVars, PassTypes
<1>3. ASSUME NEW w \in Workers, Select(w) PROVE LockInv'
  <2>1. PICK r \in Requests :
          /\ Claimable(r, w) /\ ~RowLocked(r)
          /\ item' = [item EXCEPT ![w] = [NoItem EXCEPT !.request = r]]
    BY <1>3 DEF Select
  <2>2. item'[w].request = r /\ \A v \in Workers \ {w} : pc'[v] = pc[v] /\ item'[v] = item[v]
    BY <1>3, <2>1, <1>a DEF Select, PassTypes, NoItem
  <2>3. status[r] \in {"REQUESTED", "PROCESSING"} /\ UNCHANGED status
    BY <1>3, <2>1 DEF Select, Claimable, Expired, rowVars
  <2>4. \A v \in Workers \ {w} : pc'[v] = "selected" => item'[v].request # r
    BY <2>1, <2>2 DEF RowLocked
  <2> QED
    BY <2>2, <2>3, <2>4 DEF LockInv, RowLockExclusive, SelectedIsOpen
<1>4. ASSUME NEW w \in Workers, FindNothing(w) PROVE LockInv'
  BY <1>4, <1>a, LockFrame, EndPassFrame DEF FindNothing, Untouched, rowVars
<1>5. ASSUME NEW w \in Workers, CommitClaim(w) PROVE LockInv'
  <2>1. \A v \in Workers \ {w} : pc[v] = "selected" => item[v].request # item[w].request
    BY <1>5 DEF CommitClaim, LockInv, RowLockExclusive
  <2> QED
    BY <1>5, <2>1, <1>a, LockFrame DEF CommitClaim, PassTypes, RowTypes
<1>6. ASSUME NEW w \in Workers, FailExpiredClaim(w) PROVE LockInv'
  <2>1. \A v \in Workers \ {w} : pc[v] = "selected" => item[v].request # item[w].request
    BY <1>6 DEF FailExpiredClaim, LockInv, RowLockExclusive
  <2> QED
    BY <1>6, <2>1, <1>a, LockFrame, EndPassFrame DEF FailExpiredClaim, MoveTo, Untouched, RowTypes
<1>7. ASSUME NEW w \in Workers, FindConflict(w) PROVE LockInv'
  BY <1>7, <1>a, LockFrame DEF FindConflict, rowVars, PassTypes
<1>8. ASSUME NEW w \in Workers, FindNoConflict(w) PROVE LockInv'
  BY <1>8, <1>a, LockFrame, GotoFrame DEF FindNoConflict, Untouched, rowVars
<1>9. ASSUME NEW w \in Workers, Reject(w) PROVE LockInv'
  <2>1. \A v \in Workers : pc[v] = "selected" => item[v].request # item[w].request
    BY <1>9 DEF Reject, RowLocked
  <2> QED
    BY <1>9, <2>1, <1>a, LockFrame, EndPassFrame, GotoFrame DEF Reject, MoveTo, Untouched, RowTypes, EndPassOrLoseReply
<1>10. ASSUME NEW w \in Workers, Confirm(w) PROVE LockInv'
  <2>1. \A v \in Workers : pc[v] = "selected" => item[v].request # item[w].request
    BY <1>10 DEF Confirm, RowLocked
  <2> QED
    BY <1>10, <2>1, <1>a, LockFrame, EndPassFrame, GotoFrame DEF Confirm, MoveTo, Untouched, RowTypes, EndPassOrLoseReply
<1>11. ASSUME NEW w \in Workers, ConfirmFindsSeatTaken(w) PROVE LockInv'
  BY <1>11, <1>a, LockFrame, GotoFrame DEF ConfirmFindsSeatTaken, Untouched, rowVars
<1>12. ASSUME NEW w \in Workers, LookUpWinner(w) PROVE LockInv'
  BY <1>12, <1>a, LockFrame DEF LookUpWinner, rowVars, PassTypes
<1>13. ASSUME NEW w \in Workers, ReleaseForRetry(w) PROVE LockInv'
  <2>1. \A v \in Workers : pc[v] = "selected" => item[v].request # item[w].request
    BY <1>13 DEF ReleaseForRetry, RowLocked
  <2> QED
    BY <1>13, <2>1, <1>a, LockFrame, EndPassFrame DEF ReleaseForRetry, MoveTo, Untouched, RowTypes
<1>14. ASSUME NEW w \in Workers, Fail(w) PROVE LockInv'
  <2>1. \A v \in Workers : pc[v] = "selected" => item[v].request # item[w].request
    BY <1>14 DEF Fail, RowLocked
  <2> QED
    BY <1>14, <2>1, <1>a, LockFrame, EndPassFrame DEF Fail, MoveTo, Untouched, RowTypes
<1>15. ASSUME NEW w \in Workers, ClaimLost(w) PROVE LockInv'
  BY <1>15, <1>a, LockFrame, EndPassFrame, GotoFrame DEF ClaimLost, Untouched, rowVars
<1>16. ASSUME NEW w \in Workers, CallThrows(w) PROVE LockInv'
  BY <1>16, <1>a, LockFrame, GotoFrame DEF CallThrows, Untouched, rowVars
<1>17. ASSUME NEW w \in Workers, PassThrows(w) PROVE LockInv'
  BY <1>17, <1>a, LockFrame, EndPassFrame DEF PassThrows, Untouched, rowVars
<1>18. ASSUME NEW w \in Workers, Crash(w) PROVE LockInv'
  BY <1>18, <1>a, LockFrame, EndPassFrame DEF Crash, Untouched, rowVars
<1>19. ASSUME NEW w \in Workers, Restart(w) PROVE LockInv'
  BY <1>19, <1>a, LockFrame, EndPassFrame DEF Restart, Untouched, rowVars
<1>20. ASSUME NEW w \in Workers, NEW offset \in Offsets, SendBeat(w, offset) PROVE LockInv'
  BY <1>20, LockFrame DEF SendBeat, rowVars, workerVars
<1>21. ASSUME NEW b \in beats, ExecuteBeat(b) PROVE LockInv'
  BY <1>21, LockFrame DEF ExecuteBeat, workerVars
<1>22. ASSUME NEW b \in beats, LoseBeat(b) PROVE LockInv'
  BY <1>22, LockFrame DEF LoseBeat, rowVars, workerVars
<1>23. ASSUME Tick PROVE LockInv'
  BY <1>23, LockFrame DEF Tick
<1>24. ASSUME UNCHANGED vars PROVE LockInv'
  BY <1>24, LockFrame DEF vars, rowVars, workerVars
<1> QED
  BY <1>1, <1>2, <1>3, <1>4, <1>5, <1>6, <1>7, <1>8, <1>9, <1>10, <1>11, <1>12, <1>13, <1>14, <1>15, <1>16, <1>17, <1>18, <1>19, <1>20, <1>21, <1>22, <1>23, <1>24
  DEF Next, WorkerStep, ClaimStep, Disturbance, HeartbeatStep

-----------------------------------------------------------------------------
(* Reservations, their seats and the winners of conflicts. *)

Wins(q, r) == q \in reservations /\ seats[q] \cap seats[r] # {}

\* The request of a work item exists, so that no submission changes its seats.
HeldIsSaved ==
  \A w \in Workers : pc[w] \in Holding => status[item[w].request] # "ABSENT"

\* What a pass is about to reject for is a reservation that overlaps.
ConflictWins ==
  \A w \in Workers : pc[w] \in {"rejecting", "translating"} => Wins(conflict[w], item[w].request)

BookInv ==
  /\ HeldIsSaved
  /\ ReservationIffConfirmed
  /\ NoDoubleBooking
  /\ ConflictWins
  /\ WinnerIsVisible

LEMMA BookInit == Init => BookInv
  BY DEF Init, BookInv, HeldIsSaved, ReservationIffConfirmed, NoDoubleBooking, ConflictWins,
         WinnerIsVisible, Holding

\* The seats of a reservation are the seats its request asks for.
LEMMA ConflictingReservationsWin ==
  ASSUME TypeOK, BookInv, NEW r \in Requests, NEW q \in ConflictingReservations(r)
  PROVE  Wins(q, r)
  BY DEF TypeOK, RowTypes, BookTypes, BookInv, ReservationIffConfirmed, ConflictingReservations, Wins

\* A step that books nothing preserves BookInv if a pass that gets ready to
\* reject, or to look the winner up, has a conflicting reservation to name.
LEMMA BookFrame ==
  ASSUME TypeOK, BookInv, LockInv,
         UNCHANGED <<seats, reservations, reservationSeats>>,
         \A r \in Requests : status[r] # "ABSENT" => status'[r] # "ABSENT",
         \A r \in Requests : status'[r] = "CONFIRMED" <=> status[r] = "CONFIRMED",
         \A v \in Workers : pc'[v] \in Holding =>
           pc[v] \in Holding \cup {"selected"} /\ item'[v].request = item[v].request,
         \A v \in Workers : pc'[v] \in {"rejecting", "translating"} =>
           \/ pc[v] = pc'[v] /\ conflict'[v] = conflict[v]
           \/ conflict'[v] \in ConflictingReservations(item[v].request),
         \A v \in Workers : pc'[v] = "conflicted" =>
           pc[v] = "conflicted" \/ ConflictingReservations(item[v].request) # {}
  PROVE  BookInv'
<1>1. HeldIsSaved'
  BY DEF TypeOK, PassTypes, BookInv, HeldIsSaved, LockInv, SelectedIsOpen
<1>2. ReservationIffConfirmed' /\ NoDoubleBooking'
  BY DEF TypeOK, RowTypes, BookTypes, BookInv, ReservationIffConfirmed, NoDoubleBooking
<1>3. ASSUME NEW v \in Workers, pc'[v] \in {"rejecting", "translating"}
      PROVE  Wins(conflict[v], item[v].request)' 
  <2>1. /\ pc[v] \in Holding \cup {"selected"}
        /\ item'[v].request = item[v].request
        /\ item[v].request \in Requests
    BY <1>3 DEF Holding, TypeOK, PassTypes
  <2>2. Wins(conflict'[v], item[v].request)
    BY <1>3, <2>1, ConflictingReservationsWin DEF BookInv, ConflictWins
  <2> QED
    BY <2>1, <2>2 DEF Wins
<1>4. ASSUME NEW v \in Workers, pc'[v] = "conflicted"
      PROVE  ConflictingReservations(item[v].request)' # {}
  <2>1. item'[v].request = item[v].request
    BY <1>4 DEF Holding
  <2>2. ConflictingReservations(item[v].request) # {}
    BY <1>4 DEF BookInv, WinnerIsVisible
  <2> QED
    BY <2>1, <2>2 DEF ConflictingReservations
<1> QED
  BY <1>1, <1>2, <1>3, <1>4 DEF BookInv, ConflictWins, WinnerIsVisible

LEMMA BookNext == TypeOK /\ LockInv /\ BookInv /\ [Next]_vars => BookInv'
<1> SUFFICES ASSUME TypeOK, LockInv, BookInv, [Next]_vars PROVE BookInv'
  OBVIOUS
<1>a. RowTypes /\ BookTypes /\ PassTypes
  BY DEF TypeOK
<1>1. ASSUME NEW r \in Requests, NEW wanted \in SUBSET Seats, Submit(r, wanted) PROVE BookInv'
  <2>1. r \notin reservations /\ \A v \in Workers : pc[v] \in Holding => item[v].request # r
    BY <1>1 DEF Submit, BookInv, HeldIsSaved, ReservationIffConfirmed
  <2>2. /\ UNCHANGED <<bookVars, workerVars>>
        /\ \A q \in Requests \ {r} : status'[q] = status[q] /\ seats'[q] = seats[q]
        /\ status'[r] = "REQUESTED" /\ status[r] = "ABSENT"
    BY <1>1, <1>a DEF Submit, RowTypes
  <2>3. HeldIsSaved'
    BY <2>1, <2>2, <1>a DEF BookInv, HeldIsSaved, PassTypes, workerVars
  <2>4. ReservationIffConfirmed' /\ NoDoubleBooking'
    BY <2>1, <2>2, <1>a DEF BookInv, ReservationIffConfirmed, NoDoubleBooking, bookVars
  <2>5. ConflictWins'
    <3>1. SUFFICES ASSUME NEW v \in Workers, pc'[v] \in {"rejecting", "translating"}
                   PROVE  Wins(conflict[v], item[v].request)'
      BY DEF ConflictWins
    <3>2. /\ Wins(conflict[v], item[v].request)
          /\ item[v].request \in Requests \ {r}
          /\ conflict'[v] = conflict[v] /\ item'[v] = item[v]
      BY <2>1, <2>2, <3>1, <1>a DEF BookInv, ConflictWins, PassTypes, Holding, workerVars
    <3>3. conflict[v] \in Requests \ {r} /\ UNCHANGED reservations
      BY <2>1, <2>2, <3>2, <1>a DEF Wins, BookTypes, bookVars
    <3> QED
      BY <2>2, <3>2, <3>3 DEF Wins
  <2>6. WinnerIsVisible'
    BY <2>1, <2>2, <1>a DEF BookInv, WinnerIsVisible, ConflictingReservations, PassTypes, Holding, bookVars, workerVars
  <2> QED
    BY <2>3, <2>4, <2>5, <2>6 DEF BookInv
<1>2. ASSUME NEW w \in Workers, Poll(w) PROVE BookInv'
  <2>1. UNCHANGED <<rowVars, bookVars>>
    BY <1>2 DEF Poll, StartPoll
  <2> QED
    BY <1>2, <2>1, <1>a, BookFrame DEF Poll, StartPoll, PassTypes, rowVars, bookVars, Holding
<1>3. ASSUME NEW w \in Workers, Select(w) PROVE BookInv'
  <2>1. UNCHANGED <<rowVars, bookVars>>
    BY <1>3 DEF Select
  <2> QED
    BY <1>3, <2>1, <1>a, BookFrame DEF Select, PassTypes, rowVars, bookVars, Holding
<1>4. ASSUME NEW w \in Workers, FindNothing(w) PROVE BookInv'
  <2>1. UNCHANGED <<rowVars, bookVars>>
    BY <1>4 DEF FindNothing
  <2> QED
    BY <1>4, <2>1, <1>a, BookFrame, EndPassFrame DEF FindNothing, Untouched, rowVars, bookVars, Holding
<1>5. ASSUME NEW w \in Workers, CommitClaim(w) PROVE BookInv'
  <2>1. /\ status[item[w].request] \in {"REQUESTED", "PROCESSING"}
        /\ status' = [status EXCEPT ![item[w].request] = "PROCESSING"]
        /\ UNCHANGED <<seats, reservations, reservationSeats>>
    BY <1>5 DEF CommitClaim, LockInv, SelectedIsOpen, bookVars
  <2>2. /\ pc[w] = "selected" /\ pc'[w] = "claimed" /\ item'[w].request = item[w].request
        /\ \A v \in Workers \ {w} : Untouched(v)
    BY <1>5, <1>a DEF CommitClaim, PassTypes, Untouched
  <2> QED
    BY <2>1, <2>2, <1>a, BookFrame DEF RowTypes, Untouched
<1>6. ASSUME NEW w \in Workers, FailExpiredClaim(w) PROVE BookInv'
  <2>1. /\ status[item[w].request] = "PROCESSING"
        /\ status' = [status EXCEPT ![item[w].request] = "FAILED"]
        /\ UNCHANGED <<seats, reservations, reservationSeats>>
    BY <1>6 DEF FailExpiredClaim, LeaseBudgetSpent, MoveTo
  <2>2. pc'[w] = "idle" /\ \A v \in Workers \ {w} : Untouched(v)
    BY <1>6, <1>a, EndPassFrame DEF FailExpiredClaim
  <2> QED
    BY <2>1, <2>2, <1>a, BookFrame DEF RowTypes, Untouched, Holding
<1>7. ASSUME NEW w \in Workers, FindConflict(w) PROVE BookInv'
  <2>1. UNCHANGED <<rowVars, bookVars>>
    BY <1>7 DEF FindConflict
  <2>2. /\ pc[w] = "claimed" /\ pc'[w] = "rejecting" /\ UNCHANGED item
        /\ conflict'[w] \in ConflictingReservations(item[w].request)
        /\ \A v \in Workers \ {w} : Untouched(v)
    BY <1>7, <1>a DEF FindConflict, PassTypes, Untouched
  <2> QED
    BY <2>1, <2>2, <1>a, BookFrame DEF Untouched, rowVars, bookVars, Holding
<1>8. ASSUME NEW w \in Workers, FindNoConflict(w) PROVE BookInv'
  <2>1. UNCHANGED <<rowVars, bookVars>>
    BY <1>8 DEF FindNoConflict
  <2> QED
    BY <1>8, <2>1, <1>a, BookFrame, GotoFrame DEF FindNoConflict, Untouched, rowVars, bookVars, Holding
<1>9. ASSUME NEW w \in Workers, Reject(w) PROVE BookInv'
  <2>1. /\ status[item[w].request] = "PROCESSING"
        /\ status' = [status EXCEPT ![item[w].request] = "REJECTED"]
        /\ UNCHANGED <<seats, reservations, reservationSeats>>
    BY <1>9 DEF Reject, Owns, MoveTo
  <2>2. /\ pc[w] \in Holding /\ pc'[w] \in {"idle", "recovering"}
        /\ pc'[w] = "recovering" => UNCHANGED item
        /\ \A v \in Workers \ {w} : Untouched(v)
    BY <1>9, <1>a, EndPassFrame, GotoFrame DEF Reject, Holding, EndPassOrLoseReply
  <2> QED
    BY <2>1, <2>2, <1>a, BookFrame DEF RowTypes, Untouched, Holding
<1>10. ASSUME NEW w \in Workers, Confirm(w) PROVE BookInv'
  <2> DEFINE r == item[w].request
  <2>1. /\ r \in Requests /\ status[r] = "PROCESSING" /\ r \notin reservations
        /\ reservations' = reservations \cup {r}
        /\ reservationSeats' = reservationSeats \cup ({r} \X seats[r])
        /\ SeatsFree(r)
        /\ status' = [status EXCEPT ![r] = "CONFIRMED"]
        /\ UNCHANGED seats
    BY <1>10, <1>a DEF Confirm, Owns, MoveTo, PassTypes, Holding, BookInv, ReservationIffConfirmed
  <2>2. /\ pc[w] \in Holding /\ pc'[w] \in {"idle", "recovering"}
        /\ pc'[w] = "recovering" => UNCHANGED item
        /\ \A v \in Workers \ {w} : Untouched(v)
    BY <1>10, <1>a, EndPassFrame, GotoFrame DEF Confirm, EndPassOrLoseReply, Holding
  <2>3. HeldIsSaved'
    BY <2>1, <2>2, <1>a DEF BookInv, HeldIsSaved, RowTypes, PassTypes, Untouched, Holding
  <2>4. ReservationIffConfirmed'
    BY <2>1, <1>a DEF BookInv, ReservationIffConfirmed, RowTypes, BookTypes
  <2>5. NoDoubleBooking'
    <3>0. \A x \in reservationSeats : x[1] \in Requests /\ x = <<x[1], x[2]>>
      BY <1>a DEF BookTypes
    <3>1. \A x \in reservationSeats' : x \notin reservationSeats => x[1] = r /\ x[2] \in seats[r]
      BY <2>1
    <3>2. \A x \in reservationSeats : x[2] \notin seats[r]
      BY <2>1, <3>0 DEF SeatsFree
    <3> QED
      BY <3>1, <3>2 DEF BookInv, NoDoubleBooking
  <2>6. ConflictWins'
    BY <2>1, <2>2 DEF BookInv, ConflictWins, Wins, Untouched
  <2>7. WinnerIsVisible'
    BY <2>1, <2>2 DEF BookInv, WinnerIsVisible, ConflictingReservations, Untouched
  <2> QED
    BY <2>3, <2>4, <2>5, <2>6, <2>7 DEF BookInv
<1>11. ASSUME NEW w \in Workers, ConfirmFindsSeatTaken(w) PROVE BookInv'
  <2>1. UNCHANGED <<rowVars, bookVars>>
    BY <1>11 DEF ConfirmFindsSeatTaken
  <2>2. /\ pc[w] = "confirming" /\ pc'[w] = "conflicted" /\ UNCHANGED item
        /\ \A v \in Workers \ {w} : Untouched(v)
    BY <1>11, <1>a, GotoFrame DEF ConfirmFindsSeatTaken
  <2>3. ConflictingReservations(item[w].request) # {}
    <3>1. PICK x \in seats[item[w].request], q \in Requests : <<q, x>> \in reservationSeats
      BY <1>11 DEF ConfirmFindsSeatTaken, SeatsFree
    <3>2. x \in Seats
      BY <3>1, <1>a DEF BookTypes
    <3>3. q \in reservations
      BY <3>1, <3>2 DEF BookInv, ReservationIffConfirmed
    <3> QED
      BY <3>1, <3>3 DEF ConflictingReservations
  <2> QED
    BY <2>1, <2>2, <2>3, <1>a, BookFrame DEF Untouched, rowVars, bookVars, Holding
<1>12. ASSUME NEW w \in Workers, LookUpWinner(w) PROVE BookInv'
  <2>1. UNCHANGED <<rowVars, bookVars>>
    BY <1>12 DEF LookUpWinner
  <2>2. ConflictingReservations(item[w].request) # {}
    BY <1>12 DEF LookUpWinner, BookInv, WinnerIsVisible
  <2>3. /\ pc[w] = "conflicted" /\ pc'[w] \in {"recovering", "translating"} /\ UNCHANGED item
        /\ conflict'[w] \in ConflictingReservations(item[w].request)
        /\ \A v \in Workers \ {w} : Untouched(v)
    BY <1>12, <2>2, <1>a DEF LookUpWinner, PassTypes, Untouched
  <2> QED
    BY <2>1, <2>3, <1>a, BookFrame DEF Untouched, rowVars, bookVars, Holding
<1>13. ASSUME NEW w \in Workers, ReleaseForRetry(w) PROVE BookInv'
  <2>1. /\ status[item[w].request] = "PROCESSING"
        /\ status' = [status EXCEPT ![item[w].request] = "REQUESTED"]
        /\ UNCHANGED <<seats, reservations, reservationSeats>>
    BY <1>13 DEF ReleaseForRetry, Owns, MoveTo
  <2>2. /\ pc[w] \in Holding /\ pc'[w] \in {"idle", "recovering"}
        /\ pc'[w] = "recovering" => UNCHANGED item
        /\ \A v \in Workers \ {w} : Untouched(v)
    BY <1>13, <1>a, EndPassFrame DEF ReleaseForRetry, Holding
  <2> QED
    BY <2>1, <2>2, <1>a, BookFrame DEF RowTypes, Untouched, Holding
<1>14. ASSUME NEW w \in Workers, Fail(w) PROVE BookInv'
  <2>1. /\ status[item[w].request] = "PROCESSING"
        /\ status' = [status EXCEPT ![item[w].request] = "FAILED"]
        /\ UNCHANGED <<seats, reservations, reservationSeats>>
    BY <1>14 DEF Fail, Owns, MoveTo
  <2>2. /\ pc[w] \in Holding /\ pc'[w] \in {"idle", "recovering"}
        /\ pc'[w] = "recovering" => UNCHANGED item
        /\ \A v \in Workers \ {w} : Untouched(v)
    BY <1>14, <1>a, EndPassFrame DEF Fail, Holding
  <2> QED
    BY <2>1, <2>2, <1>a, BookFrame DEF RowTypes, Untouched, Holding
<1>15. ASSUME NEW w \in Workers, ClaimLost(w) PROVE BookInv'
  <2>1. UNCHANGED <<rowVars, bookVars>>
    BY <1>15 DEF ClaimLost
  <2> QED
    BY <1>15, <2>1, <1>a, BookFrame, EndPassFrame, GotoFrame DEF ClaimLost, RowLocking, Untouched, rowVars, bookVars, Holding
<1>16. ASSUME NEW w \in Workers, CallThrows(w) PROVE BookInv'
  <2>1. UNCHANGED <<rowVars, bookVars>>
    BY <1>16 DEF CallThrows
  <2> QED
    BY <1>16, <2>1, <1>a, BookFrame, GotoFrame DEF CallThrows, Untouched, rowVars, bookVars, Holding
<1>17. ASSUME NEW w \in Workers, PassThrows(w) PROVE BookInv'
  <2>1. UNCHANGED <<rowVars, bookVars>>
    BY <1>17 DEF PassThrows
  <2> QED
    BY <1>17, <2>1, <1>a, BookFrame, EndPassFrame DEF PassThrows, Untouched, rowVars, bookVars, Holding
<1>18. ASSUME NEW w \in Workers, Crash(w) PROVE BookInv'
  <2>1. UNCHANGED <<rowVars, bookVars>>
    BY <1>18 DEF Crash
  <2> QED
    BY <1>18, <2>1, <1>a, BookFrame, EndPassFrame DEF Crash, Untouched, rowVars, bookVars, Holding
<1>19. ASSUME NEW w \in Workers, Restart(w) PROVE BookInv'
  <2>1. UNCHANGED <<rowVars, bookVars>>
    BY <1>19 DEF Restart
  <2> QED
    BY <1>19, <2>1, <1>a, BookFrame, EndPassFrame DEF Restart, Untouched, rowVars, bookVars, Holding
<1>20. ASSUME NEW w \in Workers, NEW offset \in Offsets, SendBeat(w, offset) PROVE BookInv'
  BY <1>20, <1>a, BookFrame DEF SendBeat, rowVars, bookVars, workerVars
<1>21. ASSUME NEW b \in beats, ExecuteBeat(b) PROVE BookInv'
  BY <1>21, <1>a, BookFrame DEF ExecuteBeat, bookVars, workerVars
<1>22. ASSUME NEW b \in beats, LoseBeat(b) PROVE BookInv'
  BY <1>22, <1>a, BookFrame DEF LoseBeat, rowVars, bookVars, workerVars
<1>23. ASSUME Tick PROVE BookInv'
  BY <1>23, <1>a, BookFrame DEF Tick, bookVars
<1>24. ASSUME UNCHANGED vars PROVE BookInv'
  BY <1>24, <1>a, BookFrame DEF vars, rowVars, bookVars, workerVars
<1> QED
  BY <1>1, <1>2, <1>3, <1>4, <1>5, <1>6, <1>7, <1>8, <1>9, <1>10, <1>11, <1>12, <1>13, <1>14, <1>15, <1>16, <1>17, <1>18, <1>19, <1>20, <1>21, <1>22, <1>23, <1>24
  DEF Next, WorkerStep, ClaimStep, Disturbance, HeartbeatStep

-----------------------------------------------------------------------------
(* The invariants of every behaviour. *)

BaseInv == TypeOK /\ LockInv /\ BookInv

THEOREM BaseInvariant == Spec => []BaseInv
<1>1. Init => BaseInv
  BY TypeInit, LockInit, BookInit DEF BaseInv
<1>2. BaseInv /\ [Next]_vars => BaseInv'
  BY TypeNext, LockNext, BookNext DEF BaseInv
<1> QED
  BY <1>1, <1>2, PTL DEF Spec

\* However passes interleave, no seat is held by two reservations: the unique
\* index decides when two confirms follow conflict lookups that found nothing.
THEOREM SeatsAreBookedOnce == Spec => []NoDoubleBooking
<1>1. BaseInv => NoDoubleBooking
  BY DEF BaseInv, BookInv
<1> QED
  BY <1>1, BaseInvariant, PTL

\* CONFIRMED requests, and no others, have a reservation with all their seats.
THEOREM ConfirmationIsWhole == Spec => []ReservationIffConfirmed
<1>1. BaseInv => ReservationIffConfirmed
  BY DEF BaseInv, BookInv
<1> QED
  BY <1>1, BaseInvariant, PTL

\* A unique violation can always be answered with a rejection: the lookup that
\* follows the rolled back confirm finds the winner.
THEOREM WinnerIsFound == Spec => []WinnerIsVisible
<1>1. BaseInv => WinnerIsVisible
  BY DEF BaseInv, BookInv
<1> QED
  BY <1>1, BaseInvariant, PTL

-----------------------------------------------------------------------------
(* Claim tokens. *)

\* The token of a row is the last one handed out while the claim lasts.
RowTokens ==
  \A r \in Requests :
    /\ status[r] = "PROCESSING" => claims[r] > 0 /\ claimToken[r] = claims[r]
    /\ status[r] # "PROCESSING" => claimToken[r] = None

HeldTokens ==
  \A w \in Workers : pc[w] \in Holding =>
    item[w].claimToken > 0 /\ item[w].claimToken <= claims[item[w].request]

\* No two passes ever hold the same claim.
HeldApart ==
  \A w, v \in Workers :
    /\ pc[w] \in Holding /\ pc[v] \in Holding
    /\ item[w].request = item[v].request
    /\ item[w].claimToken = item[v].claimToken
    => w = v

\* The failure count of a work item is the row's while the claim lasts.
CountIsFresh ==
  \A w \in Workers : pc[w] \in Holding /\ Owns(w) =>
    item[w].transientFailureCount = transientFailureCount[item[w].request]

ClaimInv == RowTokens /\ HeldTokens /\ HeldApart /\ CountIsFresh

LEMMA ClaimInit == Init => ClaimInv
  BY DEF Init, ClaimInv, RowTokens, HeldTokens, HeldApart, CountIsFresh, Holding

\* A row keeps its claim, or ends it.
KeepsOrEndsClaim(r) ==
  \/ /\ status'[r] = status[r] /\ claimToken'[r] = claimToken[r]
     /\ transientFailureCount'[r] = transientFailureCount[r]
  \/ status[r] = "ABSENT" /\ status'[r] = "REQUESTED" /\ claimToken'[r] = claimToken[r]
  \/ status'[r] # "PROCESSING" /\ claimToken'[r] = None

\* A step that claims nothing preserves ClaimInv.
LEMMA ClaimFrame ==
  ASSUME TypeOK, ClaimInv, UNCHANGED claims,
         \A r \in Requests : KeepsOrEndsClaim(r),
         \A v \in Workers : pc'[v] \in Holding => pc[v] \in Holding /\ item'[v] = item[v]
  PROVE  ClaimInv'
<1>1. RowTokens'
  BY DEF TypeOK, RowTypes, ClaimInv, RowTokens, KeepsOrEndsClaim
<1>2. HeldTokens' /\ HeldApart'
  BY DEF ClaimInv, HeldTokens, HeldApart
<1>3. ASSUME NEW w \in Workers, pc'[w] \in Holding, Owns(w)'
      PROVE  item'[w].transientFailureCount = transientFailureCount'[item'[w].request]
  <2>1. pc[w] \in Holding /\ item'[w] = item[w] /\ item[w].request \in Requests
    BY <1>3 DEF TypeOK, PassTypes
  <2>2. /\ status'[item[w].request] = "PROCESSING"
        /\ claimToken'[item[w].request] = item[w].claimToken
    BY <1>3, <2>1 DEF Owns
  <2>3. /\ status[item[w].request] = "PROCESSING"
        /\ claimToken[item[w].request] = item[w].claimToken
        /\ transientFailureCount'[item[w].request] = transientFailureCount[item[w].request]
    BY <2>1, <2>2 DEF KeepsOrEndsClaim
  <2> QED
    BY <2>1, <2>3 DEF ClaimInv, CountIsFresh, Owns
<1> QED
  BY <1>1, <1>2, <1>3 DEF ClaimInv, CountIsFresh

LEMMA MoveToEndsClaim ==
  ASSUME TypeOK, NEW r \in Requests, NEW newStatus \in RequestStatus \ {"PROCESSING"},
         MoveTo(r, newStatus),
         \A q \in Requests \ {r} : transientFailureCount'[q] = transientFailureCount[q]
  PROVE  \A q \in Requests : KeepsOrEndsClaim(q)
  BY DEF TypeOK, RowTypes, MoveTo, KeepsOrEndsClaim, None

LEMMA ClaimNext == BaseInv /\ ClaimInv /\ [Next]_vars => ClaimInv'
<1> SUFFICES ASSUME BaseInv, ClaimInv, [Next]_vars PROVE ClaimInv'
  OBVIOUS
<1>a. TypeOK /\ RowTypes /\ BookTypes /\ PassTypes /\ LockInv
  BY DEF TypeOK, BaseInv
<1>1. ASSUME NEW r \in Requests, NEW wanted \in SUBSET Seats, Submit(r, wanted) PROVE ClaimInv'
  BY <1>1, <1>a, ClaimFrame DEF Submit, RowTypes, KeepsOrEndsClaim, workerVars
<1>2. ASSUME NEW w \in Workers, Poll(w) PROVE ClaimInv'
  BY <1>2, <1>a, ClaimFrame DEF Poll, StartPoll, PassTypes, KeepsOrEndsClaim, rowVars, Holding
<1>3. ASSUME NEW w \in Workers, Select(w) PROVE ClaimInv'
  BY <1>3, <1>a, ClaimFrame DEF Select, PassTypes, KeepsOrEndsClaim, rowVars, Holding
<1>4. ASSUME NEW w \in Workers, FindNothing(w) PROVE ClaimInv'
  BY <1>4, <1>a, ClaimFrame, EndPassFrame DEF FindNothing, Untouched, KeepsOrEndsClaim, rowVars, Holding
<1>5. ASSUME NEW w \in Workers, CommitClaim(w) PROVE ClaimInv'
  <2> DEFINE r == item[w].request
  <2>0. r \in Requests /\ claims[r] \in Nat
    BY <1>5, <1>a DEF CommitClaim, PassTypes, RowTypes
  <2>1. /\ claims' = [claims EXCEPT ![r] = claims[r] + 1]
        /\ status' = [status EXCEPT ![r] = "PROCESSING"]
        /\ claimToken' = [claimToken EXCEPT ![r] = claims[r] + 1]
        /\ transientFailureCount' = transientFailureCount
    <3>1. claims' = [claims EXCEPT ![r] = claims[r] + 1]
      BY <1>5 DEF CommitClaim
    <3>2. status' = [status EXCEPT ![r] = "PROCESSING"]
      BY <1>5 DEF CommitClaim
    <3>3. claimToken' = [claimToken EXCEPT ![r] = claims[r] + 1] /\ UNCHANGED transientFailureCount
      BY <1>5 DEF CommitClaim, FreshToken
    <3> QED
      BY <3>1, <3>2, <3>3
  <2>2. /\ pc[w] = "selected" /\ pc'[w] = "claimed"
        /\ item'[w].request = r
        /\ item'[w].claimToken = claims[r] + 1
        /\ item'[w].transientFailureCount = transientFailureCount[r]
        /\ \A v \in Workers \ {w} : Untouched(v)
    BY <1>5, <1>a DEF CommitClaim, FreshToken, PassTypes, Untouched
  <2>3. RowTokens'
    BY <2>0, <2>1, <1>a DEF ClaimInv, RowTokens, RowTypes, None
  <2>4. HeldTokens'
    <3>1. \A q \in Requests : claims[q] \in Nat /\ claims'[q] \in Nat /\ claims[q] <= claims'[q]
      BY <2>0, <2>1, <1>a DEF RowTypes
    <3>2. ASSUME NEW v \in Workers \ {w}, pc'[v] \in Holding
          PROVE  item'[v].claimToken > 0 /\ item'[v].claimToken <= claims'[item'[v].request]
      BY <2>2, <3>1, <3>2, <1>a DEF ClaimInv, HeldTokens, Untouched, PassTypes, WorkItem
    <3>3. claims'[r] = claims[r] + 1
      BY <2>0, <2>1, <1>a DEF RowTypes
    <3> HIDE DEF r
    <3> QED
      BY <2>0, <2>2, <3>2, <3>3 DEF HeldTokens
  <2>5. HeldApart'
    <3>1. \A v \in Workers \ {w} : pc[v] \in Holding /\ item[v].request = r =>
            item[v].claimToken # claims[r] + 1
      BY <2>0 DEF ClaimInv, HeldTokens
    <3> HIDE DEF r
    <3> QED
      BY <2>2, <3>1 DEF ClaimInv, HeldApart, Untouched
  <2>6. CountIsFresh'
    <3>1. ASSUME NEW v \in Workers \ {w}, pc'[v] \in Holding, Owns(v)'
          PROVE  item[v].transientFailureCount = transientFailureCount[item[v].request]
      <4>1. pc[v] \in Holding /\ item'[v] = item[v] /\ item[v].request \in Requests
        BY <2>2, <3>1, <1>a DEF Untouched, PassTypes
      <4>2. item[v].request # r
        BY <2>0, <2>1, <3>1, <4>1, <1>a DEF ClaimInv, HeldTokens, Owns, RowTypes
      <4> QED
        BY <2>0, <2>1, <3>1, <4>1, <4>2, <1>a DEF ClaimInv, CountIsFresh, Owns, RowTypes
    <3> QED
      BY <2>1, <2>2, <3>1 DEF CountIsFresh, Untouched
  <2> QED
    BY <2>3, <2>4, <2>5, <2>6 DEF ClaimInv
<1>6. ASSUME NEW w \in Workers, FailExpiredClaim(w) PROVE ClaimInv'
  <2>1. /\ item[w].request \in Requests
        /\ MoveTo(item[w].request, "FAILED") /\ UNCHANGED claims
        /\ \A q \in Requests \ {item[w].request} : transientFailureCount'[q] = transientFailureCount[q]
    BY <1>6, <1>a DEF FailExpiredClaim, MoveTo, PassTypes, RowTypes, Holding
  <2>2. \A v \in Workers : pc'[v] \in Holding => pc[v] \in Holding /\ item'[v] = item[v]
    BY <1>6, <1>a, EndPassFrame DEF FailExpiredClaim, Untouched, Holding
  <2> QED
    BY <2>1, <2>2, <1>a, MoveToEndsClaim, ClaimFrame DEF RequestStatus
<1>7. ASSUME NEW w \in Workers, FindConflict(w) PROVE ClaimInv'
  BY <1>7, <1>a, ClaimFrame DEF FindConflict, PassTypes, KeepsOrEndsClaim, rowVars, Holding
<1>8. ASSUME NEW w \in Workers, FindNoConflict(w) PROVE ClaimInv'
  BY <1>8, <1>a, ClaimFrame, GotoFrame DEF FindNoConflict, Untouched, KeepsOrEndsClaim, rowVars, Holding
<1>9. ASSUME NEW w \in Workers, Reject(w) PROVE ClaimInv'
  <2>1. /\ item[w].request \in Requests
        /\ MoveTo(item[w].request, "REJECTED") /\ UNCHANGED claims
        /\ \A q \in Requests \ {item[w].request} : transientFailureCount'[q] = transientFailureCount[q]
    BY <1>9, <1>a DEF Reject, MoveTo, PassTypes, RowTypes, Holding
  <2>2. \A v \in Workers : pc'[v] \in Holding => pc[v] \in Holding /\ item'[v] = item[v]
    BY <1>9, <1>a, EndPassFrame, GotoFrame DEF Reject, Untouched, Holding, EndPassOrLoseReply
  <2> QED
    BY <2>1, <2>2, <1>a, MoveToEndsClaim, ClaimFrame DEF RequestStatus
<1>10. ASSUME NEW w \in Workers, Confirm(w) PROVE ClaimInv'
  <2>1. /\ item[w].request \in Requests
        /\ MoveTo(item[w].request, "CONFIRMED") /\ UNCHANGED claims
        /\ \A q \in Requests \ {item[w].request} : transientFailureCount'[q] = transientFailureCount[q]
    BY <1>10, <1>a DEF Confirm, MoveTo, PassTypes, RowTypes, Holding
  <2>2. \A v \in Workers : pc'[v] \in Holding => pc[v] \in Holding /\ item'[v] = item[v]
    BY <1>10, <1>a, EndPassFrame, GotoFrame DEF Confirm, Untouched, Holding, EndPassOrLoseReply
  <2> QED
    BY <2>1, <2>2, <1>a, MoveToEndsClaim, ClaimFrame DEF RequestStatus
<1>11. ASSUME NEW w \in Workers, ConfirmFindsSeatTaken(w) PROVE ClaimInv'
  BY <1>11, <1>a, ClaimFrame, GotoFrame DEF ConfirmFindsSeatTaken, Untouched, KeepsOrEndsClaim, rowVars, Holding
<1>12. ASSUME NEW w \in Workers, LookUpWinner(w) PROVE ClaimInv'
  BY <1>12, <1>a, ClaimFrame DEF LookUpWinner, PassTypes, KeepsOrEndsClaim, rowVars, Holding
<1>13. ASSUME NEW w \in Workers, ReleaseForRetry(w) PROVE ClaimInv'
  <2>1. /\ item[w].request \in Requests
        /\ MoveTo(item[w].request, "REQUESTED") /\ UNCHANGED claims
        /\ \A q \in Requests \ {item[w].request} : transientFailureCount'[q] = transientFailureCount[q]
    BY <1>13, <1>a DEF ReleaseForRetry, MoveTo, PassTypes, RowTypes, Holding
  <2>2. \A v \in Workers : pc'[v] \in Holding => pc[v] \in Holding /\ item'[v] = item[v]
    BY <1>13, <1>a, EndPassFrame DEF ReleaseForRetry, Untouched, Holding
  <2> QED
    BY <2>1, <2>2, <1>a, MoveToEndsClaim, ClaimFrame DEF RequestStatus
<1>14. ASSUME NEW w \in Workers, Fail(w) PROVE ClaimInv'
  <2>1. /\ item[w].request \in Requests
        /\ MoveTo(item[w].request, "FAILED") /\ UNCHANGED claims
        /\ \A q \in Requests \ {item[w].request} : transientFailureCount'[q] = transientFailureCount[q]
    BY <1>14, <1>a DEF Fail, MoveTo, PassTypes, RowTypes, Holding
  <2>2. \A v \in Workers : pc'[v] \in Holding => pc[v] \in Holding /\ item'[v] = item[v]
    BY <1>14, <1>a, EndPassFrame DEF Fail, Untouched, Holding
  <2> QED
    BY <2>1, <2>2, <1>a, MoveToEndsClaim, ClaimFrame DEF RequestStatus
<1>15. ASSUME NEW w \in Workers, ClaimLost(w) PROVE ClaimInv'
  BY <1>15, <1>a, ClaimFrame, EndPassFrame, GotoFrame DEF ClaimLost, RowLocking, Untouched, KeepsOrEndsClaim, rowVars, Holding
<1>16. ASSUME NEW w \in Workers, CallThrows(w) PROVE ClaimInv'
  BY <1>16, <1>a, ClaimFrame, GotoFrame DEF CallThrows, Untouched, KeepsOrEndsClaim, rowVars, Holding
<1>17. ASSUME NEW w \in Workers, PassThrows(w) PROVE ClaimInv'
  BY <1>17, <1>a, ClaimFrame, EndPassFrame DEF PassThrows, Untouched, KeepsOrEndsClaim, rowVars, Holding
<1>18. ASSUME NEW w \in Workers, Crash(w) PROVE ClaimInv'
  BY <1>18, <1>a, ClaimFrame, EndPassFrame DEF Crash, Untouched, KeepsOrEndsClaim, rowVars, Holding
<1>19. ASSUME NEW w \in Workers, Restart(w) PROVE ClaimInv'
  BY <1>19, <1>a, ClaimFrame, EndPassFrame DEF Restart, Untouched, KeepsOrEndsClaim, rowVars, Holding
<1>20. ASSUME NEW w \in Workers, NEW offset \in Offsets, SendBeat(w, offset) PROVE ClaimInv'
  BY <1>20, <1>a, ClaimFrame DEF SendBeat, KeepsOrEndsClaim, rowVars, workerVars
<1>21. ASSUME NEW b \in beats, ExecuteBeat(b) PROVE ClaimInv'
  BY <1>21, <1>a, ClaimFrame DEF ExecuteBeat, KeepsOrEndsClaim, workerVars
<1>22. ASSUME NEW b \in beats, LoseBeat(b) PROVE ClaimInv'
  BY <1>22, <1>a, ClaimFrame DEF LoseBeat, KeepsOrEndsClaim, rowVars, workerVars
<1>23. ASSUME Tick PROVE ClaimInv'
  BY <1>23, <1>a, ClaimFrame DEF Tick, KeepsOrEndsClaim
<1>24. ASSUME UNCHANGED vars PROVE ClaimInv'
  BY <1>24, <1>a, ClaimFrame DEF vars, KeepsOrEndsClaim, rowVars, workerVars
<1> QED
  BY <1>1, <1>2, <1>3, <1>4, <1>5, <1>6, <1>7, <1>8, <1>9, <1>10, <1>11, <1>12, <1>13, <1>14, <1>15, <1>16, <1>17, <1>18, <1>19, <1>20, <1>21, <1>22, <1>23, <1>24
  DEF Next, WorkerStep, ClaimStep, Disturbance, HeartbeatStep

LEMMA ClaimInvariant == Spec => [](BaseInv /\ ClaimInv)
<1>1. Init => ClaimInv
  BY ClaimInit
<1>2. BaseInv /\ ClaimInv /\ [Next]_vars => ClaimInv'
  BY ClaimNext
<1> QED
  BY <1>1, <1>2, BaseInvariant, PTL DEF Spec

\* At most one pass owns a request, whatever leases ran out and whatever stale
\* passes are still running, and it counts failures from the row's own count.
THEOREM ClaimsAreExclusive == Spec => []ExclusiveClaim
<1>1. BaseInv /\ ClaimInv => ExclusiveClaim
  BY DEF ClaimInv, HeldApart, CountIsFresh, ExclusiveClaim, Owns
<1> QED
  BY <1>1, ClaimInvariant, PTL

-----------------------------------------------------------------------------
(* The history of attempts. *)

LEMMA RecordEffect ==
  ASSUME BookTypes, NEW r \in Requests, NEW claim \in Nat, NEW outcome \in Outcomes,
         NEW with \in Requests \cup {None}, Record(r, claim, outcome, with)
  PROVE  /\ \A q \in Requests \ {r} : attempts'[q] = attempts[q]
         /\ Len(attempts[r]) \in Nat
         /\ Len(attempts'[r]) = Len(attempts[r]) + 1
         /\ \A i \in 1..Len(attempts[r]) : attempts'[r][i] = attempts[r][i]
         /\ attempts'[r][Len(attempts[r]) + 1]
              = [claim |-> claim, outcome |-> outcome, conflict |-> with]
         /\ attempts'[r][Len(attempts[r]) + 1].outcome = outcome
<1> DEFINE new == [claim |-> claim, outcome |-> outcome, conflict |-> with]
<1>1. new \in Attempt /\ attempts[r] \in Seq(Attempt)
  BY DEF Attempt, BookTypes
<1>2. /\ \A q \in Requests \ {r} : attempts'[q] = attempts[q]
      /\ attempts'[r] = Append(attempts[r], new)
  BY DEF Record, BookTypes
<1> HIDE DEF new
<1>3. /\ Len(attempts[r]) \in Nat
      /\ Len(attempts'[r]) = Len(attempts[r]) + 1
      /\ \A i \in 1..Len(attempts[r]) : attempts'[r][i] = attempts[r][i]
      /\ attempts'[r][Len(attempts[r]) + 1] = new
  BY <1>1, <1>2, AppendProperties
<1>4. new.outcome = outcome
  BY DEF new
<1> QED
  BY <1>2, <1>3, <1>4 DEF new

\* What an attempt in the history says about the request: the claim it was
\* recorded under has ended, and a deciding outcome is the request's state.
Explains(a, r) ==
  /\ a.claim <= claims[r]
  /\ status[r] = "PROCESSING" => a.claim < claims[r]
  /\ a.outcome = "confirmed" => status[r] = "CONFIRMED"
  /\ a.outcome = "rejected" => status[r] = "REJECTED" /\ Wins(a.conflict, r)
  /\ a.outcome = "lease-timeout" => status[r] = "FAILED"

HistoryInv ==
  /\ \A r \in Requests : \A i \in 1..Len(attempts[r]) : Explains(attempts[r][i], r)
  /\ OneAttemptPerClaim

LEMMA HistoryInit == Init => HistoryInv
  BY DEF Init, HistoryInv, OneAttemptPerClaim

\* A step that records nothing leaves every attempt explained.
KeepsHistory(r) ==
  /\ seats'[r] = seats[r] \/ status[r] = "ABSENT"
  /\ transientFailureCount'[r] = transientFailureCount[r]
  /\ \/ status'[r] = status[r] /\ claims'[r] = claims[r]
     \/ status[r] = "ABSENT" /\ status'[r] = "REQUESTED" /\ claims'[r] = claims[r]
     \/ /\ status[r] \in {"REQUESTED", "PROCESSING"} /\ status'[r] = "PROCESSING"
        /\ claims'[r] = claims[r] + 1

LEMMA HistoryFrame ==
  ASSUME BaseInv, HistoryInv, UNCHANGED <<attempts, reservations>>,
         \A r \in Requests : KeepsHistory(r)
  PROVE  HistoryInv'
<1>1. ASSUME NEW r \in Requests, NEW i \in 1..Len(attempts[r])
      PROVE  Explains(attempts[r][i], r)'
  <2>1. attempts[r][i] \in Attempt /\ claims[r] \in Nat /\ reservations \subseteq Requests
    BY DEF BaseInv, TypeOK, RowTypes, BookTypes
  <2>2. PICK a \in Attempt : a = attempts[r][i]
    BY <2>1
  <2>3. Explains(a, r) /\ a.claim \in Nat /\ attempts'[r][i] = a
    BY <2>2 DEF HistoryInv, Attempt
  <2>4. KeepsHistory(r)
    OBVIOUS
  <2>5. \A q \in reservations : seats'[q] = seats[q]
    BY <2>1 DEF BaseInv, BookInv, ReservationIffConfirmed, KeepsHistory
  <2>6. status[r] = "REJECTED" /\ Wins(a.conflict, r) => Wins(a.conflict, r)'
    BY <2>4, <2>5 DEF Wins, KeepsHistory
  <2>7. Explains(a, r)'
    BY <2>1, <2>3, <2>4, <2>6 DEF Explains, KeepsHistory
  <2> QED
    BY <2>3, <2>7 DEF Explains
<1>2. OneAttemptPerClaim'
  BY DEF HistoryInv, OneAttemptPerClaim
<1> QED
  BY <1>1, <1>2 DEF HistoryInv

\* A step that ends a claim and records its attempt.
EndsClaimWith(r, newStatus, outcome, with) ==
  /\ status[r] = "PROCESSING"
  /\ MoveTo(r, newStatus)
  /\ Record(r, claims[r], outcome, with)

LEMMA HistoryRecord ==
  ASSUME BaseInv, HistoryInv, NEW r \in Requests,
         NEW newStatus \in {"REQUESTED", "CONFIRMED", "REJECTED", "FAILED"},
         NEW outcome \in Outcomes, NEW with \in Requests \cup {None},
         EndsClaimWith(r, newStatus, outcome, with),
         reservations \subseteq reservations',
         outcome = "confirmed" => newStatus = "CONFIRMED",
         outcome = "rejected" => newStatus = "REJECTED" /\ Wins(with, r),
         outcome = "lease-timeout" => newStatus = "FAILED"
  PROVE  HistoryInv'
<1>1. /\ status'[r] = newStatus /\ UNCHANGED <<seats, claims>>
      /\ \A q \in Requests \ {r} : status'[q] = status[q]
  BY DEF BaseInv, TypeOK, RowTypes, EndsClaimWith, MoveTo
<1>2. claims[r] \in Nat /\ BookTypes
  BY DEF BaseInv, TypeOK, RowTypes
<1>3. /\ \A q \in Requests \ {r} : attempts'[q] = attempts[q]
      /\ Len(attempts[r]) \in Nat
      /\ Len(attempts'[r]) = Len(attempts[r]) + 1
      /\ \A i \in 1..Len(attempts[r]) : attempts'[r][i] = attempts[r][i]
      /\ attempts'[r][Len(attempts[r]) + 1]
           = [claim |-> claims[r], outcome |-> outcome, conflict |-> with]
  BY <1>2, RecordEffect DEF EndsClaimWith
<1>4. \A q \in Requests : \A p : Wins(p, q) => Wins(p, q)'
  BY <1>1 DEF Wins
<1>5. ASSUME NEW q \in Requests \ {r}, NEW i \in 1..Len(attempts'[q])
      PROVE  Explains(attempts[q][i], q)'
  BY <1>1, <1>3, <1>4 DEF HistoryInv, Explains
<1>6. ASSUME NEW i \in 1..Len(attempts[r])
      PROVE  attempts[r][i].claim < claims[r] /\ Explains(attempts[r][i], r)'
  <2>1. Explains(attempts[r][i], r) /\ status[r] = "PROCESSING"
    BY DEF HistoryInv, EndsClaimWith
  <2> QED
    BY <1>1, <1>3, <2>1 DEF Explains
<1>7. Explains(attempts[r][Len(attempts[r])], r)'
  <2>1. PICK a : a = [claim |-> claims[r], outcome |-> outcome, conflict |-> with]
    OBVIOUS
  <2>2. attempts'[r][Len(attempts'[r])] = a
    BY <1>3, <2>1
  <2>3. a.claim = claims[r] /\ a.outcome = outcome /\ a.conflict = with
    BY <2>1
  <2>4. Explains(a, r)'
    BY <1>1, <1>2, <1>4, <2>3 DEF Explains
  <2> QED
    BY <2>2, <2>4 DEF Explains
<1>8. \A q \in Requests : \A i \in 1..Len(attempts'[q]) : Explains(attempts[q][i], q)'
  <2>1. ASSUME NEW i \in 1..Len(attempts'[r]) PROVE Explains(attempts[r][i], r)'
    <3>1. i \in 1..Len(attempts[r]) \/ i = Len(attempts'[r])
      BY <1>3
    <3> QED
      BY <1>6, <1>7, <3>1
  <2> QED
    BY <1>5, <2>1
<1>9. OneAttemptPerClaim'
  <2>1. ASSUME NEW q \in Requests \ {r},
               NEW i \in 1..Len(attempts'[q]), NEW j \in 1..Len(attempts'[q]), i < j
        PROVE  attempts'[q][i].claim < attempts'[q][j].claim
    BY <1>3, <2>1 DEF HistoryInv, OneAttemptPerClaim
  <2>2. ASSUME NEW i \in 1..Len(attempts'[r]), NEW j \in 1..Len(attempts'[r]), i < j
        PROVE  attempts'[r][i].claim < attempts'[r][j].claim
    <3>1. i \in 1..Len(attempts[r])
      BY <1>3, <2>2
    <3>2. CASE j \in 1..Len(attempts[r])
      <4>1. attempts[r][i].claim < attempts[r][j].claim
        BY <2>2, <3>1, <3>2 DEF HistoryInv, OneAttemptPerClaim
      <4> QED
        BY <1>3, <3>1, <3>2, <4>1
    <3>3. CASE j = Len(attempts[r]) + 1
      <4>1. attempts'[r][j].claim = claims[r]
        BY <1>3, <3>3
      <4> QED
        BY <1>3, <1>6, <3>1, <4>1
    <3> QED
      BY <1>3, <3>2, <3>3
  <2> QED
    BY <2>1, <2>2 DEF OneAttemptPerClaim
<1> QED
  BY <1>8, <1>9 DEF HistoryInv

\* Which steps record an attempt, and what they record.
Recording(w) ==
  LET r == item[w].request IN
  \/ FailExpiredClaim(w) /\ EndsClaimWith(r, "FAILED", "lease-timeout", None)
  \/ Reject(w) /\ EndsClaimWith(r, "REJECTED", "rejected", conflict[w]) /\ Wins(conflict[w], r)
  \/ Confirm(w) /\ EndsClaimWith(r, "CONFIRMED", "confirmed", None)
  \/ ReleaseForRetry(w) /\ EndsClaimWith(r, "REQUESTED", "unexpected-error", None)
  \/ Fail(w) /\ EndsClaimWith(r, "FAILED", "unexpected-error", None)

\* Every other step changes no attempt and no reservation.
LEMMA StepRecordsOrKeeps ==
  ASSUME BaseInv, ClaimInv, [Next]_vars
  PROVE  \/ \E w \in Workers : item[w].request \in Requests /\ Recording(w)
         \/ UNCHANGED <<attempts, reservations>> /\ \A r \in Requests : KeepsHistory(r)
<1> DEFINE Goal == \/ \E w \in Workers : item[w].request \in Requests /\ Recording(w)
                   \/ UNCHANGED <<attempts, reservations>> /\ \A r \in Requests : KeepsHistory(r)
<1>a. TypeOK /\ RowTypes /\ BookTypes /\ PassTypes /\ LockInv
  BY DEF TypeOK, BaseInv
<1>b. \A w \in Workers : pc[w] \in Holding /\ Owns(w) =>
        item[w].request \in Requests /\ item[w].claimToken = claims[item[w].request]
  BY <1>a DEF ClaimInv, RowTokens, Owns, PassTypes
<1>1. ASSUME NEW r \in Requests, NEW wanted \in SUBSET Seats, Submit(r, wanted) PROVE Goal
  BY <1>1, <1>a DEF Submit, KeepsHistory, RowTypes, bookVars
<1>2. ASSUME NEW w \in Workers, Poll(w) PROVE Goal
  BY <1>2 DEF Poll, StartPoll, KeepsHistory, rowVars, bookVars
<1>3. ASSUME NEW w \in Workers, Select(w) PROVE Goal
  BY <1>3 DEF Select, KeepsHistory, rowVars, bookVars
<1>4. ASSUME NEW w \in Workers, FindNothing(w) PROVE Goal
  BY <1>4 DEF FindNothing, KeepsHistory, rowVars, bookVars
<1>5. ASSUME NEW w \in Workers, CommitClaim(w) PROVE Goal
  <2> DEFINE r == item[w].request
  <2>1. r \in Requests /\ status[r] \in {"REQUESTED", "PROCESSING"}
    BY <1>5, <1>a DEF CommitClaim, PassTypes, LockInv, SelectedIsOpen
  <2>2. status' = [status EXCEPT ![r] = "PROCESSING"]
    BY <1>5 DEF CommitClaim
  <2>3. claims' = [claims EXCEPT ![r] = claims[r] + 1]
    BY <1>5 DEF CommitClaim
  <2>4. UNCHANGED <<seats, attempts, reservations, transientFailureCount>>
    BY <1>5 DEF CommitClaim, bookVars
  <2> HIDE DEF r
  <2>5. \A q \in Requests : KeepsHistory(q)
    BY <2>1, <2>2, <2>3, <2>4, <1>a DEF RowTypes, KeepsHistory
  <2> QED
    BY <2>4, <2>5
<1>6. ASSUME NEW w \in Workers, FailExpiredClaim(w) PROVE Goal
  BY <1>6, <1>a DEF FailExpiredClaim, LeaseBudgetSpent, PassTypes, Recording, EndsClaimWith
<1>7. ASSUME NEW w \in Workers, FindConflict(w) PROVE Goal
  BY <1>7 DEF FindConflict, KeepsHistory, rowVars, bookVars
<1>8. ASSUME NEW w \in Workers, FindNoConflict(w) PROVE Goal
  BY <1>8 DEF FindNoConflict, KeepsHistory, rowVars, bookVars
<1>9. ASSUME NEW w \in Workers, Reject(w) PROVE Goal
  <2>1. Wins(conflict[w], item[w].request)
    BY <1>9 DEF Reject, BaseInv, BookInv, ConflictWins
  <2> QED
    BY <1>9, <2>1, <1>b DEF Reject, Owns, Holding, Recording, EndsClaimWith
<1>10. ASSUME NEW w \in Workers, Confirm(w) PROVE Goal
  BY <1>10, <1>b DEF Confirm, Owns, Holding, Recording, EndsClaimWith
<1>11. ASSUME NEW w \in Workers, ConfirmFindsSeatTaken(w) PROVE Goal
  BY <1>11 DEF ConfirmFindsSeatTaken, KeepsHistory, rowVars, bookVars
<1>12. ASSUME NEW w \in Workers, LookUpWinner(w) PROVE Goal
  BY <1>12 DEF LookUpWinner, KeepsHistory, rowVars, bookVars
<1>13. ASSUME NEW w \in Workers, ReleaseForRetry(w) PROVE Goal
  BY <1>13, <1>b DEF ReleaseForRetry, Owns, Holding, Recording, EndsClaimWith
<1>14. ASSUME NEW w \in Workers, Fail(w) PROVE Goal
  BY <1>14, <1>b DEF Fail, Owns, Holding, Recording, EndsClaimWith
<1>15. ASSUME NEW w \in Workers, ClaimLost(w) PROVE Goal
  BY <1>15 DEF ClaimLost, KeepsHistory, rowVars, bookVars
<1>16. ASSUME NEW w \in Workers, CallThrows(w) PROVE Goal
  BY <1>16 DEF CallThrows, KeepsHistory, rowVars, bookVars
<1>17. ASSUME NEW w \in Workers, PassThrows(w) PROVE Goal
  BY <1>17 DEF PassThrows, KeepsHistory, rowVars, bookVars
<1>18. ASSUME NEW w \in Workers, Crash(w) PROVE Goal
  BY <1>18 DEF Crash, KeepsHistory, rowVars, bookVars
<1>19. ASSUME NEW w \in Workers, Restart(w) PROVE Goal
  BY <1>19 DEF Restart, KeepsHistory, rowVars, bookVars
<1>20. ASSUME NEW w \in Workers, NEW offset \in Offsets, SendBeat(w, offset) PROVE Goal
  BY <1>20 DEF SendBeat, KeepsHistory, rowVars, bookVars
<1>21. ASSUME NEW b \in beats, ExecuteBeat(b) PROVE Goal
  BY <1>21 DEF ExecuteBeat, KeepsHistory, rowVars, bookVars
<1>22. ASSUME NEW b \in beats, LoseBeat(b) PROVE Goal
  BY <1>22 DEF LoseBeat, KeepsHistory, rowVars, bookVars
<1>23. ASSUME Tick PROVE Goal
  BY <1>23 DEF Tick, KeepsHistory, rowVars, bookVars
<1>24. ASSUME UNCHANGED vars PROVE Goal
  BY <1>24 DEF vars, KeepsHistory, rowVars, bookVars
<1> QED
  BY <1>1, <1>2, <1>3, <1>4, <1>5, <1>6, <1>7, <1>8, <1>9, <1>10, <1>11, <1>12, <1>13, <1>14, <1>15, <1>16, <1>17, <1>18, <1>19, <1>20, <1>21, <1>22, <1>23, <1>24
  DEF Next, WorkerStep, ClaimStep, Disturbance, HeartbeatStep

LEMMA HistoryNext == BaseInv /\ ClaimInv /\ HistoryInv /\ [Next]_vars => HistoryInv'
<1> SUFFICES ASSUME BaseInv, ClaimInv, HistoryInv, [Next]_vars PROVE HistoryInv'
  OBVIOUS
<1>1. CASE UNCHANGED <<attempts, reservations>> /\ \A r \in Requests : KeepsHistory(r)
  BY <1>1, HistoryFrame
<1>2. ASSUME NEW w \in Workers, item[w].request \in Requests, Recording(w) PROVE HistoryInv'
  <2>1. /\ None \in Requests \cup {None} /\ conflict[w] \in Requests \cup {None}
        /\ {"lease-timeout", "rejected", "confirmed", "unexpected-error"} \subseteq Outcomes
    BY DEF BaseInv, TypeOK, PassTypes, Outcomes
  <2>2. CASE FailExpiredClaim(w) /\ EndsClaimWith(item[w].request, "FAILED", "lease-timeout", None)
    BY <1>2, <2>1, <2>2, HistoryRecord DEF FailExpiredClaim
  <2>3. CASE /\ Reject(w) /\ Wins(conflict[w], item[w].request)
             /\ EndsClaimWith(item[w].request, "REJECTED", "rejected", conflict[w])
    BY <1>2, <2>1, <2>3, HistoryRecord DEF Reject
  <2>4. CASE Confirm(w) /\ EndsClaimWith(item[w].request, "CONFIRMED", "confirmed", None)
    BY <1>2, <2>1, <2>4, HistoryRecord DEF Confirm
  <2>5. CASE ReleaseForRetry(w) /\ EndsClaimWith(item[w].request, "REQUESTED", "unexpected-error", None)
    BY <1>2, <2>1, <2>5, HistoryRecord DEF ReleaseForRetry
  <2>6. CASE Fail(w) /\ EndsClaimWith(item[w].request, "FAILED", "unexpected-error", None)
    BY <1>2, <2>1, <2>6, HistoryRecord DEF Fail
  <2> QED
    BY <1>2, <2>2, <2>3, <2>4, <2>5, <2>6 DEF Recording
<1> QED
  BY <1>1, <1>2, StepRecordsOrKeeps

LEMMA HistoryInvariant == Spec => [](BaseInv /\ ClaimInv /\ HistoryInv)
<1>1. Init => HistoryInv
  BY HistoryInit
<1>2. BaseInv /\ ClaimInv /\ HistoryInv /\ [Next]_vars => HistoryInv'
  BY HistoryNext
<1> QED
  BY <1>1, <1>2, ClaimInvariant, PTL DEF Spec

\* A rejection always names a confirmed reservation of another request for one
\* of the seats, found by the lookup or by the unique index.
THEOREM RejectionsAreJustified == Spec => []RejectionNamesWinner
<1>1. BaseInv /\ HistoryInv => RejectionNamesWinner
  <2> SUFFICES ASSUME BaseInv, HistoryInv,
                      NEW r \in Requests, NEW i \in 1..Len(attempts[r]),
                      attempts[r][i].outcome = "rejected"
               PROVE  /\ attempts[r][i].conflict \in reservations \ {r}
                      /\ seats[attempts[r][i].conflict] \cap seats[r] # {}
    BY DEF RejectionNamesWinner
  <2>1. status[r] = "REJECTED" /\ Wins(attempts[r][i].conflict, r)
    BY DEF HistoryInv, Explains
  <2>2. r \notin reservations
    BY <2>1 DEF BaseInv, BookInv, ReservationIffConfirmed
  <2> QED
    BY <2>1, <2>2 DEF Wins
<1> QED
  BY <1>1, HistoryInvariant, PTL

\* A claim is recorded in the history at most once, in the order of the claims,
\* although passes act again after lost replies and lost claims.
THEOREM ClaimsAreRecordedOnce == Spec => []OneAttemptPerClaim
<1>1. HistoryInv => OneAttemptPerClaim
  BY DEF HistoryInv
<1> QED
  BY <1>1, HistoryInvariant, PTL

-----------------------------------------------------------------------------
(* The counters: the retry budgets, what becomes of every claim, and how the *)
(* counters agree with the history.                                          *)

LEMMA FailuresAreFinite ==
  ASSUME BookTypes, NEW r \in Requests
  PROVE  IsFiniteSet(Failures(r)) /\ Len(attempts[r]) + 1 \notin Failures(r)
<1>1. Len(attempts[r]) \in Nat
  BY DEF BookTypes
<1>2. IsFiniteSet(1..Len(attempts[r]))
  BY <1>1, FS_Interval
<1>3. Failures(r) \subseteq 1..Len(attempts[r])
  BY DEF Failures
<1> QED
  BY <1>1, <1>2, <1>3, FS_Subset

\* How ending a claim changes the failures in the history.
LEMMA FailuresAfter ==
  ASSUME BookTypes, NEW r \in Requests, NEW claim \in Nat, NEW outcome \in Outcomes,
         NEW with \in Requests \cup {None}, Record(r, claim, outcome, with)
  PROVE  /\ \A q \in Requests \ {r} : Failures(q)' = Failures(q)
         /\ Failures(r)' = IF outcome = "unexpected-error"
                           THEN Failures(r) \cup {Len(attempts[r]) + 1} ELSE Failures(r)
         /\ Cardinality(Failures(r)') = IF outcome = "unexpected-error"
                                        THEN Cardinality(Failures(r)) + 1
                                        ELSE Cardinality(Failures(r))
<1>1. /\ \A q \in Requests \ {r} : attempts'[q] = attempts[q]
      /\ Len(attempts[r]) \in Nat
      /\ Len(attempts'[r]) = Len(attempts[r]) + 1
      /\ \A i \in 1..Len(attempts[r]) : attempts'[r][i] = attempts[r][i]
      /\ attempts'[r][Len(attempts[r]) + 1].outcome = outcome
  BY RecordEffect, ZenonT(30)
<1>2. \A q \in Requests \ {r} : Failures(q)' = Failures(q)
  BY <1>1 DEF Failures
<1>3. Failures(r)' = IF outcome = "unexpected-error"
                     THEN Failures(r) \cup {Len(attempts[r]) + 1} ELSE Failures(r)
  BY <1>1 DEF Failures
<1>4. Cardinality(Failures(r) \cup {Len(attempts[r]) + 1}) = Cardinality(Failures(r)) + 1
  BY FailuresAreFinite, FS_AddElement
<1> QED
  BY <1>2, <1>3, <1>4

\* The counters the invariants are about, after a step that ends a claim.
LEMMA EndOfClaim ==
  ASSUME BaseInv, HistoryInv, NEW r \in Requests,
         NEW newStatus \in {"REQUESTED", "CONFIRMED", "REJECTED", "FAILED"},
         NEW outcome \in Outcomes, NEW with \in Requests \cup {None},
         EndsClaimWith(r, newStatus, outcome, with)
  PROVE  /\ status[r] = "PROCESSING" /\ status'[r] = newStatus /\ UNCHANGED claims
         /\ \A q \in Requests \ {r} : status'[q] = status[q] /\ attempts'[q] = attempts[q]
         /\ ~TimedOutForGood(r)
         /\ TimedOutForGood(r)' <=> outcome = "lease-timeout"
<1>1. /\ status[r] = "PROCESSING" /\ status'[r] = newStatus /\ UNCHANGED claims
      /\ \A q \in Requests \ {r} : status'[q] = status[q]
  BY DEF BaseInv, TypeOK, RowTypes, EndsClaimWith, MoveTo
<1>2. /\ \A q \in Requests \ {r} : attempts'[q] = attempts[q]
      /\ Len(attempts[r]) \in Nat
      /\ Len(attempts'[r]) = Len(attempts[r]) + 1
      /\ \A i \in 1..Len(attempts[r]) : attempts'[r][i] = attempts[r][i]
      /\ attempts'[r][Len(attempts[r]) + 1].outcome = outcome
  <2>1. claims[r] \in Nat /\ BookTypes
    BY DEF BaseInv, TypeOK, RowTypes
  <2> QED
    BY <2>1, RecordEffect DEF EndsClaimWith
<1>3. ~TimedOutForGood(r)
  BY <1>1 DEF HistoryInv, Explains, TimedOutForGood
<1>4. TimedOutForGood(r)' <=> outcome = "lease-timeout"
  <2>1. \A i \in 1..Len(attempts'[r]) : i \in 1..Len(attempts[r]) \/ i = Len(attempts[r]) + 1
    BY <1>2
  <2>2. Len(attempts[r]) + 1 \in 1..Len(attempts'[r])
    BY <1>2
  <2> QED
    BY <1>2, <1>3, <2>1, <2>2 DEF TimedOutForGood
<1> QED
  BY <1>1, <1>2, <1>3, <1>4

-----------------------------------------------------------------------------
(* The retry budgets, and what becomes of every claim. *)

BudgetInv == RetryBudgets /\ EveryClaimAccounted

LEMMA BudgetInit == Init => BudgetInv
  BY BudgetsAssumption DEF Init, BudgetInv, RetryBudgets, EveryClaimAccounted, TimedOutForGood

\* A step that touches none of the counters and no history.
LEMMA BudgetFrame ==
  ASSUME BudgetInv,
         UNCHANGED <<claims, leaseTimeoutCount, transientFailureCount, attempts>>,
         \A r \in Requests : \/ status'[r] = status[r]
                             \/ status[r] = "ABSENT" /\ status'[r] = "REQUESTED"
  PROVE  BudgetInv'
<1>1. RetryBudgets'
  BY DEF BudgetInv, RetryBudgets
<1>2. EveryClaimAccounted'
  BY DEF BudgetInv, EveryClaimAccounted, TimedOutForGood
<1> QED
  BY <1>1, <1>2 DEF BudgetInv

\* A step that ends the claim of r.
LEMMA BudgetRecord ==
  ASSUME BaseInv, HistoryInv, BudgetInv, NEW r \in Requests,
         NEW newStatus \in {"REQUESTED", "CONFIRMED", "REJECTED", "FAILED"},
         NEW outcome \in Outcomes, NEW with \in Requests \cup {None},
         EndsClaimWith(r, newStatus, outcome, with),
         UNCHANGED leaseTimeoutCount,
         \A q \in Requests \ {r} : transientFailureCount'[q] = transientFailureCount[q],
         \/ /\ outcome = "lease-timeout" /\ newStatus = "FAILED"
            /\ leaseTimeoutCount[r] >= MaxLeaseTimeouts
            /\ transientFailureCount'[r] = transientFailureCount[r]
         \/ /\ outcome \in {"confirmed", "rejected"} /\ newStatus \in {"CONFIRMED", "REJECTED"}
            /\ transientFailureCount'[r] = transientFailureCount[r]
         \/ /\ outcome = "unexpected-error" /\ newStatus = "REQUESTED"
            /\ transientFailureCount[r] + 1 < MaxTransientFailures
            /\ transientFailureCount'[r] = transientFailureCount[r] + 1
         \/ /\ outcome = "unexpected-error" /\ newStatus = "FAILED"
            /\ ~(transientFailureCount[r] + 1 < MaxTransientFailures)
            /\ transientFailureCount'[r] = transientFailureCount[r] + 1
  PROVE  BudgetInv'
<1>1. /\ status[r] = "PROCESSING" /\ status'[r] = newStatus /\ UNCHANGED claims
      /\ \A q \in Requests \ {r} : status'[q] = status[q] /\ attempts'[q] = attempts[q]
      /\ ~TimedOutForGood(r)
      /\ TimedOutForGood(r)' <=> outcome = "lease-timeout"
  BY EndOfClaim
<1>2. /\ \A q \in Requests : /\ leaseTimeoutCount[q] \in Nat /\ transientFailureCount[q] \in Nat
                             /\ claims[q] \in Nat
      /\ MaxLeaseTimeouts \in Nat /\ MaxTransientFailures \in Nat
  BY BudgetsAssumption DEF BaseInv, TypeOK, RowTypes
<1>3. RetryBudgets'
  BY <1>1, <1>2 DEF BudgetInv, RetryBudgets
<1>4. EveryClaimAccounted'
  <2>1. claims[r] = transientFailureCount[r] + leaseTimeoutCount[r] + 1
    BY <1>1 DEF BudgetInv, EveryClaimAccounted
  <2>2. claims'[r] = transientFailureCount'[r] + leaseTimeoutCount'[r]
          + IF status'[r] \in {"PROCESSING", "CONFIRMED", "REJECTED"} \/ TimedOutForGood(r)'
            THEN 1 ELSE 0
    BY <1>1, <1>2, <2>1
  <2>3. ASSUME NEW q \in Requests \ {r}
        PROVE  claims'[q] = transientFailureCount'[q] + leaseTimeoutCount'[q]
                 + IF status'[q] \in {"PROCESSING", "CONFIRMED", "REJECTED"} \/ TimedOutForGood(q)'
                   THEN 1 ELSE 0
    BY <1>1 DEF BudgetInv, EveryClaimAccounted, TimedOutForGood
  <2> QED
    BY <2>2, <2>3 DEF EveryClaimAccounted
<1> QED
  BY <1>3, <1>4 DEF BudgetInv

LEMMA BudgetNext == BaseInv /\ ClaimInv /\ HistoryInv /\ BudgetInv /\ [Next]_vars => BudgetInv'
<1> SUFFICES ASSUME BaseInv, ClaimInv, HistoryInv, BudgetInv, [Next]_vars PROVE BudgetInv'
  OBVIOUS
<1>a. TypeOK /\ RowTypes /\ BookTypes /\ PassTypes /\ LockInv
  BY DEF TypeOK, BaseInv
<1>b. \A w \in Workers : pc[w] \in Holding /\ Owns(w) =>
        /\ item[w].request \in Requests /\ item[w].claimToken = claims[item[w].request]
        /\ item[w].transientFailureCount = transientFailureCount[item[w].request]
  BY <1>a DEF ClaimInv, RowTokens, CountIsFresh, Owns, PassTypes
<1>c. /\ None \in Requests \cup {None} /\ \A w \in Workers : conflict[w] \in Requests \cup {None}
      /\ {"lease-timeout", "rejected", "confirmed", "unexpected-error"} \subseteq Outcomes
  BY <1>a DEF PassTypes, Outcomes
<1>1. ASSUME NEW r \in Requests, NEW wanted \in SUBSET Seats, Submit(r, wanted) PROVE BudgetInv'
  BY <1>1, <1>a, BudgetFrame DEF Submit, RowTypes, bookVars
<1>2. ASSUME NEW w \in Workers, Poll(w) PROVE BudgetInv'
  BY <1>2, BudgetFrame DEF Poll, StartPoll, rowVars, bookVars
<1>3. ASSUME NEW w \in Workers, Select(w) PROVE BudgetInv'
  BY <1>3, BudgetFrame DEF Select, rowVars, bookVars
<1>4. ASSUME NEW w \in Workers, FindNothing(w) PROVE BudgetInv'
  BY <1>4, BudgetFrame DEF FindNothing, rowVars, bookVars
<1>5. ASSUME NEW w \in Workers, CommitClaim(w) PROVE BudgetInv'
  <2> DEFINE r == item[w].request
  <2>1. r \in Requests /\ status[r] \in {"REQUESTED", "PROCESSING"}
    BY <1>5, <1>a DEF CommitClaim, PassTypes, LockInv, SelectedIsOpen
  <2>2. status' = [status EXCEPT ![r] = "PROCESSING"]
    BY <1>5 DEF CommitClaim
  <2>3. claims' = [claims EXCEPT ![r] = claims[r] + 1]
    BY <1>5 DEF CommitClaim
  <2>4. leaseTimeoutCount' = [leaseTimeoutCount EXCEPT ![r] =
          IF status[r] = "PROCESSING" THEN leaseTimeoutCount[r] + 1 ELSE leaseTimeoutCount[r]]
    BY <1>5 DEF CommitClaim, LeaseTimeoutsAfterClaim
  <2>5. UNCHANGED <<transientFailureCount, attempts>>
    BY <1>5 DEF CommitClaim, bookVars
  <2>6. status[r] = "PROCESSING" => ~(leaseTimeoutCount[r] >= MaxLeaseTimeouts)
    BY <1>5 DEF CommitClaim, LeaseBudgetSpent
  <2> HIDE DEF r
  <2>7. /\ leaseTimeoutCount \in [Requests -> Nat] /\ transientFailureCount \in [Requests -> Nat]
        /\ claims \in [Requests -> Nat] /\ status \in [Requests -> RequestStatus]
        /\ MaxLeaseTimeouts \in Nat /\ MaxTransientFailures \in Nat
    BY <1>a, BudgetsAssumption DEF RowTypes
  <2>8. RetryBudgets'
    BY <2>1, <2>2, <2>4, <2>5, <2>6, <2>7 DEF BudgetInv, RetryBudgets
  <2>9. ~TimedOutForGood(r)
    BY <2>1 DEF HistoryInv, Explains, TimedOutForGood
  <2>10. \A q \in Requests : TimedOutForGood(q)' <=> TimedOutForGood(q)
    BY <2>5 DEF TimedOutForGood
  <2>11. EveryClaimAccounted'
    BY <2>1, <2>2, <2>3, <2>4, <2>5, <2>7, <2>9, <2>10 DEF BudgetInv, EveryClaimAccounted
  <2> QED
    BY <2>8, <2>11 DEF BudgetInv
<1>6. ASSUME NEW w \in Workers, FailExpiredClaim(w) PROVE BudgetInv'
  <2>1. /\ item[w].request \in Requests
        /\ EndsClaimWith(item[w].request, "FAILED", "lease-timeout", None)
        /\ leaseTimeoutCount[item[w].request] >= MaxLeaseTimeouts
    BY <1>6, <1>a DEF FailExpiredClaim, LeaseBudgetSpent, PassTypes, EndsClaimWith
  <2> QED
    BY <1>6, <2>1, <1>c, BudgetRecord DEF FailExpiredClaim
<1>7. ASSUME NEW w \in Workers, FindConflict(w) PROVE BudgetInv'
  BY <1>7, BudgetFrame DEF FindConflict, rowVars, bookVars
<1>8. ASSUME NEW w \in Workers, FindNoConflict(w) PROVE BudgetInv'
  BY <1>8, BudgetFrame DEF FindNoConflict, rowVars, bookVars
<1>9. ASSUME NEW w \in Workers, Reject(w) PROVE BudgetInv'
  <2>1. /\ item[w].request \in Requests
        /\ EndsClaimWith(item[w].request, "REJECTED", "rejected", conflict[w])
    BY <1>9, <1>b DEF Reject, Owns, Holding, EndsClaimWith
  <2> QED
    BY <1>9, <2>1, <1>c, BudgetRecord DEF Reject
<1>10. ASSUME NEW w \in Workers, Confirm(w) PROVE BudgetInv'
  <2>1. /\ item[w].request \in Requests
        /\ EndsClaimWith(item[w].request, "CONFIRMED", "confirmed", None)
    BY <1>10, <1>b DEF Confirm, Owns, Holding, EndsClaimWith
  <2> QED
    BY <1>10, <2>1, <1>c, BudgetRecord DEF Confirm
<1>11. ASSUME NEW w \in Workers, ConfirmFindsSeatTaken(w) PROVE BudgetInv'
  BY <1>11, BudgetFrame DEF ConfirmFindsSeatTaken, rowVars, bookVars
<1>12. ASSUME NEW w \in Workers, LookUpWinner(w) PROVE BudgetInv'
  BY <1>12, BudgetFrame DEF LookUpWinner, rowVars, bookVars
<1>13. ASSUME NEW w \in Workers, ReleaseForRetry(w) PROVE BudgetInv'
  <2>1. /\ item[w].request \in Requests
        /\ EndsClaimWith(item[w].request, "REQUESTED", "unexpected-error", None)
        /\ item[w].transientFailureCount = transientFailureCount[item[w].request]
    BY <1>13, <1>b DEF ReleaseForRetry, Owns, Holding, EndsClaimWith
  <2>2. /\ UNCHANGED leaseTimeoutCount
        /\ transientFailureCount'[item[w].request] = transientFailureCount[item[w].request] + 1
        /\ \A q \in Requests \ {item[w].request} : transientFailureCount'[q] = transientFailureCount[q]
    BY <1>13, <2>1, <1>a DEF ReleaseForRetry, RowTypes
  <2>3. (transientFailureCount[item[w].request] + 1 < MaxTransientFailures)
    BY <1>13, <2>1 DEF ReleaseForRetry, HasRetriesLeft
  <2> QED
    BY <2>1, <2>2, <2>3, <1>c, BudgetRecord
<1>14. ASSUME NEW w \in Workers, Fail(w) PROVE BudgetInv'
  <2>1. /\ item[w].request \in Requests
        /\ EndsClaimWith(item[w].request, "FAILED", "unexpected-error", None)
        /\ item[w].transientFailureCount = transientFailureCount[item[w].request]
    BY <1>14, <1>b DEF Fail, Owns, Holding, EndsClaimWith
  <2>2. /\ UNCHANGED leaseTimeoutCount
        /\ transientFailureCount'[item[w].request] = transientFailureCount[item[w].request] + 1
        /\ \A q \in Requests \ {item[w].request} : transientFailureCount'[q] = transientFailureCount[q]
    BY <1>14, <2>1, <1>a DEF Fail, RowTypes
  <2>3. ~(transientFailureCount[item[w].request] + 1 < MaxTransientFailures)
    BY <1>14, <2>1 DEF Fail, HasRetriesLeft
  <2> QED
    BY <2>1, <2>2, <2>3, <1>c, BudgetRecord
<1>15. ASSUME NEW w \in Workers, ClaimLost(w) PROVE BudgetInv'
  BY <1>15, BudgetFrame DEF ClaimLost, rowVars, bookVars
<1>16. ASSUME NEW w \in Workers, CallThrows(w) PROVE BudgetInv'
  BY <1>16, BudgetFrame DEF CallThrows, rowVars, bookVars
<1>17. ASSUME NEW w \in Workers, PassThrows(w) PROVE BudgetInv'
  BY <1>17, BudgetFrame DEF PassThrows, rowVars, bookVars
<1>18. ASSUME NEW w \in Workers, Crash(w) PROVE BudgetInv'
  BY <1>18, BudgetFrame DEF Crash, rowVars, bookVars
<1>19. ASSUME NEW w \in Workers, Restart(w) PROVE BudgetInv'
  BY <1>19, BudgetFrame DEF Restart, rowVars, bookVars
<1>20. ASSUME NEW w \in Workers, NEW offset \in Offsets, SendBeat(w, offset) PROVE BudgetInv'
  BY <1>20, BudgetFrame DEF SendBeat, rowVars, bookVars
<1>21. ASSUME NEW b \in beats, ExecuteBeat(b) PROVE BudgetInv'
  BY <1>21, BudgetFrame DEF ExecuteBeat, rowVars, bookVars
<1>22. ASSUME NEW b \in beats, LoseBeat(b) PROVE BudgetInv'
  BY <1>22, BudgetFrame DEF LoseBeat, rowVars, bookVars
<1>23. ASSUME Tick PROVE BudgetInv'
  BY <1>23, BudgetFrame DEF Tick, rowVars, bookVars
<1>24. ASSUME UNCHANGED vars PROVE BudgetInv'
  BY <1>24, BudgetFrame DEF vars, rowVars, bookVars
<1> QED
  BY <1>1, <1>2, <1>3, <1>4, <1>5, <1>6, <1>7, <1>8, <1>9, <1>10, <1>11, <1>12, <1>13, <1>14, <1>15, <1>16, <1>17, <1>18, <1>19, <1>20, <1>21, <1>22, <1>23, <1>24
  DEF Next, WorkerStep, ClaimStep, Disturbance, HeartbeatStep

LEMMA BudgetInvariant == Spec => [](BaseInv /\ ClaimInv /\ HistoryInv /\ BudgetInv)
<1>1. Init => BudgetInv
  BY BudgetInit
<1>2. BaseInv /\ ClaimInv /\ HistoryInv /\ BudgetInv /\ [Next]_vars => BudgetInv'
  BY BudgetNext
<1> QED
  BY <1>1, <1>2, HistoryInvariant, PTL DEF Spec

\* No counter passes its budget, a request fails exactly for having used one up,
\* and a released request is one the claim query still accepts.
THEOREM BudgetsAreKept == Spec => []RetryBudgets
<1>1. BudgetInv => RetryBudgets
  BY DEF BudgetInv
<1> QED
  BY <1>1, BudgetInvariant, PTL

\* Every claim but the current or deciding one was counted once, as a transient
\* failure or as a lease timeout.
THEOREM ClaimsAreAccounted == Spec => []EveryClaimAccounted
<1>1. BudgetInv => EveryClaimAccounted
  BY DEF BudgetInv
<1> QED
  BY <1>1, BudgetInvariant, PTL

\* The counters are exact, whatever the budgets, the workers and the lease.
THEOREM CountersAreExact == Spec => []BudgetsAreExact
BY BudgetsAreKept, ClaimsAreAccounted, PTL DEF BudgetsAreExact

-----------------------------------------------------------------------------
(* The counters and the status agree with the history. *)

\* A request that is being processed has failed before, or has no history.
LEMMA OpenHistory ==
  ASSUME HistoryMatchesRow, NEW r \in Requests, status[r] = "PROCESSING"
  PROVE  Failures(r) = 1..Len(attempts[r])
  BY DEF HistoryMatchesRow, StatusAfter, Failures

LEMMA MatchFrame ==
  ASSUME HistoryMatchesRow, UNCHANGED attempts, \A r \in Requests : KeepsHistory(r)
  PROVE  HistoryMatchesRow'
<1> SUFFICES ASSUME NEW r \in Requests
             PROVE  /\ transientFailureCount'[r] = Cardinality(Failures(r)')
                    /\ \A i \in 1..Len(attempts'[r]) \ Failures(r)' :
                         /\ i = Len(attempts'[r])
                         /\ status'[r] = StatusAfter(attempts'[r][i].outcome)
                    /\ status'[r] \in {"CONFIRMED", "REJECTED"} => Failures(r)' # 1..Len(attempts'[r])
  BY DEF HistoryMatchesRow
<1>1. attempts'[r] = attempts[r] /\ Failures(r)' = Failures(r)
  BY DEF Failures
<1>2. KeepsHistory(r)
  OBVIOUS
<1>3. transientFailureCount'[r] = Cardinality(Failures(r)')
  BY <1>1, <1>2 DEF HistoryMatchesRow, KeepsHistory
<1>4. \A i \in 1..Len(attempts[r]) \ Failures(r) :
        i = Len(attempts[r]) /\ status'[r] = StatusAfter(attempts[r][i].outcome)
  BY <1>2 DEF HistoryMatchesRow, StatusAfter, KeepsHistory
<1>5. status'[r] \in {"CONFIRMED", "REJECTED"} => Failures(r) # 1..Len(attempts[r])
  BY <1>2 DEF HistoryMatchesRow, KeepsHistory
<1> QED
  BY <1>1, <1>3, <1>4, <1>5

LEMMA MatchRecord ==
  ASSUME BaseInv, HistoryInv, HistoryMatchesRow, NEW r \in Requests,
         NEW newStatus \in {"REQUESTED", "CONFIRMED", "REJECTED", "FAILED"},
         NEW outcome \in Outcomes, NEW with \in Requests \cup {None},
         EndsClaimWith(r, newStatus, outcome, with),
         \A q \in Requests \ {r} : transientFailureCount'[q] = transientFailureCount[q],
         \/ /\ outcome = "unexpected-error" /\ newStatus \in {"REQUESTED", "FAILED"}
            /\ transientFailureCount'[r] = transientFailureCount[r] + 1
         \/ /\ outcome # "unexpected-error" /\ newStatus = StatusAfter(outcome)
            /\ transientFailureCount'[r] = transientFailureCount[r]
  PROVE  HistoryMatchesRow'
<1> DEFINE n == Len(attempts[r])
<1>1. claims[r] \in Nat /\ BookTypes
  BY DEF BaseInv, TypeOK, RowTypes
<1>2. /\ status[r] = "PROCESSING" /\ status'[r] = newStatus
      /\ \A q \in Requests \ {r} : status'[q] = status[q] /\ attempts'[q] = attempts[q]
  BY EndOfClaim
<1>3. n \in Nat /\ Len(attempts'[r]) = n + 1 /\ attempts'[r][n + 1].outcome = outcome
  <2>1. Record(r, claims[r], outcome, with)
    BY DEF EndsClaimWith
  <2> QED
    BY <1>1, <2>1, RecordEffect, ZenonT(30)
<1>4. /\ \A q \in Requests \ {r} : Failures(q)' = Failures(q)
      /\ Failures(r)' = IF outcome = "unexpected-error" THEN Failures(r) \cup {n + 1} ELSE Failures(r)
      /\ Cardinality(Failures(r)') = IF outcome = "unexpected-error"
                                     THEN Cardinality(Failures(r)) + 1 ELSE Cardinality(Failures(r))
  BY <1>1, FailuresAfter DEF EndsClaimWith
<1>5. Failures(r) = 1..n
  BY <1>2, OpenHistory
<1> DEFINE Matches(q) ==
      /\ transientFailureCount'[q] = Cardinality(Failures(q)')
      /\ \A i \in 1..Len(attempts'[q]) \ Failures(q)' :
           i = Len(attempts'[q]) /\ status'[q] = StatusAfter(attempts'[q][i].outcome)
      /\ status'[q] \in {"CONFIRMED", "REJECTED"} => Failures(q)' # 1..Len(attempts'[q])
<1>6. ASSUME NEW q \in Requests \ {r} PROVE Matches(q)
  BY <1>2, <1>4 DEF HistoryMatchesRow
<1>7. Matches(r)
  <2> HIDE DEF n
  <2>1. transientFailureCount'[r] = Cardinality(Failures(r)')
    BY <1>4 DEF HistoryMatchesRow
  <2>2. CASE outcome = "unexpected-error"
    BY <1>2, <1>3, <1>4, <1>5, <2>1, <2>2 DEF StatusAfter
  <2>3. CASE outcome # "unexpected-error"
    <3>1. Failures(r)' = 1..n /\ newStatus = StatusAfter(outcome)
      BY <1>4, <1>5, <2>3
    <3>2. \A i \in 1..Len(attempts'[r]) \ Failures(r)' : i = n + 1
      BY <1>3, <3>1
    <3> QED
      BY <1>2, <1>3, <2>1, <3>1, <3>2
  <2> QED
    BY <2>2, <2>3
<1> QED
  BY <1>6, <1>7 DEF HistoryMatchesRow

LEMMA MatchInit == Init => HistoryMatchesRow
  BY FS_EmptySet DEF Init, HistoryMatchesRow, Failures

LEMMA MatchNext ==
  BaseInv /\ ClaimInv /\ HistoryInv /\ HistoryMatchesRow /\ [Next]_vars => HistoryMatchesRow'
<1> SUFFICES ASSUME BaseInv, ClaimInv, HistoryInv, HistoryMatchesRow, [Next]_vars
             PROVE  HistoryMatchesRow'
  OBVIOUS
<1>1. CASE UNCHANGED <<attempts, reservations>> /\ \A r \in Requests : KeepsHistory(r)
  BY <1>1, MatchFrame
<1>2. ASSUME NEW w \in Workers, item[w].request \in Requests, Recording(w) PROVE HistoryMatchesRow'
  <2> DEFINE r == item[w].request
  <2>1. /\ None \in Requests \cup {None} /\ conflict[w] \in Requests \cup {None}
        /\ {"lease-timeout", "rejected", "confirmed", "unexpected-error"} \subseteq Outcomes
    BY DEF BaseInv, TypeOK, PassTypes, Outcomes
  <2>2. transientFailureCount \in [Requests -> Nat]
    BY DEF BaseInv, TypeOK, RowTypes
  <2>3. CASE FailExpiredClaim(w) /\ EndsClaimWith(r, "FAILED", "lease-timeout", None)
    BY <1>2, <2>1, <2>3, MatchRecord DEF FailExpiredClaim, StatusAfter
  <2>4. CASE Reject(w) /\ EndsClaimWith(r, "REJECTED", "rejected", conflict[w])
    BY <1>2, <2>1, <2>4, MatchRecord DEF Reject, StatusAfter
  <2>5. CASE Confirm(w) /\ EndsClaimWith(r, "CONFIRMED", "confirmed", None)
    BY <1>2, <2>1, <2>5, MatchRecord DEF Confirm, StatusAfter
  <2>6. CASE ReleaseForRetry(w) /\ EndsClaimWith(r, "REQUESTED", "unexpected-error", None)
    <3>1. /\ transientFailureCount'[r] = transientFailureCount[r] + 1
          /\ \A q \in Requests \ {r} : transientFailureCount'[q] = transientFailureCount[q]
      BY <1>2, <2>2, <2>6 DEF ReleaseForRetry
    <3> QED
      BY <1>2, <2>1, <2>6, <3>1, MatchRecord
  <2>7. CASE Fail(w) /\ EndsClaimWith(r, "FAILED", "unexpected-error", None)
    <3>1. /\ transientFailureCount'[r] = transientFailureCount[r] + 1
          /\ \A q \in Requests \ {r} : transientFailureCount'[q] = transientFailureCount[q]
      BY <1>2, <2>2, <2>7 DEF Fail
    <3> QED
      BY <1>2, <2>1, <2>7, <3>1, MatchRecord
  <2> QED
    BY <1>2, <2>3, <2>4, <2>5, <2>6, <2>7 DEF Recording
<1> QED
  BY <1>1, <1>2, StepRecordsOrKeeps

\* The attempts tell the same story as the row: one unexpected error per counted
\* failure, and a deciding attempt only at the end, agreeing with the status.
THEOREM HistoryIsTrue == Spec => []HistoryMatchesRow
<1>1. Init => HistoryMatchesRow
  BY MatchInit
<1>2. BaseInv /\ ClaimInv /\ HistoryInv /\ HistoryMatchesRow /\ [Next]_vars => HistoryMatchesRow'
  BY MatchNext
<1> QED
  BY <1>1, <1>2, HistoryInvariant, PTL DEF Spec

-----------------------------------------------------------------------------
(* ReservationWork implements ReservationLifecycle: forgetting the claims,   *)
(* leases, passes and tables, every step is a step of the life of a request  *)
(* that users are promised.  And what is decided stays decided.              *)

\* Two confirmed requests overlap for the life cycle when the tables say so.
LEMMA OverlapsAreConflicts ==
  ASSUME BaseInv, NEW r \in Requests
  PROVE  Lifecycle!Overlaps(r) = {q \in reservations : Wins(q, r)}
<1>1. Lifecycle!Confirmed = reservations
  BY DEF BaseInv, TypeOK, BookTypes, BookInv, ReservationIffConfirmed, Lifecycle!Confirmed
<1> QED
  BY <1>1 DEF Lifecycle!Overlaps, Wins

\* A confirm that finds every seat free is a confirm no reservation overlaps.
LEMMA FreeSeatsDoNotOverlap ==
  ASSUME BaseInv, NEW r \in Requests, SeatsFree(r)
  PROVE  Lifecycle!Overlaps(r) = {}
<1>1. ASSUME NEW q \in reservations, NEW x \in seats[q] \cap seats[r] PROVE FALSE
  <2>1. q \in Requests /\ x \in Seats
    BY <1>1 DEF BaseInv, TypeOK, RowTypes, BookTypes
  <2>2. <<q, x>> \in reservationSeats
    BY <1>1, <2>1 DEF BaseInv, BookInv, ReservationIffConfirmed
  <2> QED
    BY <1>1, <2>1, <2>2 DEF SeatsFree
<1> QED
  BY <1>1, OverlapsAreConflicts DEF Wins

LEMMA LifecycleInit == Init => Lifecycle!Init
  BY DEF Init, Lifecycle!Init

\* Each step is a step of the life cycle, or changes nothing it can see.
LEMMA LifecycleNext ==
  BaseInv /\ [Next]_vars => [Lifecycle!Next]_(Lifecycle!lifecycleVars)
<1> SUFFICES ASSUME BaseInv, [Next]_vars
             PROVE  Lifecycle!Next \/ UNCHANGED <<status, seats>>
  BY DEF Lifecycle!lifecycleVars
<1> DEFINE Goal == Lifecycle!Next \/ UNCHANGED <<status, seats>>
<1>a. TypeOK /\ RowTypes /\ PassTypes /\ LockInv
  BY DEF TypeOK, BaseInv
<1>b. \A w \in Workers : pc[w] \in Holding => item[w].request \in Requests
  BY <1>a DEF PassTypes
<1>1. ASSUME NEW r \in Requests, NEW wanted \in SUBSET Seats, Submit(r, wanted) PROVE Goal
  <2>1. Lifecycle!Submit(r, wanted)
    BY <1>1 DEF Submit, Lifecycle!Submit, Lifecycle!Moves
  <2> QED
    BY <2>1 DEF Lifecycle!Next, Lifecycle!Step
<1>2. ASSUME NEW w \in Workers, Poll(w) PROVE Goal
  BY <1>2 DEF Poll, StartPoll, rowVars
<1>3. ASSUME NEW w \in Workers, Select(w) PROVE Goal
  BY <1>3 DEF Select, rowVars
<1>4. ASSUME NEW w \in Workers, FindNothing(w) PROVE Goal
  BY <1>4 DEF FindNothing, rowVars
<1>5. ASSUME NEW w \in Workers, CommitClaim(w) PROVE Goal
  <2> DEFINE r == item[w].request
  <2>1. r \in Requests /\ status[r] \in {"REQUESTED", "PROCESSING"}
    BY <1>5, <1>a DEF CommitClaim, PassTypes, LockInv, SelectedIsOpen
  <2>2. status' = [status EXCEPT ![r] = "PROCESSING"] /\ UNCHANGED seats
    BY <1>5 DEF CommitClaim
  <2> HIDE DEF r
  <2>3. CASE status[r] = "REQUESTED"
    <3>1. Lifecycle!StartProcessing(r)
      BY <2>2, <2>3 DEF Lifecycle!StartProcessing, Lifecycle!Moves
    <3> QED
      BY <2>1, <3>1 DEF Lifecycle!Next, Lifecycle!Step
  <2>4. CASE status[r] = "PROCESSING"
    BY <2>1, <2>2, <2>4, <1>a DEF RowTypes
  <2> QED
    BY <2>1, <2>3, <2>4
<1>6. ASSUME NEW w \in Workers, FailExpiredClaim(w) PROVE Goal
  <2>1. item[w].request \in Requests /\ Lifecycle!Fail(item[w].request)
    BY <1>6, <1>a DEF FailExpiredClaim, LeaseBudgetSpent, PassTypes, MoveTo, Lifecycle!Fail, Lifecycle!Moves
  <2> QED
    BY <2>1 DEF Lifecycle!Next, Lifecycle!Step
<1>7. ASSUME NEW w \in Workers, FindConflict(w) PROVE Goal
  BY <1>7 DEF FindConflict, rowVars
<1>8. ASSUME NEW w \in Workers, FindNoConflict(w) PROVE Goal
  BY <1>8 DEF FindNoConflict, rowVars
<1>9. ASSUME NEW w \in Workers, Reject(w) PROVE Goal
  <2>1. item[w].request \in Requests
    BY <1>9, <1>b DEF Reject, Holding
  <2>2. Lifecycle!Overlaps(item[w].request) # {}
    <3>1. Wins(conflict[w], item[w].request)
      BY <1>9 DEF Reject, BaseInv, BookInv, ConflictWins
    <3> QED
      BY <2>1, <3>1, OverlapsAreConflicts DEF Wins
  <2>3. Lifecycle!Reject(item[w].request)
    BY <1>9, <2>1, <2>2 DEF Reject, Owns, MoveTo, Lifecycle!Reject, Lifecycle!Moves
  <2> QED
    BY <2>1, <2>3 DEF Lifecycle!Next, Lifecycle!Step
<1>10. ASSUME NEW w \in Workers, Confirm(w) PROVE Goal
  <2>1. item[w].request \in Requests
    BY <1>10, <1>b DEF Confirm, Holding
  <2>2. Lifecycle!Overlaps(item[w].request) = {}
    BY <1>10, <2>1, FreeSeatsDoNotOverlap DEF Confirm
  <2>3. Lifecycle!Confirm(item[w].request)
    BY <1>10, <2>1, <2>2 DEF Confirm, Owns, MoveTo, Lifecycle!Confirm, Lifecycle!Moves
  <2> QED
    BY <2>1, <2>3 DEF Lifecycle!Next, Lifecycle!Step
<1>11. ASSUME NEW w \in Workers, ConfirmFindsSeatTaken(w) PROVE Goal
  BY <1>11 DEF ConfirmFindsSeatTaken, rowVars
<1>12. ASSUME NEW w \in Workers, LookUpWinner(w) PROVE Goal
  BY <1>12 DEF LookUpWinner, rowVars
<1>13. ASSUME NEW w \in Workers, ReleaseForRetry(w) PROVE Goal
  <2>1. item[w].request \in Requests
    BY <1>13, <1>b DEF ReleaseForRetry, Holding
  <2>3. Lifecycle!ReleaseForRetry(item[w].request)
    BY <1>13, <2>1 DEF ReleaseForRetry, Owns, MoveTo, Lifecycle!ReleaseForRetry, Lifecycle!Moves
  <2> QED
    BY <2>1, <2>3 DEF Lifecycle!Next, Lifecycle!Step
<1>14. ASSUME NEW w \in Workers, Fail(w) PROVE Goal
  <2>1. item[w].request \in Requests
    BY <1>14, <1>b DEF Fail, Holding
  <2>3. Lifecycle!Fail(item[w].request)
    BY <1>14, <2>1 DEF Fail, Owns, MoveTo, Lifecycle!Fail, Lifecycle!Moves
  <2> QED
    BY <2>1, <2>3 DEF Lifecycle!Next, Lifecycle!Step
<1>15. ASSUME NEW w \in Workers, ClaimLost(w) PROVE Goal
  BY <1>15 DEF ClaimLost, rowVars
<1>16. ASSUME NEW w \in Workers, CallThrows(w) PROVE Goal
  BY <1>16 DEF CallThrows, rowVars
<1>17. ASSUME NEW w \in Workers, PassThrows(w) PROVE Goal
  BY <1>17 DEF PassThrows, rowVars
<1>18. ASSUME NEW w \in Workers, Crash(w) PROVE Goal
  BY <1>18 DEF Crash, rowVars
<1>19. ASSUME NEW w \in Workers, Restart(w) PROVE Goal
  BY <1>19 DEF Restart, rowVars
<1>20. ASSUME NEW w \in Workers, NEW offset \in Offsets, SendBeat(w, offset) PROVE Goal
  BY <1>20 DEF SendBeat, rowVars
<1>21. ASSUME NEW b \in beats, ExecuteBeat(b) PROVE Goal
  BY <1>21 DEF ExecuteBeat, rowVars
<1>22. ASSUME NEW b \in beats, LoseBeat(b) PROVE Goal
  BY <1>22 DEF LoseBeat, rowVars
<1>23. ASSUME Tick PROVE Goal
  BY <1>23 DEF Tick, rowVars
<1>24. ASSUME UNCHANGED vars PROVE Goal
  BY <1>24 DEF vars, rowVars
<1> QED
  BY <1>1, <1>2, <1>3, <1>4, <1>5, <1>6, <1>7, <1>8, <1>9, <1>10, <1>11, <1>12, <1>13, <1>14, <1>15, <1>16, <1>17, <1>18, <1>19, <1>20, <1>21, <1>22, <1>23, <1>24
  DEF Next, WorkerStep, ClaimStep, Disturbance, HeartbeatStep

\* The processing of reservation requests implements the promised life cycle.
THEOREM WorkImplementsLifecycle == Spec => ImplementsLifecycle
<1>1. Init => Lifecycle!Init
  BY LifecycleInit
<1>2. BaseInv /\ [Next]_vars => [Lifecycle!Next]_(Lifecycle!lifecycleVars)
  BY LifecycleNext
<1> QED
  BY <1>1, <1>2, BaseInvariant, PTL DEF Spec, ImplementsLifecycle, Lifecycle!Spec

-----------------------------------------------------------------------------
(* Finality. *)

\* What TerminalIsFinal asks of one request.
StaysDecided(r) ==
  /\ UNCHANGED <<status[r], seats[r], claimToken[r], leaseTimeoutCount[r],
                 transientFailureCount[r], attempts[r]>>
  /\ r \in reservations <=> r \in reservations'

LEMMA FinalNext ==
  ASSUME BaseInv, [Next]_vars, NEW d \in Requests, status[d] \in TerminalStatus
  PROVE  StaysDecided(d)
<1>a. TypeOK /\ RowTypes /\ BookTypes /\ PassTypes /\ LockInv
  BY DEF TypeOK, BaseInv
<1>b. status[d] \notin {"ABSENT", "REQUESTED", "PROCESSING"}
  BY DEF TerminalStatus
<1>1. ASSUME NEW r \in Requests, NEW wanted \in SUBSET Seats, Submit(r, wanted) PROVE StaysDecided(d)
  BY <1>1, <1>a, <1>b DEF Submit, StaysDecided, RowTypes, bookVars
<1>2. ASSUME NEW w \in Workers, Poll(w) PROVE StaysDecided(d)
  BY <1>2 DEF Poll, StartPoll, StaysDecided, rowVars, bookVars
<1>3. ASSUME NEW w \in Workers, Select(w) PROVE StaysDecided(d)
  BY <1>3 DEF Select, StaysDecided, rowVars, bookVars
<1>4. ASSUME NEW w \in Workers, FindNothing(w) PROVE StaysDecided(d)
  BY <1>4 DEF FindNothing, StaysDecided, rowVars, bookVars
<1>5. ASSUME NEW w \in Workers, CommitClaim(w) PROVE StaysDecided(d)
  <2>1. item[w].request # d
    BY <1>5, <1>a, <1>b DEF CommitClaim, LockInv, SelectedIsOpen
  <2>2. /\ status' = [status EXCEPT ![item[w].request] = "PROCESSING"]
        /\ UNCHANGED <<seats, transientFailureCount, attempts, reservations>>
    BY <1>5 DEF CommitClaim, bookVars
  <2>3. claimToken' = [claimToken EXCEPT ![item[w].request] = FreshToken(item[w].request)]
    BY <1>5 DEF CommitClaim
  <2>4. leaseTimeoutCount' = [leaseTimeoutCount EXCEPT ![item[w].request] =
                                LeaseTimeoutsAfterClaim(item[w].request)]
    BY <1>5 DEF CommitClaim
  <2> QED
    BY <2>1, <2>2, <2>3, <2>4, <1>a DEF StaysDecided, RowTypes
<1>6. ASSUME NEW w \in Workers, FailExpiredClaim(w) PROVE StaysDecided(d)
  <2>1. item[w].request # d
    BY <1>6, <1>b DEF FailExpiredClaim, LeaseBudgetSpent
  <2> QED
    BY <1>6, <2>1, <1>a DEF FailExpiredClaim, MoveTo, Record, StaysDecided, RowTypes, BookTypes
<1>7. ASSUME NEW w \in Workers, FindConflict(w) PROVE StaysDecided(d)
  BY <1>7 DEF FindConflict, StaysDecided, rowVars, bookVars
<1>8. ASSUME NEW w \in Workers, FindNoConflict(w) PROVE StaysDecided(d)
  BY <1>8 DEF FindNoConflict, StaysDecided, rowVars, bookVars
<1>9. ASSUME NEW w \in Workers, Reject(w) PROVE StaysDecided(d)
  <2>1. item[w].request # d
    BY <1>9, <1>b DEF Reject, Owns
  <2> QED
    BY <1>9, <2>1, <1>a DEF Reject, MoveTo, Record, StaysDecided, RowTypes, BookTypes
<1>10. ASSUME NEW w \in Workers, Confirm(w) PROVE StaysDecided(d)
  <2>1. item[w].request # d
    BY <1>10, <1>b DEF Confirm, Owns
  <2> QED
    BY <1>10, <2>1, <1>a DEF Confirm, MoveTo, Record, StaysDecided, RowTypes, BookTypes
<1>11. ASSUME NEW w \in Workers, ConfirmFindsSeatTaken(w) PROVE StaysDecided(d)
  BY <1>11 DEF ConfirmFindsSeatTaken, StaysDecided, rowVars, bookVars
<1>12. ASSUME NEW w \in Workers, LookUpWinner(w) PROVE StaysDecided(d)
  BY <1>12 DEF LookUpWinner, StaysDecided, rowVars, bookVars
<1>13. ASSUME NEW w \in Workers, ReleaseForRetry(w) PROVE StaysDecided(d)
  <2>1. item[w].request # d
    BY <1>13, <1>b DEF ReleaseForRetry, Owns
  <2> QED
    BY <1>13, <2>1, <1>a DEF ReleaseForRetry, MoveTo, Record, StaysDecided, RowTypes, BookTypes
<1>14. ASSUME NEW w \in Workers, Fail(w) PROVE StaysDecided(d)
  <2>1. item[w].request # d
    BY <1>14, <1>b DEF Fail, Owns
  <2> QED
    BY <1>14, <2>1, <1>a DEF Fail, MoveTo, Record, StaysDecided, RowTypes, BookTypes
<1>15. ASSUME NEW w \in Workers, ClaimLost(w) PROVE StaysDecided(d)
  BY <1>15 DEF ClaimLost, StaysDecided, rowVars, bookVars
<1>16. ASSUME NEW w \in Workers, CallThrows(w) PROVE StaysDecided(d)
  BY <1>16 DEF CallThrows, StaysDecided, rowVars, bookVars
<1>17. ASSUME NEW w \in Workers, PassThrows(w) PROVE StaysDecided(d)
  BY <1>17 DEF PassThrows, StaysDecided, rowVars, bookVars
<1>18. ASSUME NEW w \in Workers, Crash(w) PROVE StaysDecided(d)
  BY <1>18 DEF Crash, StaysDecided, rowVars, bookVars
<1>19. ASSUME NEW w \in Workers, Restart(w) PROVE StaysDecided(d)
  BY <1>19 DEF Restart, StaysDecided, rowVars, bookVars
<1>20. ASSUME NEW w \in Workers, NEW offset \in Offsets, SendBeat(w, offset) PROVE StaysDecided(d)
  BY <1>20 DEF SendBeat, StaysDecided, rowVars, bookVars
<1>21. ASSUME NEW b \in beats, ExecuteBeat(b) PROVE StaysDecided(d)
  BY <1>21 DEF ExecuteBeat, StaysDecided, rowVars, bookVars
<1>22. ASSUME NEW b \in beats, LoseBeat(b) PROVE StaysDecided(d)
  BY <1>22 DEF LoseBeat, StaysDecided, rowVars, bookVars
<1>23. ASSUME Tick PROVE StaysDecided(d)
  BY <1>23 DEF Tick, StaysDecided, rowVars, bookVars
<1>24. ASSUME UNCHANGED vars PROVE StaysDecided(d)
  BY <1>24 DEF vars, StaysDecided, rowVars, bookVars
<1> QED
  BY <1>1, <1>2, <1>3, <1>4, <1>5, <1>6, <1>7, <1>8, <1>9, <1>10, <1>11, <1>12, <1>13, <1>14, <1>15, <1>16, <1>17, <1>18, <1>19, <1>20, <1>21, <1>22, <1>23, <1>24
  DEF Next, WorkerStep, ClaimStep, Disturbance, HeartbeatStep

\* A late pass, retry, heartbeat or reclaim never touches a decided request.
THEOREM DecisionsAreFinal == Spec => TerminalIsFinal
<1>1. BaseInv /\ [Next]_vars =>
        [\A r \in Requests : status[r] \in TerminalStatus =>
           /\ UNCHANGED <<status[r], seats[r], claimToken[r], leaseTimeoutCount[r],
                          transientFailureCount[r], attempts[r]>>
           /\ r \in reservations <=> r \in reservations']_vars
  BY FinalNext DEF StaysDecided
<1> QED
  BY <1>1, BaseInvariant, PTL DEF Spec, TerminalIsFinal
=============================================================================
