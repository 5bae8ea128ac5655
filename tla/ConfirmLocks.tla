----------------------------- MODULE ConfirmLocks -----------------------------
(***************************************************************************)
(* Inside the confirm transaction.  PostgreSQL inserts the rows of one     *)
(* statement one after the other; a row whose (screening, seat) entry      *)
(* another open transaction has inserted waits until that one ends.  Two   *)
(* transactions that took the same seats in different orders would wait    *)
(* for each other.                                                         *)
(*                                                                         *)
(* The claim reads the seats of a request ordered by seat_id, the domain   *)
(* copies them in that order into the reservation and insertReservation    *)
(* maps them to rows in that order: every transaction climbs.  Seats are   *)
(* numbered by that order here (of one screening: entries of different     *)
(* screenings never meet).                                                 *)
(*                                                                         *)
(* A request has one confirm transaction at a time, because it begins with *)
(* SELECT ... FOR UPDATE of the request row.  Who waits for that row has   *)
(* no entries yet and so blocks nobody.  Whether the claim is still valid  *)
(* and what follows a conflict is in ReservationWork.                      *)
(***************************************************************************)
EXTENDS Integers, FiniteSets

CONSTANTS
  Requests,
  LastSeat   \* the number of seats of the screening

ASSUME LastSeatAssumption == LastSeat \in Nat

Seats == 1..LastSeat

VARIABLES
  wanted,     \* reservation.seatIds
  tx,         \* the confirm transaction of a request
  inserted    \* its entries in the unique index, committed or not

vars == <<wanted, tx, inserted>>

\* A transaction that was aborted is "idle": its request may be confirmed again.
TxState == {"idle", "inserting", "conflicted", "committed"}

Init ==
  /\ wanted \in [Requests -> (SUBSET Seats) \ {{}}]
  /\ tx = [r \in Requests |-> "idle"]
  /\ inserted = [r \in Requests |-> {}]

-----------------------------------------------------------------------------
\* Mutant: the seats are inserted in the order the client has named them.
NextInAnyOrder(r, s) == s \in wanted[r] \ inserted[r]

\* The row the insert statement has come to.
NextSeat(r, s) ==
  /\ s \in wanted[r] \ inserted[r]
  /\ \A t \in wanted[r] \ inserted[r] : s <= t

\* The ownership check has passed, the row of the reservation is written.
Begin(r) ==
  /\ tx[r] = "idle"
  /\ tx' = [tx EXCEPT ![r] = "inserting"]
  /\ UNCHANGED <<wanted, inserted>>

\* Mutant: only committed entries stand in the way of an insert.
CommittedFree(s) == \A q \in Requests : tx[q] = "committed" => s \notin inserted[q]

EntryFree(s) == \A q \in Requests : s \notin inserted[q]

InsertEntry(r) ==
  /\ tx[r] = "inserting"
  /\ \E s \in Seats : /\ NextSeat(r, s)
                      /\ EntryFree(s)
                      /\ inserted' = [inserted EXCEPT ![r] = @ \cup {s}]
  /\ UNCHANGED <<wanted, tx>>

\* r waits for the transaction of q to end.
WaitsFor(r, q) ==
  /\ tx[r] = "inserting" /\ tx[q] = "inserting"
  /\ \E s \in Seats : NextSeat(r, s) /\ s \in inserted[q]

HeldByCommitted(s, q) == tx[q] = "committed" /\ s \in inserted[q]

\* reservation_seats_screening_id_seat_id_unique is violated: the transaction is
\* rolled back and the error handler looks for the winner.
FindDuplicate(r) ==
  /\ tx[r] = "inserting"
  /\ \E s \in Seats, q \in Requests : NextSeat(r, s) /\ q # r /\ HeldByCommitted(s, q)
  /\ tx' = [tx EXCEPT ![r] = "conflicted"]
  /\ inserted' = [inserted EXCEPT ![r] = {}]
  /\ UNCHANGED wanted

\* The status and the attempt are written with the last entry.
Commit(r) ==
  /\ tx[r] = "inserting"
  /\ inserted[r] = wanted[r]
  /\ tx' = [tx EXCEPT ![r] = "committed"]
  /\ UNCHANGED <<wanted, inserted>>

\* A statement fails, the connection is lost, or the process ends.
Abort(r) ==
  /\ tx[r] = "inserting"
  /\ tx' = [tx EXCEPT ![r] = "idle"]
  /\ inserted' = [inserted EXCEPT ![r] = {}]
  /\ UNCHANGED wanted

Next ==
  \E r \in Requests :
    Begin(r) \/ InsertEntry(r) \/ FindDuplicate(r) \/ Commit(r) \/ Abort(r)

Spec == Init /\ [][Next]_vars

\* Statements that can go on do.  Those that wait are woken when the holder ends,
\* and a new transaction has several round trips to go before it inserts: SF.
\* There is no deadlock detector here to break a cycle.
FairSpec ==
  /\ Spec
  /\ \A r \in Requests : /\ SF_vars(InsertEntry(r))
                         /\ WF_vars(FindDuplicate(r))
                         /\ WF_vars(Commit(r))

-----------------------------------------------------------------------------
(* Properties. *)

\* Every variable has its type; entries are of wanted seats and exist only for a
\* transaction that is open or committed.
TypeOK ==
  /\ wanted \in [Requests -> SUBSET Seats]
  /\ tx \in [Requests -> TxState]
  /\ inserted \in [Requests -> SUBSET Seats]
  /\ \A r \in Requests : inserted[r] \subseteq wanted[r]
  /\ \A r \in Requests : tx[r] \in {"idle", "conflicted"} => inserted[r] = {}
  /\ \A r \in Requests : tx[r] = "committed" => inserted[r] = wanted[r]

\* However the seats of confirms overlap, no circle of transactions waits for each
\* other: in every group there is one that waits for nobody of the group.
NoWaitCycle ==
  \A group \in (SUBSET Requests) \ {{}} :
    \E r \in group : \A q \in group : ~WaitsFor(r, q)

\* What a client sees of the tables: open entries are invisible.
Outcome == [r \in Requests |->
              CASE tx[r] = "committed" -> "confirmed"
                [] tx[r] = "conflicted" -> "conflicted"
                [] OTHER -> "open"]

Atomic == INSTANCE AtomicConfirm WITH outcome <- Outcome

\* Row by row, with waits, conflicts and aborts in the middle, the transaction
\* takes all seats of a request at once or meets a committed reservation: what
\* ReservationWork takes for one step.
ImplementsAtomicConfirm == Atomic!Spec

\* Every confirm that has begun ends, without the help of a deadlock detector.
EveryConfirmEnds == \A r \in Requests : tx[r] = "inserting" ~> tx[r] # "inserting"
=============================================================================
