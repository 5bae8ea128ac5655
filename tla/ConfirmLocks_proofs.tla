--------------------------- MODULE ConfirmLocks_proofs ---------------------------
(***************************************************************************)
(* Every transaction climbs: what it has inserted lies below what it still *)
(* wants.  So whoever waits, waits for a transaction that is further up,   *)
(* and the one that wants the highest seat waits for nobody.               *)
(***************************************************************************)
EXTENDS ConfirmLocks, WellFoundedInduction, TLAPS

\* An entry of the index belongs to one request.
EntriesAreUnique == \A r, q \in Requests : r # q => inserted[r] \cap inserted[q] = {}

Climbs == \A r \in Requests : \A s \in inserted[r], t \in wanted[r] \ inserted[r] : s < t

SomethingWanted == \A r \in Requests : wanted[r] # {}

IInv == TypeOK /\ EntriesAreUnique /\ Climbs /\ SomethingWanted

LEMMA InitInv == Init => IInv
<1> SUFFICES ASSUME Init PROVE IInv
  OBVIOUS
<1>1. wanted \in [Requests -> SUBSET Seats] /\ \A r \in Requests : wanted[r] # {}
  BY DEF Init
<1>2. \A r \in Requests : tx[r] = "idle" /\ inserted[r] = {}
  BY DEF Init
<1>3. TypeOK
  BY <1>1, <1>2 DEF Init, TypeOK, TxState
<1> QED BY <1>1, <1>2, <1>3 DEF IInv, EntriesAreUnique, Climbs, SomethingWanted

LEMMA BeginInv == ASSUME IInv, NEW r \in Requests, Begin(r) PROVE IInv'
  BY DEF Begin, IInv, TypeOK, EntriesAreUnique, Climbs, SomethingWanted, TxState

LEMMA InsertEntryInv == ASSUME IInv, NEW r \in Requests, InsertEntry(r) PROVE IInv'
<1> USE DEF IInv, TypeOK
<1>1. PICK s \in Seats : /\ NextSeat(r, s) /\ EntryFree(s)
                         /\ inserted' = [inserted EXCEPT ![r] = @ \cup {s}]
  BY DEF InsertEntry
<1>2. tx[r] = "inserting" /\ UNCHANGED <<wanted, tx>>
  BY DEF InsertEntry
<1>3. s \in wanted[r] /\ s \notin inserted[r] /\ \A t \in wanted[r] \ inserted[r] : s <= t
  BY <1>1 DEF NextSeat
<1>4. \A q \in Requests : inserted'[q] = IF q = r THEN inserted[r] \cup {s} ELSE inserted[q]
  BY <1>1
<1>5. TypeOK'
  BY <1>1, <1>2, <1>3, <1>4 DEF TxState
<1>6. EntriesAreUnique'
  BY <1>1, <1>4 DEF EntriesAreUnique, EntryFree
<1>7. Climbs'
  <2> SUFFICES ASSUME NEW q \in Requests, NEW x \in inserted'[q],
                      NEW t \in wanted[q], t \notin inserted'[q]
               PROVE  x < t
    BY <1>2 DEF Climbs
  <2>1. x \in Int /\ t \in Int
    BY <1>1, <1>4 DEF Seats
  <2>2. CASE q # r
    BY <2>2, <1>4 DEF Climbs
  <2>3. CASE q = r /\ x \in inserted[r]
    BY <2>3, <1>4 DEF Climbs
  <2>4. CASE q = r /\ x = s
    BY <2>4, <1>3, <1>4, <2>1
  <2> QED BY <1>4, <2>2, <2>3, <2>4
<1>8. SomethingWanted'
  BY <1>2 DEF SomethingWanted
<1> QED BY <1>5, <1>6, <1>7, <1>8

LEMMA EndInv ==
  ASSUME IInv, NEW r \in Requests, FindDuplicate(r) \/ Commit(r) \/ Abort(r) PROVE IInv'
<1> USE DEF IInv, TypeOK, EntriesAreUnique, Climbs, SomethingWanted, TxState
<1>1. CASE FindDuplicate(r)
  BY <1>1 DEF FindDuplicate
<1>2. CASE Commit(r)
  BY <1>2 DEF Commit
<1>3. CASE Abort(r)
  BY <1>3 DEF Abort
<1> QED BY <1>1, <1>2, <1>3

LEMMA StepInv == IInv /\ [Next]_vars => IInv'
<1> SUFFICES ASSUME IInv, [Next]_vars PROVE IInv'
  OBVIOUS
<1>1. CASE UNCHANGED vars
  BY <1>1 DEF vars, IInv, TypeOK, EntriesAreUnique, Climbs, SomethingWanted
<1>2. ASSUME NEW r \in Requests,
             Begin(r) \/ InsertEntry(r) \/ FindDuplicate(r) \/ Commit(r) \/ Abort(r)
      PROVE  IInv'
  BY <1>2, BeginInv, InsertEntryInv, EndInv
<1> QED BY <1>1, <1>2 DEF Next

\* Entries of the unique index are consistent with the transactions they belong to.
THEOREM TypeCorrect == Spec => []TypeOK
<1>1. IInv => TypeOK
  BY DEF IInv
<1> QED BY <1>1, InitInv, StepInv, PTL DEF Spec

-----------------------------------------------------------------------------
(* Waiting. *)

LEMMA SmallestElement ==
  ASSUME NEW S, S \subseteq Nat, S # {} PROVE \E x \in S : \A y \in S : x <= y
<1> DEFINE Below == {pair \in Nat \X Nat : pair[1] < pair[2]}
<1>1. IsWellFoundedOn(Below, Nat)
  BY NatLessThanWellFounded DEF OpToRel
<1>2. PICK x \in S : \A y \in S : <<y, x>> \notin Below
  <2> HIDE DEF Below
  <2> QED BY <1>1, WFMin
<1>3. ASSUME NEW y \in S PROVE x <= y
  <2>1. x \in Nat /\ y \in Nat
    OBVIOUS
  <2>2. <<y, x>> \notin Below
    BY <1>2
  <2>3. ~(y < x)
    BY <2>1, <2>2
  <2> QED BY <2>1, <2>3
<1> QED BY <1>3

\* Whoever waits wants a seat below every seat the other one still wants.
LEMMA WaitsUpwards ==
  ASSUME IInv, NEW r \in Requests, NEW q \in Requests, WaitsFor(r, q),
         NEW s \in Seats, NextSeat(r, s), NEW t \in Seats, NextSeat(q, t)
  PROVE  s < t
<1>1. PICK u \in Seats : NextSeat(r, u) /\ u \in inserted[q]
  BY DEF WaitsFor
<1>2. u = s
  BY <1>1 DEF NextSeat, Seats
<1> QED BY <1>1, <1>2 DEF NextSeat, IInv, Climbs

LEMMA NoCycle == IInv => NoWaitCycle
<1> SUFFICES ASSUME IInv, NEW group \in SUBSET Requests, group # {},
                    \A r \in group : \E q \in group : WaitsFor(r, q)
             PROVE  FALSE
  BY DEF NoWaitCycle
<1> DEFINE Depths == {LastSeat - s : s \in {t \in Seats : \E r \in group : NextSeat(r, t)}}
<1>1. Depths \subseteq Nat
  BY LastSeatAssumption DEF Seats
<1>2. \A r \in group : \E s \in Seats : NextSeat(r, s)
  BY DEF WaitsFor
<1>3. Depths # {}
  BY <1>2
<1>4. PICK d \in Depths : \A e \in Depths : d <= e
  <2> HIDE DEF Depths
  <2> QED BY <1>1, <1>3, SmallestElement
<1>5. PICK s \in Seats, r \in group : d = LastSeat - s /\ NextSeat(r, s)
  OBVIOUS
<1>6. PICK q \in group : WaitsFor(r, q)
  BY <1>5
<1>7. PICK t \in Seats : NextSeat(q, t)
  BY <1>2
<1>8. s < t
  BY <1>5, <1>6, <1>7, WaitsUpwards
<1>9. LastSeat - t \in Depths
  BY <1>7
<1> QED BY <1>4, <1>5, <1>8, <1>9, LastSeatAssumption DEF Seats

\* Because every transaction inserts its seats in ascending order, no number of
\* confirm transactions can ever wait for each other in a circle.
THEOREM NobodyWaitsInACircle == Spec => []NoWaitCycle
  BY InitInv, StepInv, NoCycle, PTL DEF Spec

-----------------------------------------------------------------------------
(* Refinement. *)

LEMMA OutcomeIs ==
  ASSUME NEW r \in Requests
  PROVE  Outcome[r] = CASE tx[r] = "committed" -> "confirmed"
                        [] tx[r] = "conflicted" -> "conflicted"
                        [] OTHER -> "open"
  BY DEF Outcome

LEMMA CommitRefines ==
  ASSUME IInv, NEW r \in Requests, Commit(r) PROVE Atomic!Confirm(r)
<1> USE DEF IInv, TypeOK, TxState
<1>1. tx[r] = "inserting" /\ inserted[r] = wanted[r] /\ UNCHANGED wanted
      /\ tx' = [tx EXCEPT ![r] = "committed"]
  BY DEF Commit
<1>2. Outcome[r] = "open"
  BY <1>1, OutcomeIs
<1>3. ASSUME NEW s \in wanted[r], NEW q \in Requests PROVE ~Atomic!Holds(q, s)
  BY <1>1, <1>3, OutcomeIs DEF Atomic!Holds, EntriesAreUnique
<1>4. Outcome' = [Outcome EXCEPT ![r] = "confirmed"]
  BY <1>1 DEF Outcome
<1> QED BY <1>1, <1>2, <1>3, <1>4 DEF Atomic!Confirm

LEMMA DuplicateRefines ==
  ASSUME IInv, NEW r \in Requests, FindDuplicate(r) PROVE Atomic!Conflict(r)
<1> USE DEF IInv, TypeOK, TxState
<1>1. /\ tx[r] = "inserting" /\ UNCHANGED wanted
      /\ tx' = [tx EXCEPT ![r] = "conflicted"]
  BY DEF FindDuplicate
<1>2. PICK s \in Seats, q \in Requests : NextSeat(r, s) /\ HeldByCommitted(s, q)
  BY DEF FindDuplicate
<1>3. Outcome[r] = "open"
  BY <1>1, OutcomeIs
<1>4. s \in wanted[r] /\ Atomic!Holds(q, s)
  BY <1>2, OutcomeIs DEF NextSeat, HeldByCommitted, Atomic!Holds
<1>5. Outcome' = [Outcome EXCEPT ![r] = "conflicted"]
  BY <1>1 DEF Outcome
<1> QED BY <1>1, <1>2, <1>3, <1>4, <1>5 DEF Atomic!Conflict

LEMMA StepRefines == IInv /\ [Next]_vars => [Atomic!Next]_(Atomic!vars)
<1> SUFFICES ASSUME IInv, [Next]_vars PROVE [Atomic!Next]_(Atomic!vars)
  OBVIOUS
<1>1. CASE UNCHANGED vars
  BY <1>1 DEF vars, Atomic!vars, Outcome
<1>2. ASSUME NEW r \in Requests, Begin(r) \/ InsertEntry(r) \/ Abort(r)
      PROVE  UNCHANGED Atomic!vars
  <2>1. UNCHANGED wanted
    BY <1>2 DEF Begin, InsertEntry, Abort
  <2>2. UNCHANGED Outcome
    BY <1>2 DEF Begin, InsertEntry, Abort, Outcome, IInv, TypeOK, TxState
  <2> QED BY <2>1, <2>2 DEF Atomic!vars
<1>3. ASSUME NEW r \in Requests, FindDuplicate(r) \/ Commit(r)
      PROVE  Atomic!Next
  BY <1>3, CommitRefines, DuplicateRefines DEF Atomic!Next
<1> QED BY <1>1, <1>2, <1>3 DEF Next

LEMMA InitRefines == Init => Atomic!Init
  BY DEF Init, Atomic!Init, Outcome

\* The transaction that inserts row by row implements the one that takes all seats
\* in one step: the atomic Confirm of ReservationWork stands for it.
THEOREM ConfirmIsAtomic == Spec => ImplementsAtomicConfirm
<1>1. Spec => []IInv
  BY InitInv, StepInv, PTL DEF Spec
<1> QED BY <1>1, InitRefines, StepRefines, PTL DEF Spec, ImplementsAtomicConfirm, Atomic!Spec
=============================================================================
