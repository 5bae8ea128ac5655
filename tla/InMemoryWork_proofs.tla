------------------------- MODULE InMemoryWork_proofs -------------------------
(***************************************************************************)
(* The in-memory profile, for any number of requests, seats and passes: its*)
(* counters and its queue are right whoever shares the store, two          *)
(* reservations of a seat need two open confirms, and with the one pass of *)
(* the service the promised life of a request is implemented.              *)
(***************************************************************************)
EXTENDS InMemoryWork, FiniteSetTheorems, SequenceTheorems, WellFoundedInduction, TLAPS

\* Every set of positions has a least one.
LEMMA FirstPosition ==
  ASSUME NEW S, S \subseteq Nat, S # {} PROVE \E i \in S : \A j \in S : i <= j
<1> DEFINE Below == {pair \in Nat \X Nat : pair[1] < pair[2]}
<1>1. IsWellFoundedOn(Below, Nat)
  BY NatLessThanWellFounded DEF OpToRel
<1>2. PICK i \in S : \A j \in S : <<j, i>> \notin Below
  <2> HIDE DEF Below
  <2> QED BY <1>1, WFMin
<1>3. \A j \in S : ~(j < i)
  BY <1>2
<1> QED BY <1>3

LEMMA ReservationTypes ==
  TypeOK => /\ Len(reservations) \in Nat
            /\ \A i \in 1..Len(reservations) :
                 reservations[i][1] \in Requests /\ reservations[i][2] \subseteq Seats
<1> SUFFICES ASSUME TypeOK
             PROVE  /\ Len(reservations) \in Nat
                    /\ \A i \in 1..Len(reservations) : reservations[i] \in Requests \X SUBSET Seats
  OBVIOUS
<1> QED BY DEF TypeOK, StateTypes

\* What findConflictingConfirmedReservation answers.
LEMMA WhatTheLookupFinds ==
  ASSUME TypeOK, NEW r \in Requests
  PROVE  /\ FirstConflict(r) \in Requests \cup {None}
         /\ FirstConflict(r) = None <=> \A i \in 1..Len(reservations) : ~Overlaps(i, r)
         /\ FirstConflict(r) # None =>
              \E i \in 1..Len(reservations) : Overlaps(i, r) /\ FirstConflict(r) = reservations[i][1]
<1>1. CASE \A i \in 1..Len(reservations) : ~Overlaps(i, r)
  BY <1>1 DEF FirstConflict
<1>2. CASE \E i \in 1..Len(reservations) : Overlaps(i, r)
  <2> DEFINE Hits == {i \in 1..Len(reservations) : Overlaps(i, r)}
  <2>1. Len(reservations) \in Nat /\ \A i \in 1..Len(reservations) : reservations[i][1] \in Requests
    BY ReservationTypes
  <2>2. PICK i \in Hits : \A j \in Hits : i <= j
    <3>1. Hits \subseteq Nat /\ Hits # {}
      BY <1>2, <2>1
    <3> HIDE DEF Hits
    <3> QED BY <3>1, FirstPosition
  <2>3. i \in 1..Len(reservations) /\ Overlaps(i, r) /\ \A j \in 1..(i - 1) : ~Overlaps(j, r)
    BY <2>1, <2>2
  <2> DEFINE First(k) == Overlaps(k, r) /\ \A j \in 1..(k - 1) : ~Overlaps(j, r)
             k == CHOOSE k \in 1..Len(reservations) : First(k)
  <2>4. k \in 1..Len(reservations) /\ First(k)
    BY <2>3
  <2>5. FirstConflict(r) = reservations[k][1]
    BY <1>2 DEF FirstConflict
  <2> QED
    BY <1>2, <2>1, <2>4, <2>5, NoneAssumption
<1> QED
  BY <1>1, <1>2

\* The turns of the event loop, by what is left of them for the invariants.
LEMMA TurnCases ==
  ASSUME TypeOK, Next
  PROVE  /\ Remember /\ deployed' = deployed
         /\ \/ \E r \in Requests, wanted \in SUBSET Seats : Submit(r, wanted)
            \/ \E p \in Passes : p \in deployed.passes /\ (PassTurn(p) \/ PassThrows(p) \/ Heartbeat(p))
            \/ \E r \in Requests : LeaseRunsOut(r)
<1>1. deployed.passes \subseteq Passes
  BY DeploymentsAssumption DEF TypeOK, StateTypes
<1> QED
  BY <1>1 DEF Next, Note, Turn

-----------------------------------------------------------------------------
(* Types. *)

LEMMA RecordTypes ==
  ASSUME TypeOK, NEW r \in Requests, NEW outcome \in Outcomes, NEW with \in Requests \cup {None},
         Record(r, outcome, with)
  PROVE  attempts' \in [Requests -> Seq(Attempt)]
<1>1. [outcome |-> outcome, conflict |-> with] \in Attempt
  BY DEF Attempt
<1> HIDE DEF Attempt
<1> QED
  BY <1>1 DEF Record, TypeOK, StateTypes

LEMMA MoveTypes ==
  ASSUME TypeOK, NEW r \in Requests, NEW newStatus \in RequestStatus, MoveTo(r, newStatus)
  PROVE  /\ status' \in [Requests -> RequestStatus]
         /\ seats' \in [Requests -> SUBSET Seats]
         /\ queue' \in Seq(Requests)
         /\ claimToken' \in [Requests -> Nat]
         /\ expired' \subseteq Requests
         /\ claims' \in [Requests -> Nat]
  BY DEF MoveTo, TypeOK, StateTypes

LEMMA EndTypes ==
  ASSUME TypeOK, NEW p \in Passes, EndPass(p)
  PROVE  /\ pc' \in [Passes -> PassState]
         /\ item' \in [Passes -> WorkItem]
         /\ conflict' \in [Passes -> Requests \cup {None}]
         /\ \A q \in Passes : pc'[q] # "idle" => item'[q].request \in Requests
<1>1. NoItem \in WorkItem /\ "idle" \in PassState
  BY DEF NoItem, WorkItem, PassState
<1> QED
  BY <1>1 DEF EndPass, TypeOK, StateTypes

LEMMA TypesNext == TypeOK /\ [Next]_vars => TypeOK'
<1> SUFFICES ASSUME TypeOK, [Next]_vars PROVE TypeOK'
  OBVIOUS
<1> USE BudgetsAssumption
<1>1. CASE UNCHANGED vars
  BY <1>1 DEF vars, rowVars, bookVars, passVars, TypeOK, StateTypes
<1>2. CASE Next
  <2>1. together' \subseteq SUBSET Requests /\ deployed' \in Deployments
    BY <1>2, TurnCases DEF TypeOK, StateTypes, Remember, OpenTogether
  <2>2. ASSUME NEW r \in Requests, NEW wanted \in SUBSET Seats, Submit(r, wanted) PROVE StateTypes'
    BY <2>2 DEF Submit, TypeOK, StateTypes, RequestStatus, bookVars, passVars
  <2>3. ASSUME NEW p \in Passes, Claim(p) PROVE StateTypes'
    <3>1. PICK r \in Requests :
            /\ status' = [status EXCEPT ![r] = "PROCESSING"]
            /\ claims' = [claims EXCEPT ![r] = @ + 1]
            /\ claimToken' = [claimToken EXCEPT ![r] = claims[r] + 1]
            /\ expired' = expired \ {r}
            /\ leaseTimeoutCount' = [leaseTimeoutCount EXCEPT ![r] = IF Expired(r) THEN @ + 1 ELSE @]
            /\ item' = [item EXCEPT ![p] = [request |-> r, claimToken |-> claims[r] + 1,
                                       transientFailureCount |-> transientFailureCount[r]]]
      BY <2>3 DEF Claim
    <3>2. /\ status' \in [Requests -> RequestStatus] /\ claims' \in [Requests -> Nat]
          /\ claimToken' \in [Requests -> Nat] /\ expired' \subseteq Requests
          /\ leaseTimeoutCount' \in [Requests -> Nat]
      BY <3>1 DEF TypeOK, StateTypes, RequestStatus
    <3>3. [request |-> r, claimToken |-> claims[r] + 1,
           transientFailureCount |-> transientFailureCount[r]] \in WorkItem
      BY DEF TypeOK, StateTypes, WorkItem
    <3>4. item' \in [Passes -> WorkItem] /\ \A q \in Passes : pc'[q] # "idle" => item'[q].request \in Requests
      BY <2>3, <3>1, <3>3 DEF TypeOK, StateTypes, Claim
    <3>5. pc' \in [Passes -> PassState] /\ conflict' \in [Passes -> Requests \cup {None}]
      BY <2>3 DEF Claim, TypeOK, StateTypes, PassState
    <3> QED
      BY <2>3, <3>2, <3>4, <3>5 DEF Claim, TypeOK, StateTypes, bookVars
  <2>4. ASSUME NEW p \in Passes, FailExpiredClaim(p) PROVE StateTypes'
    <3>1. PICK r \in Requests : MoveTo(r, "FAILED") /\ Record(r, "lease-timeout", None)
      BY <2>4 DEF FailExpiredClaim
    <3>2. "FAILED" \in RequestStatus /\ "lease-timeout" \in Outcomes
      BY DEF RequestStatus, Outcomes
    <3> QED
      BY <2>4, <3>1, <3>2, MoveTypes, RecordTypes DEF FailExpiredClaim, TypeOK, StateTypes, passVars
  <2>5. ASSUME NEW p \in Passes, LookForConflict(p) \/ BeginConfirm(p) PROVE StateTypes'
    <3>1. FirstConflict(item[p].request) \in Requests \cup {None}
      BY <2>5, WhatTheLookupFinds DEF LookForConflict, BeginConfirm, TypeOK, StateTypes
    <3>2. PICK next \in PassState : pc[p] # "idle" /\ pc' = [pc EXCEPT ![p] = next]
      BY <2>5 DEF LookForConflict, BeginConfirm, PassState
    <3>3. /\ conflict' = [conflict EXCEPT ![p] = FirstConflict(item[p].request)]
          /\ UNCHANGED <<rowVars, bookVars, item>>
      BY <2>5 DEF LookForConflict, BeginConfirm
    <3> QED
      BY <3>1, <3>2, <3>3 DEF TypeOK, StateTypes, rowVars, bookVars
  <2>6. ASSUME NEW p \in Passes, Reject(p) PROVE StateTypes'
    <3>1. item[p].request \in Requests /\ conflict[p] \in Requests \cup {None}
      BY <2>6 DEF Reject, TypeOK, StateTypes
    <3>2. "REJECTED" \in RequestStatus /\ "rejected" \in Outcomes
      BY DEF RequestStatus, Outcomes
    <3>3. /\ MoveTo(item[p].request, "REJECTED")
          /\ Record(item[p].request, "rejected", conflict[p])
          /\ EndPass(p)
          /\ UNCHANGED <<leaseTimeoutCount, transientFailureCount, reservations>>
      BY <2>6 DEF Reject
    <3> QED
      BY <3>1, <3>2, <3>3, MoveTypes, RecordTypes, EndTypes DEF TypeOK, StateTypes
  <2>7. ASSUME NEW p \in Passes, FinishConfirm(p) PROVE StateTypes'
    <3>1. item[p].request \in Requests /\ conflict[p] \in Requests \cup {None}
      BY <2>7 DEF FinishConfirm, TypeOK, StateTypes
    <3>2. /\ {"REJECTED", "CONFIRMED"} \subseteq RequestStatus
          /\ {"rejected", "confirmed"} \subseteq Outcomes
      BY DEF RequestStatus, Outcomes
    <3>3. attempts' \in [Requests -> Seq(Attempt)]
      BY <2>7, <3>1, <3>2, RecordTypes DEF FinishConfirm
    <3>4. reservations' \in Seq(Requests \X SUBSET Seats)
      <4>1. <<item[p].request, seats[item[p].request]>> \in Requests \X SUBSET Seats
        BY <3>1 DEF TypeOK, StateTypes
      <4>2. reservations \in Seq(Requests \X SUBSET Seats)
        BY DEF TypeOK, StateTypes
      <4> QED
        BY <2>7, <4>1, <4>2, AppendProperties DEF FinishConfirm
    <3>5. \E s \in RequestStatus : MoveTo(item[p].request, s)
      BY <2>7, <3>2 DEF FinishConfirm
    <3>6. EndPass(p) /\ UNCHANGED <<leaseTimeoutCount, transientFailureCount>>
      BY <2>7 DEF FinishConfirm
    <3> QED
      BY <3>1, <3>3, <3>4, <3>5, <3>6, MoveTypes, EndTypes DEF TypeOK, StateTypes
  <2>8. ASSUME NEW p \in Passes, HandleFailure(p) PROVE StateTypes'
    <3>1. item[p].request \in Requests
      BY <2>8 DEF HandleFailure, TypeOK, StateTypes
    <3>2. {"REQUESTED", "FAILED"} \subseteq RequestStatus /\ "unexpected-error" \in Outcomes
      BY DEF RequestStatus, Outcomes
    <3>3. \E s \in RequestStatus : MoveTo(item[p].request, s)
      BY <2>8, <3>2 DEF HandleFailure
    <3>4. /\ Record(item[p].request, "unexpected-error", None)
          /\ EndPass(p)
          /\ UNCHANGED <<leaseTimeoutCount, reservations>>
      BY <2>8 DEF HandleFailure
    <3>5. transientFailureCount' \in [Requests -> Nat]
      BY <2>8, <3>1 DEF HandleFailure, TypeOK, StateTypes
    <3> QED
      BY <3>1, <3>2, <3>3, <3>4, <3>5, MoveTypes, RecordTypes, EndTypes DEF TypeOK, StateTypes
  <2>9. ASSUME NEW p \in Passes, PolicyBlocksCommit(p) \/ ClaimLost(p) \/ PassThrows(p) PROVE StateTypes'
    <3>1. EndPass(p) \/ (Goto(p, "recovering") /\ pc[p] # "idle")
      BY <2>9 DEF PolicyBlocksCommit, ClaimLost, PassThrows
    <3>2. UNCHANGED <<rowVars, bookVars>>
      BY <2>9 DEF PolicyBlocksCommit, ClaimLost, PassThrows
    <3>3. CASE EndPass(p)
      BY <3>2, <3>3, EndTypes DEF TypeOK, StateTypes, rowVars, bookVars
    <3>4. CASE Goto(p, "recovering") /\ pc[p] # "idle"
      BY <3>2, <3>4 DEF Goto, TypeOK, StateTypes, PassState, rowVars, bookVars
    <3> QED
      BY <3>1, <3>3, <3>4
  <2>10. ASSUME NEW p \in Passes, Heartbeat(p) PROVE StateTypes'
    BY <2>10 DEF Heartbeat, TypeOK, StateTypes, bookVars, passVars
  <2>11. ASSUME NEW r \in Requests, LeaseRunsOut(r) PROVE StateTypes'
    BY <2>11 DEF LeaseRunsOut, TypeOK, StateTypes, bookVars, passVars
  <2>12. StateTypes'
    BY <1>2, <2>2, <2>3, <2>4, <2>5, <2>6, <2>7, <2>8, <2>9, <2>10, <2>11, TurnCases DEF PassTurn
  <2> QED
    BY <2>1, <2>12 DEF TypeOK, StateTypes
<1> QED
  BY <1>1, <1>2

LEMMA TypesInit == Init => TypeOK
  BY DEF Init, TypeOK, StateTypes, RequestStatus, PassState, WorkItem, NoItem

LEMMA TypesInvariant == Spec => []TypeOK
  BY TypesInit, TypesNext, PTL DEF Spec

-----------------------------------------------------------------------------
(* Counters and claims.  A turn ends a claim in one of three ways, begins one, *)
(* saves a request, or leaves all of that alone.                               *)

\* The writes of a decision: the request is answered and the pass ends.
Decides(p) ==
  /\ pc[p] \in {"looked", "confirming"}
  /\ EndPass(p)
  /\ UNCHANGED <<leaseTimeoutCount, transientFailureCount>>
  /\ \E decision \in {<<"CONFIRMED", "confirmed">>, <<"REJECTED", "rejected">>} :
       /\ MoveTo(item[p].request, decision[1])
       /\ Record(item[p].request, decision[2], conflict[p])

\* No request, claim or counter changes, and no pass gets hold of a request.
Quiet ==
  /\ UNCHANGED <<status, seats, queue, claimToken, leaseTimeoutCount, transientFailureCount,
                 claims, bookVars>>
  /\ \A p \in Passes : pc'[p] = "idle" \/ (pc[p] # "idle" /\ item'[p] = item[p])

LEMMA TurnKinds ==
  ASSUME TypeOK, [Next]_vars
  PROVE  \/ \E r \in Requests, wanted \in SUBSET Seats : Submit(r, wanted)
         \/ \E p \in Passes : Claim(p)
         \/ \E p \in Passes : FailExpiredClaim(p)
         \/ \E p \in Passes : Decides(p)
         \/ \E p \in Passes : HandleFailure(p)
         \/ Quiet
<1>1. CASE UNCHANGED vars
  BY <1>1 DEF vars, rowVars, bookVars, passVars, Quiet
<1>2. ASSUME NEW p \in Passes, Reject(p) \/ FinishConfirm(p) PROVE Decides(p)
  <2>1. CASE Reject(p)
    BY <2>1 DEF Reject, Decides
  <2>2. CASE FinishConfirm(p)
    BY <2>2 DEF FinishConfirm, Decides
  <2> QED
    BY <1>2, <2>1, <2>2
<1>3. ASSUME NEW p \in Passes,
             \/ LookForConflict(p) \/ PolicyBlocksCommit(p) \/ BeginConfirm(p)
             \/ ClaimLost(p) \/ PassThrows(p) \/ Heartbeat(p)
      PROVE  Quiet
  <2>1. UNCHANGED <<status, seats, queue, claimToken, leaseTimeoutCount, transientFailureCount,
                    claims, bookVars>>
    BY <1>3 DEF LookForConflict, PolicyBlocksCommit, BeginConfirm, ClaimLost, PassThrows,
                Heartbeat, rowVars
  <2>2. EndPass(p) \/ (pc[p] # "idle" /\ item' = item /\ \A q \in Passes \ {p} : pc'[q] = pc[q])
    BY <1>3 DEF LookForConflict, PolicyBlocksCommit, BeginConfirm, ClaimLost, PassThrows,
                Heartbeat, Goto, passVars, TypeOK, StateTypes
  <2>3. CASE EndPass(p)
    BY <2>1, <2>3 DEF EndPass, Quiet, TypeOK, StateTypes
  <2> QED
    BY <2>1, <2>2, <2>3 DEF Quiet
<1>4. ASSUME NEW r \in Requests, LeaseRunsOut(r) PROVE Quiet
  BY <1>4 DEF LeaseRunsOut, Quiet, passVars
<1> QED
  BY <1>1, <1>2, <1>3, <1>4, TurnCases DEF PassTurn

LEMMA FailuresAfter ==
  ASSUME TypeOK, NEW r \in Requests, NEW outcome \in Outcomes, NEW with \in Requests \cup {None},
         Record(r, outcome, with)
  PROVE  /\ \A q \in Requests \ {r} : Failures(q)' = Failures(q)
         /\ Failures(r)' = IF outcome = "unexpected-error" THEN Failures(r) + 1 ELSE Failures(r)
<1> DEFINE new == [outcome |-> outcome, conflict |-> with]
           n == Len(attempts[r])
           Positions == {i \in 1..n : attempts[r][i].outcome = "unexpected-error"}
<1>1. new \in Attempt /\ new.outcome = outcome /\ attempts[r] \in Seq(Attempt)
  BY DEF Attempt, TypeOK, StateTypes
<1>2. /\ \A q \in Requests \ {r} : attempts'[q] = attempts[q]
      /\ attempts'[r] = Append(attempts[r], new)
  BY DEF Record, TypeOK, StateTypes
<1> HIDE DEF new
<1>3. /\ n \in Nat
      /\ Len(attempts'[r]) = n + 1
      /\ \A i \in 1..n : attempts'[r][i] = attempts[r][i]
      /\ attempts'[r][n + 1] = new
  BY <1>1, <1>2, AppendProperties
<1>4. {i \in 1..Len(attempts'[r]) : attempts'[r][i].outcome = "unexpected-error"}
        = IF outcome = "unexpected-error" THEN Positions \cup {n + 1} ELSE Positions
  BY <1>1, <1>3
<1>5. IsFiniteSet(Positions) /\ n + 1 \notin Positions
  <2>1. IsFiniteSet(1..n)
    BY <1>3, FS_Interval
  <2> QED
    BY <1>3, <2>1, FS_Subset
<1>6. Cardinality(Positions \cup {n + 1}) = Cardinality(Positions) + 1
  <2> HIDE DEF Positions
  <2> QED BY <1>5, FS_AddElement
<1>7. \A q \in Requests \ {r} : Failures(q)' = Failures(q)
  BY <1>2 DEF Failures
<1>8. Failures(r) = Cardinality(Positions)
  BY DEF Failures
<1>9. Failures(r)' = Cardinality(IF outcome = "unexpected-error" THEN Positions \cup {n + 1} ELSE Positions)
  BY <1>4 DEF Failures
<1> QED
  BY <1>6, <1>7, <1>8, <1>9

RequestInv(r) ==
  /\ claims[r] = 0 => status[r] \in {"ABSENT", "REQUESTED"}
  /\ status[r] = "ABSENT" => claims[r] = 0
  /\ status[r] \notin TerminalStatus => transientFailureCount[r] < MaxTransientFailures
  /\ leaseTimeoutCount[r] <= MaxLeaseTimeouts
  /\ status[r] = "FAILED" => \/ transientFailureCount[r] = MaxTransientFailures
                            \/ leaseTimeoutCount[r] = MaxLeaseTimeouts
  /\ transientFailureCount[r] = Failures(r)

\* A pass at work holds a claim that was handed out for a stored request, and as
\* long as the claim is the current one, the failures it has read are all there are.
HolderInv(p) ==
  pc[p] # "idle" =>
    /\ status[item[p].request] # "ABSENT"
    /\ item[p].claimToken \in 1..claims[item[p].request]
    /\ claimToken[item[p].request] = item[p].claimToken =>
         item[p].transientFailureCount = transientFailureCount[item[p].request]

CountInv == (\A r \in Requests : RequestInv(r)) /\ (\A p \in Passes : HolderInv(p))

LEMMA CountInit == Init => CountInv
<1> SUFFICES ASSUME Init, NEW r \in Requests PROVE Failures(r) = 0
  BY BudgetsAssumption DEF Init, CountInv, RequestInv, HolderInv, TerminalStatus
<1>1. attempts[r] = <<>>
  BY DEF Init
<1>2. {i \in 1..Len(attempts[r]) : attempts[r][i].outcome = "unexpected-error"} = {}
  BY <1>1
<1> QED
  BY <1>2, FS_EmptySet DEF Failures

\* A turn that ends a claim on r leaves the other requests alone and the other
\* passes without a current claim on r.
LEMMA EndingKeepsOthers ==
  ASSUME TypeOK, CountInv, NEW r \in Requests, NEW newStatus \in RequestStatus \ {"ABSENT"},
         NEW outcome \in Outcomes, NEW with \in Requests \cup {None},
         MoveTo(r, newStatus), Record(r, outcome, with),
         \A q \in Requests \ {r} : /\ leaseTimeoutCount'[q] = leaseTimeoutCount[q]
                                   /\ transientFailureCount'[q] = transientFailureCount[q],
         \A p \in Passes : pc'[p] = "idle" \/ (pc[p] # "idle" /\ item'[p] = item[p])
  PROVE  /\ \A q \in Requests \ {r} : RequestInv(q)'
         /\ \A p \in Passes : HolderInv(p)'
<1>1. ASSUME NEW q \in Requests \ {r} PROVE RequestInv(q)'
  <2>1. status'[q] = status[q] /\ claims'[q] = claims[q] /\ Failures(q)' = Failures(q)
    BY FailuresAfter DEF MoveTo, TypeOK, StateTypes
  <2> QED
    BY <2>1 DEF CountInv, RequestInv
<1>2. ASSUME NEW p \in Passes, pc'[p] # "idle" PROVE HolderInv(p)'
  <2> DEFINE q == item[p].request
  <2>1. item'[p] = item[p] /\ pc[p] # "idle" /\ q \in Requests /\ item[p].claimToken \in 1..claims[q]
    BY <1>2 DEF CountInv, HolderInv, TypeOK, StateTypes
  <2>2. claims' = claims /\ claims[q] \in Nat
    BY <2>1 DEF MoveTo, TypeOK, StateTypes
  <2>3. CASE q = r
    <3>1. claimToken'[r] = 0 /\ status'[r] # "ABSENT"
      BY DEF MoveTo, TypeOK, StateTypes
    <3> QED
      BY <2>1, <2>2, <2>3, <3>1 DEF HolderInv
  <2>4. CASE q # r
    <3>1. claimToken'[q] = claimToken[q] /\ status'[q] = status[q]
      BY <2>1, <2>4 DEF MoveTo, TypeOK, StateTypes
    <3>2. transientFailureCount'[q] = transientFailureCount[q]
      BY <2>1, <2>4
    <3> QED
      BY <2>1, <2>2, <3>1, <3>2 DEF CountInv, HolderInv
  <2> QED
    BY <2>3, <2>4
<1> QED
  BY <1>1, <1>2 DEF HolderInv

LEMMA CountNext == TypeOK /\ CountInv /\ [Next]_vars => CountInv'
<1> SUFFICES ASSUME TypeOK, CountInv, [Next]_vars PROVE CountInv'
  OBVIOUS
<1> USE BudgetsAssumption
<1>1. ASSUME NEW r \in Requests, NEW wanted \in SUBSET Seats, Submit(r, wanted) PROVE CountInv'
  <2>1. /\ status[r] = "ABSENT" /\ status'[r] = "REQUESTED"
        /\ \A q \in Requests \ {r} : status'[q] = status[q]
        /\ UNCHANGED <<claimToken, leaseTimeoutCount, transientFailureCount, claims, attempts, pc, item>>
    BY <1>1 DEF Submit, bookVars, passVars, TypeOK, StateTypes
  <2>2. \A q \in Requests : Failures(q)' = Failures(q)
    BY <2>1 DEF Failures
  <2>3. ASSUME NEW q \in Requests PROVE RequestInv(q)'
    BY <2>1, <2>2 DEF CountInv, RequestInv, TerminalStatus
  <2>4. ASSUME NEW p \in Passes PROVE HolderInv(p)'
    BY <2>1 DEF CountInv, HolderInv, TypeOK, StateTypes
  <2> QED
    BY <2>3, <2>4 DEF CountInv
<1>2. ASSUME NEW p \in Passes, Claim(p) PROVE CountInv'
  <2>1. PICK r \in Requests :
          /\ NextInQueue(r) /\ ~LeaseBudgetSpent(r)
          /\ status' = [status EXCEPT ![r] = "PROCESSING"]
          /\ claims' = [claims EXCEPT ![r] = @ + 1]
          /\ claimToken' = [claimToken EXCEPT ![r] = claims[r] + 1]
          /\ leaseTimeoutCount' = [leaseTimeoutCount EXCEPT ![r] = IF Expired(r) THEN @ + 1 ELSE @]
          /\ item' = [item EXCEPT ![p] = [request |-> r, claimToken |-> claims[r] + 1,
                                     transientFailureCount |-> transientFailureCount[r]]]
    BY <1>2 DEF Claim
  <2>2. Claimable(r)
    BY <2>1 DEF NextInQueue
  <2>3. /\ status'[r] = "PROCESSING" /\ claims'[r] = claims[r] + 1
        /\ claimToken'[r] = claims[r] + 1
        /\ leaseTimeoutCount'[r] = IF Expired(r) THEN leaseTimeoutCount[r] + 1 ELSE leaseTimeoutCount[r]
        /\ \A q \in Requests \ {r} : /\ status'[q] = status[q] /\ claims'[q] = claims[q]
                                     /\ claimToken'[q] = claimToken[q]
                                     /\ leaseTimeoutCount'[q] = leaseTimeoutCount[q]
    BY <2>1 DEF TypeOK, StateTypes
  <2>4. /\ claims[r] \in Nat /\ leaseTimeoutCount[r] \in Nat
        /\ UNCHANGED <<transientFailureCount, attempts>>
    BY <1>2 DEF Claim, bookVars, TypeOK, StateTypes
  <2>5. \A q \in Requests : Failures(q)' = Failures(q)
    BY <2>4 DEF Failures
  <2>6. RequestInv(r)'
    <3>1. status[r] \in {"REQUESTED", "PROCESSING"}
      BY <2>2 DEF Claimable, Expired
    <3>2. leaseTimeoutCount'[r] <= MaxLeaseTimeouts
      BY <2>1, <2>3, <2>4 DEF LeaseBudgetSpent, CountInv, RequestInv
    <3> QED
      BY <2>3, <2>4, <2>5, <3>1, <3>2 DEF CountInv, RequestInv, TerminalStatus
  <2>7. ASSUME NEW q \in Requests \ {r} PROVE RequestInv(q)'
    BY <2>3, <2>4, <2>5 DEF CountInv, RequestInv
  <2>8. HolderInv(p)'
    <3>1. /\ item'[p].request = r /\ item'[p].claimToken = claims[r] + 1
          /\ item'[p].transientFailureCount = transientFailureCount[r]
      BY <2>1 DEF TypeOK, StateTypes
    <3> QED
      BY <2>3, <2>4, <3>1 DEF HolderInv
  <2>9. ASSUME NEW q \in Passes \ {p}, pc'[q] # "idle" PROVE HolderInv(q)'
    <3> DEFINE o == item[q].request
    <3>1. item'[q] = item[q] /\ pc[q] # "idle" /\ o \in Requests
      BY <1>2, <2>1, <2>9 DEF Claim, TypeOK, StateTypes
    <3>2. /\ status[o] # "ABSENT" /\ item[q].claimToken \in 1..claims[o] /\ claims[o] \in Nat
          /\ claimToken[o] = item[q].claimToken => item[q].transientFailureCount = transientFailureCount[o]
      BY <3>1 DEF CountInv, HolderInv, TypeOK, StateTypes
    <3>3. CASE o = r
      BY <2>3, <2>4, <3>1, <3>2, <3>3 DEF HolderInv
    <3>4. CASE o # r
      BY <2>3, <2>4, <3>1, <3>2, <3>4 DEF HolderInv
    <3> QED
      BY <3>3, <3>4
  <2> QED
    BY <2>6, <2>7, <2>8, <2>9 DEF CountInv, HolderInv
<1>3. ASSUME NEW p \in Passes, FailExpiredClaim(p) PROVE CountInv'
  <2>1. PICK r \in Requests : /\ NextInQueue(r) /\ LeaseBudgetSpent(r)
                              /\ MoveTo(r, "FAILED") /\ Record(r, "lease-timeout", None)
    BY <1>3 DEF FailExpiredClaim
  <2>2. UNCHANGED <<leaseTimeoutCount, transientFailureCount, pc, item>>
    BY <1>3 DEF FailExpiredClaim, passVars
  <2>3. "FAILED" \in RequestStatus \ {"ABSENT"} /\ "lease-timeout" \in Outcomes
    BY DEF RequestStatus, Outcomes
  <2>4. (\A q \in Requests \ {r} : RequestInv(q)') /\ \A q \in Passes : HolderInv(q)'
    BY <2>1, <2>2, <2>3, EndingKeepsOthers
  <2>5. Failures(r)' = Failures(r)
    BY <2>1, <2>3, FailuresAfter
  <2>6. status'[r] = "FAILED" /\ claims'[r] = claims[r] /\ status[r] = "PROCESSING"
    BY <2>1 DEF MoveTo, LeaseBudgetSpent, Expired, TypeOK, StateTypes
  <2>7. leaseTimeoutCount[r] >= MaxLeaseTimeouts /\ leaseTimeoutCount[r] \in Nat
    BY <2>1 DEF LeaseBudgetSpent, TypeOK, StateTypes
  <2>8. RequestInv(r)'
    BY <2>2, <2>5, <2>6, <2>7 DEF CountInv, RequestInv, TerminalStatus
  <2> QED
    BY <2>4, <2>8 DEF CountInv
<1>4. ASSUME NEW p \in Passes, Decides(p) PROVE CountInv'
  <2>0. PICK r \in Requests : r = item[p].request
    BY <1>4 DEF Decides, TypeOK, StateTypes
  <2>1. PICK decision \in {<<"CONFIRMED", "confirmed">>, <<"REJECTED", "rejected">>} :
          MoveTo(r, decision[1]) /\ Record(r, decision[2], conflict[p])
    BY <1>4, <2>0 DEF Decides
  <2>2. /\ decision[1] \in {"CONFIRMED", "REJECTED"} /\ decision[2] \in Outcomes \ {"unexpected-error"}
        /\ decision[1] \in RequestStatus \ {"ABSENT"}
    BY DEF Outcomes, RequestStatus
  <2>3. /\ r \in Requests /\ conflict[p] \in Requests \cup {None}
        /\ UNCHANGED <<leaseTimeoutCount, transientFailureCount>>
        /\ \A q \in Passes : pc'[q] = "idle" \/ (pc[q] # "idle" /\ item'[q] = item[q])
    BY <1>4 DEF Decides, EndPass, TypeOK, StateTypes
  <2>4. (\A q \in Requests \ {r} : RequestInv(q)') /\ \A q \in Passes : HolderInv(q)'
    BY <2>1, <2>2, <2>3, EndingKeepsOthers
  <2>5. Failures(r)' = Failures(r)
    BY <2>1, <2>2, <2>3, FailuresAfter
  <2>6. status'[r] \in {"CONFIRMED", "REJECTED"} /\ claims'[r] = claims[r]
    BY <2>1, <2>2, <2>3 DEF MoveTo, TypeOK, StateTypes
  <2>7. claims[r] \in Nat \ {0}
    <3>1. item[p].claimToken \in 1..claims[r]
      BY <1>4, <2>0 DEF CountInv, HolderInv, Decides
    <3>2. claims[r] \in Nat
      BY DEF TypeOK, StateTypes
    <3> QED BY <3>1, <3>2
  <2>8. RequestInv(r)'
    BY <2>3, <2>5, <2>6, <2>7 DEF CountInv, RequestInv, TerminalStatus
  <2> QED
    BY <2>4, <2>8 DEF CountInv
<1>5. ASSUME NEW p \in Passes, HandleFailure(p) PROVE CountInv'
  <2>0. PICK r \in Requests : r = item[p].request
    BY <1>5 DEF HandleFailure, TypeOK, StateTypes
  <2>a. PICK next \in {"REQUESTED", "FAILED"} : next = IF HasRetriesLeft(p) THEN "REQUESTED" ELSE "FAILED"
    OBVIOUS
  <2>1. /\ r \in Requests /\ pc[p] # "idle" /\ Owns(p)
        /\ MoveTo(r, next) /\ Record(r, "unexpected-error", None)
        /\ UNCHANGED leaseTimeoutCount
        /\ \A q \in Passes : pc'[q] = "idle" \/ (pc[q] # "idle" /\ item'[q] = item[q])
    BY <1>5, <2>0, <2>a DEF HandleFailure, EndPass, TypeOK, StateTypes
  <2>2. /\ transientFailureCount'[r] = transientFailureCount[r] + 1
        /\ \A q \in Requests \ {r} : transientFailureCount'[q] = transientFailureCount[q]
    BY <1>5, <2>0 DEF HandleFailure, TypeOK, StateTypes
  <2>3. next \in RequestStatus \ {"ABSENT"} /\ "unexpected-error" \in Outcomes
    BY DEF Outcomes, RequestStatus
  <2>4. (\A q \in Requests \ {r} : RequestInv(q)') /\ \A q \in Passes : HolderInv(q)'
    BY <2>1, <2>2, <2>3, EndingKeepsOthers
  <2>5. Failures(r)' = Failures(r) + 1
    BY <2>1, <2>3, FailuresAfter
  <2>6. status'[r] = next /\ claims'[r] = claims[r] /\ claims[r] \in Nat \ {0}
    <3>1. item[p].claimToken \in 1..claims[r]
      BY <2>0, <2>1 DEF CountInv, HolderInv
    <3>2. claims[r] \in Nat /\ status'[r] = next /\ claims'[r] = claims[r]
      BY <2>1 DEF MoveTo, TypeOK, StateTypes
    <3> QED BY <3>1, <3>2
  <2>7. item[p].transientFailureCount = transientFailureCount[r] /\ status[r] = "PROCESSING"
    BY <2>0, <2>1 DEF Owns, CountInv, HolderInv
  <2>8. /\ next = "REQUESTED" => transientFailureCount[r] + 1 < MaxTransientFailures
        /\ next = "FAILED" => transientFailureCount[r] + 1 = MaxTransientFailures
        /\ next \in {"REQUESTED", "FAILED"}
    <3>1. transientFailureCount[r] < MaxTransientFailures /\ transientFailureCount[r] \in Nat
      BY <2>1, <2>7 DEF CountInv, RequestInv, TerminalStatus, TypeOK, StateTypes
    <3> QED
      BY <2>a, <2>7, <3>1 DEF HasRetriesLeft
  <2>9. RequestInv(r)'
    BY <2>1, <2>2, <2>5, <2>6, <2>8 DEF CountInv, RequestInv, TerminalStatus
  <2> QED
    BY <2>4, <2>9 DEF CountInv
<1>6. CASE Quiet
  <2>1. \A q \in Requests : Failures(q)' = Failures(q)
    BY <1>6 DEF Quiet, bookVars, Failures
  <2> QED
    BY <1>6, <2>1 DEF Quiet, CountInv, RequestInv, HolderInv
<1> QED
  BY <1>1, <1>2, <1>3, <1>4, <1>5, <1>6, TurnKinds

LEMMA CountInvariant == Spec => [](TypeOK /\ CountInv)
<1>1. TypeOK /\ CountInv /\ [Next]_vars => CountInv'
  BY CountNext
<1> QED
  BY <1>1, CountInit, TypesInvariant, PTL DEF Spec

-----------------------------------------------------------------------------
(* The queue. *)

QueueInv ==
  /\ \A i \in 1..Len(queue) : status[queue[i]] # "ABSENT"
  /\ \A i, j \in 1..Len(queue) : queue[i] = queue[j] => i = j
  /\ FirstComeFirstServed

LEMMA QueueTypes ==
  TypeOK => Len(queue) \in Nat /\ \A i \in 1..Len(queue) : queue[i] \in Requests
  BY DEF TypeOK, StateTypes

LEMMA QueueInit == Init => QueueInv
  BY DEF Init, QueueInv, FirstComeFirstServed

LEMMA QueueNext == TypeOK /\ CountInv /\ QueueInv /\ [Next]_vars => QueueInv'
<1> SUFFICES ASSUME TypeOK, CountInv, QueueInv, [Next]_vars PROVE QueueInv'
  OBVIOUS
<1> USE BudgetsAssumption
<1>1. ASSUME NEW r \in Requests, NEW wanted \in SUBSET Seats, Submit(r, wanted) PROVE QueueInv'
  <2>1. /\ status[r] = "ABSENT" /\ status'[r] = "REQUESTED"
        /\ \A q \in Requests \ {r} : status'[q] = status[q]
        /\ queue' = Append(queue, r) /\ claims' = claims
    BY <1>1 DEF Submit, TypeOK, StateTypes
  <2>2. /\ Len(queue) \in Nat /\ Len(queue') = Len(queue) + 1
        /\ \A i \in 1..Len(queue) : queue'[i] = queue[i] /\ queue[i] \in Requests \ {r}
        /\ queue'[Len(queue) + 1] = r
    <3>1. queue \in Seq(Requests)
      BY DEF TypeOK, StateTypes
    <3> QED
      BY <2>1, <3>1, AppendProperties, QueueTypes DEF QueueInv
  <2>3. claims[r] = 0
    BY <2>1 DEF CountInv, RequestInv
  <2>4. \A i \in 1..Len(queue') : status'[queue'[i]] # "ABSENT"
    BY <2>1, <2>2 DEF QueueInv
  <2>5. \A i, j \in 1..Len(queue') : queue'[i] = queue'[j] => i = j
    BY <2>2 DEF QueueInv
  <2>6. FirstComeFirstServed'
    BY <2>1, <2>2, <2>3 DEF QueueInv, FirstComeFirstServed
  <2> QED
    BY <2>4, <2>5, <2>6 DEF QueueInv
<1>2. ASSUME NEW p \in Passes, Claim(p) PROVE QueueInv'
  <2>1. PICK r \in Requests : /\ NextInQueue(r)
                              /\ status' = [status EXCEPT ![r] = "PROCESSING"]
                              /\ claims' = [claims EXCEPT ![r] = @ + 1]
    BY <1>2 DEF Claim
  <2>2. /\ status'[r] = "PROCESSING" /\ queue' = queue
        /\ claims[r] \in Nat /\ claims'[r] = claims[r] + 1
        /\ \A q \in Requests \ {r} : status'[q] = status[q] /\ claims'[q] = claims[q]
    BY <1>2, <2>1 DEF Claim, TypeOK, StateTypes
  <2>3. PICK k \in 1..Len(queue) : queue[k] = r /\ \A j \in 1..(k - 1) : ~Claimable(queue[j])
    BY <2>1 DEF NextInQueue
  <2>4. ASSUME NEW i \in 1..Len(queue), NEW j \in 1..Len(queue), i < j, claims'[queue[j]] > 0
        PROVE  claims'[queue[i]] > 0
    <3>1. queue[i] \in Requests /\ queue[j] \in Requests /\ claims[queue[i]] \in Nat
      BY QueueTypes DEF TypeOK, StateTypes
    <3>2. queue[i] # queue[j]
      BY <2>4 DEF QueueInv
    <3>3. CASE queue[j] # r
      BY <2>2, <2>4, <3>1, <3>3 DEF QueueInv, FirstComeFirstServed
    <3>4. CASE queue[j] = r
      <4>1. i \in 1..(k - 1)
        BY <2>3, <2>4, <3>4, QueueTypes DEF QueueInv
      <4>2. ~Claimable(queue[i]) /\ status[queue[i]] # "ABSENT"
        BY <2>3, <4>1 DEF QueueInv
      <4>3. claims[queue[i]] # 0
        BY <3>1, <4>2 DEF Claimable, CountInv, RequestInv, TerminalStatus
      <4> QED
        BY <2>2, <3>1, <3>2, <3>4, <4>3
    <3> QED
      BY <3>3, <3>4
  <2>5. \A i \in 1..Len(queue) : status'[queue[i]] # "ABSENT"
    BY <2>2, QueueTypes DEF QueueInv
  <2> QED
    BY <2>2, <2>4, <2>5 DEF QueueInv, FirstComeFirstServed
<1>3. ASSUME UNCHANGED <<queue, claims>>,
             \A r \in Requests : status[r] # "ABSENT" => status'[r] # "ABSENT"
      PROVE  QueueInv'
  BY <1>3, QueueTypes DEF QueueInv, FirstComeFirstServed
<1>4. ASSUME NEW p \in Passes, FailExpiredClaim(p) \/ Decides(p) \/ HandleFailure(p)
      PROVE  /\ UNCHANGED <<queue, claims>>
             /\ \A r \in Requests : status[r] # "ABSENT" => status'[r] # "ABSENT"
  <2>1. \E r, next : MoveTo(r, next) /\ next # "ABSENT"
    BY <1>4 DEF FailExpiredClaim, Decides, HandleFailure
  <2> QED
    BY <2>1 DEF MoveTo, TypeOK, StateTypes
<1>5. CASE Quiet
  BY <1>3, <1>5 DEF Quiet
<1> QED
  BY <1>1, <1>2, <1>3, <1>4, <1>5, TurnKinds

-----------------------------------------------------------------------------
(* Reservations, whoever shares the store. *)

\* A confirm whose lookup found nothing may overlap a reservation only of a
\* confirm that was open at the same time.
LookupIsRecent(p) ==
  pc[p] = "confirming" /\ conflict[p] = None =>
    \A i \in 1..Len(reservations) :
      Overlaps(i, item[p].request) => {reservations[i][1], item[p].request} \in together

BookingInv ==
  /\ \A p, q \in Passes :
       p # q /\ pc[p] = "confirming" /\ pc[q] = "confirming" =>
         {item[p].request, item[q].request} \in together
  /\ \A p \in Passes : LookupIsRecent(p)
  /\ DoubleBookingNeedsOpenConfirms

\* No reservation is written and no lookup inside a confirm is made.
KeepsBookings ==
  /\ reservations' = reservations
  /\ \A r \in Requests : seats'[r] = seats[r] \/ status[r] = "ABSENT"
  /\ \A p \in Passes : pc'[p] = "confirming" =>
       pc[p] = "confirming" /\ item'[p] = item[p] /\ conflict'[p] = conflict[p]

LEMMA EndPassEffect ==
  ASSUME TypeOK, NEW p \in Passes, EndPass(p)
  PROVE  /\ pc'[p] = "idle"
         /\ \A q \in Passes \ {p} : pc'[q] = pc[q] /\ item'[q] = item[q] /\ conflict'[q] = conflict[q]
  BY DEF EndPass, TypeOK, StateTypes

LEMMA BookingKinds ==
  ASSUME TypeOK, [Next]_vars
  PROVE  \/ \E p \in Passes : FinishConfirm(p) /\ conflict[p] = None
         \/ \E p \in Passes : BeginConfirm(p)
         \/ KeepsBookings
<1>1. CASE UNCHANGED vars
  BY <1>1 DEF vars, rowVars, bookVars, passVars, KeepsBookings
<1>2. ASSUME NEW r \in Requests, NEW wanted \in SUBSET Seats, Submit(r, wanted) PROVE KeepsBookings
  BY <1>2 DEF Submit, bookVars, passVars, KeepsBookings, TypeOK, StateTypes
<1>3. ASSUME NEW p \in Passes, Claim(p) PROVE KeepsBookings
  <2>1. /\ UNCHANGED <<seats, reservations, conflict>> /\ pc'[p] = "claimed"
        /\ \A q \in Passes \ {p} : pc'[q] = pc[q] /\ item'[q] = item[q]
    BY <1>3 DEF Claim, bookVars, TypeOK, StateTypes
  <2> QED
    BY <2>1 DEF KeepsBookings
<1>4. ASSUME NEW p \in Passes, FailExpiredClaim(p) PROVE KeepsBookings
  BY <1>4 DEF FailExpiredClaim, MoveTo, passVars, KeepsBookings
<1>5. ASSUME NEW p \in Passes, LookForConflict(p) \/ PolicyBlocksCommit(p) PROVE KeepsBookings
  <2>1. UNCHANGED <<seats, reservations, item>>
    BY <1>5 DEF LookForConflict, PolicyBlocksCommit, Goto, rowVars, bookVars
  <2>2. /\ pc'[p] # "confirming"
        /\ \A q \in Passes \ {p} : pc'[q] = pc[q] /\ conflict'[q] = conflict[q]
    BY <1>5 DEF LookForConflict, PolicyBlocksCommit, Goto, TypeOK, StateTypes
  <2> QED
    BY <2>1, <2>2 DEF KeepsBookings
<1>6. ASSUME NEW p \in Passes, EndPass(p), UNCHANGED <<seats, reservations>> PROVE KeepsBookings
  BY <1>6, EndPassEffect DEF KeepsBookings
<1>7. ASSUME NEW p \in Passes, \/ Reject(p) \/ HandleFailure(p) \/ PassThrows(p)
                               \/ FinishConfirm(p) /\ conflict[p] # None
      PROVE  EndPass(p) /\ UNCHANGED <<seats, reservations>>
  BY <1>7 DEF Reject, HandleFailure, PassThrows, FinishConfirm, MoveTo, rowVars, bookVars
<1>8. ASSUME NEW p \in Passes, ClaimLost(p) PROVE KeepsBookings
  <2>1. UNCHANGED <<seats, reservations>>
    BY <1>8 DEF ClaimLost, rowVars, bookVars
  <2>2. EndPass(p) \/ Goto(p, "recovering")
    BY <1>8 DEF ClaimLost
  <2> QED
    BY <1>6, <2>1, <2>2 DEF Goto, KeepsBookings, TypeOK, StateTypes
<1>9. ASSUME NEW p \in Passes, Heartbeat(p) PROVE KeepsBookings
  BY <1>9 DEF Heartbeat, bookVars, passVars, KeepsBookings
<1>10. ASSUME NEW r \in Requests, LeaseRunsOut(r) PROVE KeepsBookings
  BY <1>10 DEF LeaseRunsOut, bookVars, passVars, KeepsBookings
<1> QED
  BY <1>1, <1>2, <1>3, <1>4, <1>5, <1>6, <1>7, <1>8, <1>9, <1>10, TurnCases DEF PassTurn

LEMMA BookingInit == Init => BookingInv
  BY DEF Init, BookingInv, LookupIsRecent, DoubleBookingNeedsOpenConfirms

LEMMA BookingNext == TypeOK /\ TypeOK' /\ CountInv /\ BookingInv /\ [Next]_vars => BookingInv'
<1> SUFFICES ASSUME TypeOK, TypeOK', CountInv, BookingInv, [Next]_vars PROVE BookingInv'
  OBVIOUS
<1>1. together \subseteq together'
  BY TurnCases DEF vars, Remember
<1>2. ASSUME NEW p \in Passes, NEW q \in Passes, p # q, pc'[p] = "confirming", pc'[q] = "confirming"
      PROVE  {item'[p].request, item'[q].request} \in together'
  <2>1. CASE Next
    <3>1. item'[p].request \in Requests /\ item'[q].request \in Requests
      BY <1>2 DEF TypeOK, StateTypes
    <3> QED
      BY <1>2, <2>1, <3>1, TurnCases DEF Remember, OpenTogether
  <2>2. CASE UNCHANGED vars
    BY <1>2, <2>2 DEF vars, passVars, BookingInv
  <2> QED
    BY <2>1, <2>2
<1>3. ASSUME NEW p \in Passes, pc[p] # "idle"
      PROVE  item[p].request \in Requests /\ status[item[p].request] # "ABSENT"
  BY <1>3 DEF CountInv, HolderInv, TypeOK, StateTypes
<1>4. ASSUME NEW p \in Passes, FinishConfirm(p), conflict[p] = None PROVE BookingInv'
  <2>0. PICK r \in Requests : r = item[p].request
    BY <1>3, <1>4 DEF FinishConfirm
  <2> DEFINE n == Len(reservations)
             new == <<r, seats[r]>>
  <2>1. /\ reservations' = Append(reservations, new) /\ seats' = seats
        /\ pc[p] = "confirming" /\ EndPass(p)
    BY <1>4, <2>0 DEF FinishConfirm, MoveTo
  <2>2. /\ n \in Nat /\ Len(reservations') = n + 1
        /\ \A i \in 1..n : reservations'[i] = reservations[i]
        /\ reservations'[n + 1] = new
    <3>1. reservations \in Seq(Requests \X SUBSET Seats) /\ new \in Requests \X SUBSET Seats
      BY DEF TypeOK, StateTypes
    <3> HIDE DEF new
    <3> QED
      BY <2>1, <3>1, AppendProperties
  <2>3. /\ pc'[p] = "idle"
        /\ \A q \in Passes \ {p} : pc'[q] = pc[q] /\ item'[q] = item[q] /\ conflict'[q] = conflict[q]
    BY <2>1, EndPassEffect
  <2>4. ASSUME NEW q \in Passes, pc'[q] = "confirming", conflict'[q] = None,
               NEW i \in 1..(n + 1), reservations'[i][2] \cap seats[item[q].request] # {}
        PROVE  {reservations'[i][1], item[q].request} \in together'
    <3>1. q # p /\ pc[q] = "confirming" /\ conflict[q] = None
      BY <2>3, <2>4
    <3>2. CASE i \in 1..n
      BY <1>1, <2>2, <2>4, <3>1, <3>2 DEF BookingInv, LookupIsRecent, Overlaps
    <3>3. CASE i = n + 1
      <4>1. {item[p].request, item[q].request} \in together
        BY <2>1, <3>1 DEF BookingInv
      <4>2. reservations'[i][1] = item[p].request
        BY <2>0, <2>2, <3>3
      <4> QED
        BY <1>1, <4>1, <4>2
    <3> QED
      BY <2>2, <3>2, <3>3
  <2>5. \A q \in Passes : LookupIsRecent(q)'
    <3>1. \A q \in Passes : pc'[q] = "confirming" => item'[q] = item[q]
      BY <2>3
    <3> QED
      BY <2>1, <2>2, <2>4, <3>1 DEF LookupIsRecent, Overlaps
  <2>6. DoubleBookingNeedsOpenConfirms'
    <3>1. ASSUME NEW i \in 1..(n + 1), NEW j \in 1..(n + 1), i < j,
                 reservations'[i][2] \cap reservations'[j][2] # {}
          PROVE  {reservations'[i][1], reservations'[j][1]} \in together'
      <4>1. i \in 1..n
        BY <2>2, <3>1
      <4>2. CASE j \in 1..n
        BY <1>1, <2>2, <3>1, <4>1, <4>2 DEF BookingInv, DoubleBookingNeedsOpenConfirms
      <4>3. CASE j = n + 1
        BY <1>1, <1>4, <2>0, <2>1, <2>2, <3>1, <4>1, <4>3 DEF BookingInv, LookupIsRecent, Overlaps
      <4> QED
        BY <2>2, <4>2, <4>3
    <3> QED
      BY <2>2, <3>1 DEF DoubleBookingNeedsOpenConfirms
  <2> QED
    BY <1>2, <2>5, <2>6 DEF BookingInv
<1>5. ASSUME NEW p \in Passes, BeginConfirm(p) PROVE BookingInv'
  <2>1. /\ UNCHANGED <<seats, reservations, item>> /\ item[p].request \in Requests
        /\ conflict'[p] = FirstConflict(item[p].request)
        /\ \A q \in Passes \ {p} : pc'[q] = pc[q] /\ conflict'[q] = conflict[q]
    BY <1>3, <1>5 DEF BeginConfirm, rowVars, bookVars, TypeOK, StateTypes
  <2>2. LookupIsRecent(p)'
    BY <2>1, WhatTheLookupFinds DEF LookupIsRecent, Overlaps
  <2>3. ASSUME NEW q \in Passes \ {p} PROVE LookupIsRecent(q)'
    BY <1>1, <2>1 DEF BookingInv, LookupIsRecent, Overlaps
  <2>4. DoubleBookingNeedsOpenConfirms'
    BY <1>1, <2>1 DEF BookingInv, DoubleBookingNeedsOpenConfirms
  <2> QED
    BY <1>2, <2>2, <2>3, <2>4 DEF BookingInv
<1>6. CASE KeepsBookings
  <2>1. ASSUME NEW p \in Passes, pc'[p] = "confirming" PROVE LookupIsRecent(p)'
    <3>1. /\ pc[p] = "confirming" /\ item'[p] = item[p] /\ conflict'[p] = conflict[p]
          /\ reservations' = reservations
      BY <1>6, <2>1 DEF KeepsBookings
    <3>2. seats'[item[p].request] = seats[item[p].request]
      BY <1>3, <1>6, <3>1 DEF KeepsBookings
    <3> QED
      BY <1>1, <3>1, <3>2 DEF BookingInv, LookupIsRecent, Overlaps
  <2>2. DoubleBookingNeedsOpenConfirms'
    BY <1>1, <1>6 DEF KeepsBookings, BookingInv, DoubleBookingNeedsOpenConfirms
  <2> QED
    BY <1>2, <2>1, <2>2 DEF BookingInv, LookupIsRecent
<1> QED
  BY <1>4, <1>5, <1>6, BookingKinds

-----------------------------------------------------------------------------
(* One pass over the store, as the service runs it. *)

\* What a pass that knows of a conflict rejects its request for.
ConflictWins(p) ==
  pc[p] \in {"looked", "confirming"} /\ conflict[p] # None =>
    status[conflict[p]] = "CONFIRMED" /\ seats[conflict[p]] \cap seats[item[p].request] # {}

\* What a pass that is about to write a reservation has found.
SeatsStayFree(p) ==
  pc[p] = "confirming" /\ conflict[p] = None =>
    \A i \in 1..Len(reservations) : ~Overlaps(i, item[p].request)

SingleInv ==
  /\ \A p \in Passes : pc[p] # "idle" => p \in deployed.passes
  /\ SinglePass =>
       /\ \A p \in Passes : /\ pc[p] # "idle" => Owns(p)
                            /\ ConflictWins(p)
                            /\ SeatsStayFree(p)
       /\ \A i \in 1..Len(reservations) : /\ status[reservations[i][1]] = "CONFIRMED"
                                          /\ reservations[i][2] = seats[reservations[i][1]]
       /\ \A r \in Requests : status[r] = "CONFIRMED" =>
            \E i \in 1..Len(reservations) : reservations[i] = <<r, seats[r]>>

LEMMA SingleInit == Init => SingleInv
  BY DEF Init, SingleInv, ConflictWins, SeatsStayFree

\* A pass that works alone leaves nobody at work when it ends.
LEMMA Alone ==
  ASSUME TypeOK, SingleInv, SinglePass, NEW p \in Passes, p \in deployed.passes
  PROVE  \A q \in Passes \ {p} : pc[q] = "idle"
  BY DEF SingleInv, SinglePass

\* With nobody at work only the reservations matter.
LEMMA RestIsEnough ==
  ASSUME TypeOK, SingleInv, SinglePass, deployed' = deployed,
         \A q \in Passes : pc'[q] = "idle",
         UNCHANGED <<seats, reservations>>,
         \A r \in Requests : status'[r] = "CONFIRMED" <=> status[r] = "CONFIRMED"
  PROVE  SingleInv'
<1>1. /\ Len(reservations) \in Nat
      /\ \A i \in 1..Len(reservations) : reservations[i][1] \in Requests
  BY ReservationTypes
<1>2. \A i \in 1..Len(reservations) : /\ status'[reservations[i][1]] = "CONFIRMED"
                                      /\ reservations[i][2] = seats[reservations[i][1]]
  BY <1>1 DEF SingleInv
<1>3. \A r \in Requests : status'[r] = "CONFIRMED" =>
        \E i \in 1..Len(reservations) : reservations[i] = <<r, seats[r]>>
  BY DEF SingleInv
<1> QED
  BY <1>2, <1>3 DEF SingleInv, ConflictWins, SeatsStayFree, SinglePass

\* The single pass goes on with what it knows.
LEMMA GoingOnIsEnough ==
  ASSUME TypeOK, SingleInv, SinglePass, deployed' = deployed,
         NEW p \in Passes, p \in deployed.passes, pc'[p] # "idle" => Owns(p),
         \A q \in Passes \ {p} : pc'[q] = pc[q],
         UNCHANGED <<status, seats, claimToken, reservations, item>>,
         ConflictWins(p)', SeatsStayFree(p)'
  PROVE  SingleInv'
<1>1. \A q \in Passes \ {p} : pc'[q] = "idle"
  BY Alone
<1>2. \A q \in Passes : /\ pc'[q] # "idle" => Owns(q)'
                        /\ ConflictWins(q)'
                        /\ SeatsStayFree(q)'
  BY <1>1 DEF ConflictWins, SeatsStayFree, Owns
<1>3. \A q \in Passes : pc'[q] # "idle" => q \in deployed.passes
  BY <1>1
<1> QED
  BY <1>2, <1>3 DEF SingleInv, SinglePass

LEMMA PassesAreDeployed == TypeOK /\ SingleInv /\ [Next]_vars =>
  \A q \in Passes : pc'[q] # "idle" => q \in deployed'.passes
<1> SUFFICES ASSUME TypeOK, SingleInv, [Next]_vars, NEW q \in Passes, pc'[q] # "idle"
             PROVE  q \in deployed'.passes
  OBVIOUS
<1>1. deployed' = deployed
  BY TurnCases DEF vars
<1>2. \/ pc' = pc
      \/ \E p \in deployed.passes : pc'[q] = pc[q] \/ q = p
  <2>1. ASSUME NEW p \in deployed.passes, PassTurn(p) \/ PassThrows(p) \/ Heartbeat(p)
        PROVE  \E new : pc' = [pc EXCEPT ![p] = new] \/ pc' = pc
    BY <2>1 DEF PassTurn, Claim, FailExpiredClaim, LookForConflict, Reject, PolicyBlocksCommit,
                BeginConfirm, FinishConfirm, HandleFailure, ClaimLost, PassThrows, Heartbeat,
                EndPass, Goto, passVars
  <2>2. \A p : \A new : pc' = [pc EXCEPT ![p] = new] => pc'[q] = pc[q] \/ q = p
    BY DEF TypeOK, StateTypes
  <2>3. ASSUME UNCHANGED vars \/ (\E r, wanted : Submit(r, wanted)) \/ (\E r : LeaseRunsOut(r))
        PROVE  pc' = pc
    BY <2>3 DEF vars, passVars, Submit, LeaseRunsOut
  <2> QED
    BY <2>1, <2>2, <2>3 DEF Next, Turn
<1> QED
  BY <1>1, <1>2 DEF SingleInv

LEMMA SingleNext == TypeOK /\ CountInv /\ SingleInv /\ [Next]_vars => SingleInv'
<1> SUFFICES ASSUME TypeOK, CountInv, SingleInv, [Next]_vars PROVE SingleInv'
  OBVIOUS
<1>a. deployed' = deployed
  BY DEF Next, Note, vars
<1> SUFFICES ASSUME SinglePass PROVE SingleInv'
  BY <1>a, PassesAreDeployed DEF SingleInv, SinglePass
<1>1. CASE UNCHANGED vars
  BY <1>1 DEF vars, rowVars, bookVars, passVars, SingleInv, SinglePass, Owns, ConflictWins,
              SeatsStayFree, Overlaps
<1> SUFFICES ASSUME Next PROVE SingleInv'
  BY <1>1
<1>2. deployed' = deployed
  BY TurnCases
<1>3. ASSUME NEW r \in Requests, NEW wanted \in SUBSET Seats, Submit(r, wanted) PROVE SingleInv'
  <2>1. /\ status[r] = "ABSENT" /\ status'[r] = "REQUESTED"
        /\ \A q \in Requests \ {r} : status'[q] = status[q] /\ seats'[q] = seats[q]
        /\ UNCHANGED <<claimToken, reservations, pc, item, conflict>>
    BY <1>3 DEF Submit, bookVars, passVars, TypeOK, StateTypes
  <2>2. \A i \in 1..Len(reservations) : reservations[i][1] \in Requests \ {r}
    BY <2>1, ReservationTypes DEF SingleInv
  <2>3. ASSUME NEW p \in Passes, pc[p] # "idle" PROVE Owns(p) /\ item[p].request \in Requests \ {r}
    BY <2>1, <2>3 DEF SingleInv, Owns, TypeOK, StateTypes
  <2>4. ASSUME NEW p \in Passes PROVE ConflictWins(p)' /\ SeatsStayFree(p)'
    <3>1. CASE pc[p] = "idle"
      BY <2>1, <3>1 DEF ConflictWins, SeatsStayFree
    <3>2. CASE pc[p] # "idle"
      <4>1. seats'[item[p].request] = seats[item[p].request]
        BY <2>1, <2>3, <3>2
      <4>2. ConflictWins(p) /\ SeatsStayFree(p) /\ conflict[p] \in Requests \cup {None}
        BY DEF SingleInv, TypeOK, StateTypes
      <4> QED
        BY <2>1, <4>1, <4>2 DEF ConflictWins, SeatsStayFree, Overlaps
    <3> QED
      BY <3>1, <3>2
  <2>5. \A p \in Passes : pc'[p] # "idle" => Owns(p)'
    BY <2>1, <2>3 DEF Owns
  <2>6. \A i \in 1..Len(reservations) : /\ status'[reservations[i][1]] = "CONFIRMED"
                                        /\ reservations[i][2] = seats'[reservations[i][1]]
    BY <2>1, <2>2 DEF SingleInv
  <2>7. ASSUME NEW q \in Requests, status'[q] = "CONFIRMED"
        PROVE  \E i \in 1..Len(reservations) : reservations[i] = <<q, seats'[q]>>
    BY <2>1, <2>7 DEF SingleInv
  <2> QED
    BY <1>2, <2>1, <2>4, <2>5, <2>6, <2>7 DEF SingleInv
<1>4. ASSUME NEW p \in Passes, p \in deployed.passes, Claim(p) PROVE SingleInv'
  <2>1. PICK r \in Requests :
          /\ NextInQueue(r)
          /\ status' = [status EXCEPT ![r] = "PROCESSING"]
          /\ claimToken' = [claimToken EXCEPT ![r] = claims[r] + 1]
          /\ item' = [item EXCEPT ![p] = [request |-> r, claimToken |-> claims[r] + 1,
                                     transientFailureCount |-> transientFailureCount[r]]]
    BY <1>4 DEF Claim
  <2>2. /\ pc'[p] = "claimed" /\ \A q \in Passes \ {p} : pc'[q] = "idle"
        /\ UNCHANGED <<seats, reservations>>
    BY <1>4, Alone DEF Claim, bookVars, TypeOK, StateTypes
  <2>3. Owns(p)'
    BY <2>1 DEF Owns, TypeOK, StateTypes
  <2>4. \A q \in Requests : status'[q] = "CONFIRMED" <=> status[q] = "CONFIRMED"
    BY <2>1 DEF NextInQueue, Claimable, Expired, TypeOK, StateTypes
  <2>5. \A i \in 1..Len(reservations) : /\ status'[reservations[i][1]] = "CONFIRMED"
                                        /\ reservations[i][2] = seats[reservations[i][1]]
    BY <2>4, ReservationTypes DEF SingleInv
  <2>6. \A q \in Requests : status'[q] = "CONFIRMED" =>
          \E i \in 1..Len(reservations) : reservations[i] = <<q, seats[q]>>
    BY <2>4 DEF SingleInv
  <2>7. \A q \in Passes : /\ pc'[q] # "idle" => Owns(q)'
                          /\ ConflictWins(q)'
                          /\ SeatsStayFree(q)'
    BY <2>2, <2>3 DEF ConflictWins, SeatsStayFree
  <2> QED
    BY <1>2, <1>4, <2>2, <2>5, <2>6, <2>7 DEF SingleInv
<1>5. ASSUME NEW p \in Passes, p \in deployed.passes,
             FailExpiredClaim(p) \/ Reject(p) \/ HandleFailure(p) \/ PassThrows(p)
             \/ (FinishConfirm(p) /\ conflict[p] # None)
      PROVE  SingleInv'
  <2>1. UNCHANGED <<seats, reservations>>
    BY <1>5 DEF FailExpiredClaim, Reject, HandleFailure, PassThrows, FinishConfirm, MoveTo,
                rowVars, bookVars
  <2>2. pc'[p] = "idle" /\ \A q \in Passes \ {p} : pc'[q] = "idle"
    BY <1>5, Alone DEF FailExpiredClaim, Reject, HandleFailure, PassThrows, FinishConfirm, EndPass,
                passVars, TypeOK, StateTypes
  <2>3. \/ status' = status
        \/ \E r \in Requests, next \in {"REJECTED", "FAILED", "REQUESTED"} :
             MoveTo(r, next) /\ status[r] = "PROCESSING"
    <3>1. CASE FailExpiredClaim(p)
      BY <3>1 DEF FailExpiredClaim, LeaseBudgetSpent, Expired
    <3>2. CASE Reject(p)
      BY <3>2 DEF Reject, Owns, TypeOK, StateTypes
    <3>3. CASE HandleFailure(p)
      BY <3>3 DEF HandleFailure, Owns, TypeOK, StateTypes
    <3>4. CASE PassThrows(p)
      BY <3>4 DEF PassThrows, rowVars
    <3>5. CASE FinishConfirm(p) /\ conflict[p] # None
      <4>1. pc[p] # "idle" /\ Owns(p) /\ item[p].request \in Requests
        BY <3>5 DEF FinishConfirm, SingleInv, TypeOK, StateTypes
      <4> QED
        BY <3>5, <4>1 DEF FinishConfirm, Owns
    <3> QED
      BY <1>5, <3>1, <3>2, <3>3, <3>4, <3>5
  <2>4. \A r \in Requests : status'[r] = "CONFIRMED" <=> status[r] = "CONFIRMED"
    BY <2>3 DEF MoveTo, TypeOK, StateTypes
  <2>5. \A q \in Passes : pc'[q] = "idle"
    BY <2>2
  <2> QED
    BY <1>2, <2>1, <2>4, <2>5, RestIsEnough
<1>6. ASSUME NEW p \in Passes, p \in deployed.passes, LookForConflict(p) \/ BeginConfirm(p)
      PROVE  SingleInv'
  <2>0. PICK r \in Requests : r = item[p].request
    BY <1>6 DEF LookForConflict, BeginConfirm, TypeOK, StateTypes
  <2>1. /\ UNCHANGED <<status, seats, claimToken, reservations, item>>
        /\ conflict'[p] = FirstConflict(r) /\ pc[p] # "idle"
        /\ \A q \in Passes \ {p} : pc'[q] = pc[q]
    BY <1>6, <2>0 DEF LookForConflict, BeginConfirm, rowVars, bookVars, TypeOK, StateTypes
  <2>2. Owns(p)
    BY <2>1 DEF SingleInv
  <2>3. ConflictWins(p)'
    <3>1. ASSUME FirstConflict(r) # None
          PROVE  /\ status[FirstConflict(r)] = "CONFIRMED"
                 /\ seats[FirstConflict(r)] \cap seats[r] # {}
      <4>1. PICK i \in 1..Len(reservations) : Overlaps(i, r) /\ FirstConflict(r) = reservations[i][1]
        BY <3>1, WhatTheLookupFinds
      <4> QED
        BY <4>1 DEF SingleInv, Overlaps
    <3> QED
      BY <2>0, <2>1, <3>1 DEF ConflictWins
  <2>4. SeatsStayFree(p)'
    BY <2>0, <2>1, WhatTheLookupFinds DEF SeatsStayFree, Overlaps
  <2> QED
    BY <1>2, <1>6, <2>1, <2>2, <2>3, <2>4, GoingOnIsEnough
<1>7. ASSUME NEW p \in Passes, p \in deployed.passes, PolicyBlocksCommit(p) PROVE SingleInv'
  <2>1. /\ UNCHANGED <<status, seats, claimToken, reservations, item>>
        /\ pc'[p] = "recovering" /\ pc[p] # "idle"
        /\ \A q \in Passes \ {p} : pc'[q] = pc[q]
    BY <1>7 DEF PolicyBlocksCommit, Goto, rowVars, bookVars, TypeOK, StateTypes
  <2>2. Owns(p) /\ ConflictWins(p)' /\ SeatsStayFree(p)'
    BY <2>1 DEF SingleInv, ConflictWins, SeatsStayFree
  <2> QED
    BY <1>2, <1>7, <2>1, <2>2, GoingOnIsEnough
<1>8. ASSUME NEW p \in Passes, ClaimLost(p) PROVE SingleInv'
  BY <1>8 DEF ClaimLost, SingleInv
<1>9. ASSUME (\E p \in Passes : Heartbeat(p)) \/ (\E r \in Requests : LeaseRunsOut(r)) PROVE SingleInv'
  <2>1. UNCHANGED <<status, seats, claimToken, reservations, pc, item, conflict>>
    BY <1>9 DEF Heartbeat, LeaseRunsOut, bookVars, passVars
  <2> QED
    BY <1>2, <2>1 DEF SingleInv, SinglePass, Owns, ConflictWins, SeatsStayFree, Overlaps
<1>10. ASSUME NEW p \in Passes, p \in deployed.passes, FinishConfirm(p), conflict[p] = None PROVE SingleInv'
  <2>0. PICK r \in Requests : r = item[p].request
    BY <1>10 DEF FinishConfirm, TypeOK, StateTypes
  <2> DEFINE n == Len(reservations)
             new == <<r, seats[r]>>
  <2>1. /\ reservations' = Append(reservations, new) /\ seats' = seats
        /\ MoveTo(r, "CONFIRMED") /\ EndPass(p)
    BY <1>10, <2>0 DEF FinishConfirm, MoveTo
  <2>2. /\ n \in Nat /\ Len(reservations') = n + 1
        /\ \A i \in 1..n : reservations'[i] = reservations[i]
        /\ reservations'[n + 1] = new
    <3>1. reservations \in Seq(Requests \X SUBSET Seats) /\ new \in Requests \X SUBSET Seats
      BY DEF TypeOK, StateTypes
    <3> HIDE DEF new
    <3> QED
      BY <2>1, <3>1, AppendProperties
  <2>3. \A q \in Passes : pc'[q] = "idle"
    BY <1>10, <2>1, Alone, EndPassEffect
  <2>4. status'[r] = "CONFIRMED" /\ \A q \in Requests \ {r} : status'[q] = status[q]
    BY <2>1 DEF MoveTo, TypeOK, StateTypes
  <2>5. ASSUME NEW i \in 1..(n + 1)
        PROVE  /\ status'[reservations'[i][1]] = "CONFIRMED"
               /\ reservations'[i][2] = seats[reservations'[i][1]]
    <3>1. CASE i \in 1..n
      BY <2>2, <2>4, <3>1, ReservationTypes DEF SingleInv
    <3>2. CASE i = n + 1
      BY <2>2, <2>4, <3>2
    <3> QED
      BY <2>2, <3>1, <3>2
  <2>6. ASSUME NEW q \in Requests, status'[q] = "CONFIRMED"
        PROVE  \E i \in 1..(n + 1) : reservations'[i] = <<q, seats[q]>>
    <3>1. CASE q = r
      BY <2>2, <3>1
    <3>2. CASE q # r
      <4>1. PICK i \in 1..n : reservations[i] = <<q, seats[q]>>
        BY <2>4, <2>6, <3>2 DEF SingleInv
      <4> QED
        BY <2>2, <4>1
    <3> QED
      BY <3>1, <3>2
  <2> QED
    BY <2>1, <2>2, <2>3, <2>5, <2>6 DEF SingleInv, ConflictWins, SeatsStayFree
<1> QED
  BY <1>3, <1>4, <1>5, <1>6, <1>7, <1>8, <1>9, <1>10, TurnCases DEF PassTurn

-----------------------------------------------------------------------------
(* The theorems. *)

MapInv == TypeOK /\ CountInv /\ QueueInv /\ BookingInv /\ SingleInv

LEMMA MapInvariant == Spec => []MapInv
<1>1. Init => MapInv
  BY TypesInit, CountInit, QueueInit, BookingInit, SingleInit DEF MapInv
<1>2. MapInv /\ [Next]_vars => MapInv'
  <2> SUFFICES ASSUME MapInv, [Next]_vars PROVE MapInv'
    OBVIOUS
  <2>1. TypeOK'
    BY TypesNext DEF MapInv
  <2>2. CountInv' /\ QueueInv' /\ SingleInv'
    BY CountNext, QueueNext, SingleNext DEF MapInv
  <2>3. BookingInv'
    BY <2>1, BookingNext DEF MapInv
  <2> QED
    BY <2>1, <2>2, <2>3 DEF MapInv
<1> QED
  BY <1>1, <1>2, PTL DEF Spec

\* Requests, reservations, history and counters of the maps agree: with one pass a
\* reservation is there exactly for CONFIRMED requests, and with any number of
\* passes both budgets are kept and every failure is counted once.
THEOREM MapsAreConsistent == Spec => []MapsAgree
<1>1. MapInv => ReservationIffConfirmed
  <2> SUFFICES ASSUME MapInv, SinglePass, NEW r \in Requests
               PROVE  status[r] = "CONFIRMED" <=>
                        \E i \in 1..Len(reservations) : reservations[i] = <<r, seats[r]>>
    BY DEF ReservationIffConfirmed
  <2>1. \A i \in 1..Len(reservations) : status[reservations[i][1]] = "CONFIRMED"
    BY DEF MapInv, SingleInv
  <2>2. ASSUME NEW i \in 1..Len(reservations), reservations[i] = <<r, seats[r]>>
        PROVE  status[r] = "CONFIRMED"
    BY <2>1, <2>2
  <2> QED
    BY <2>2 DEF MapInv, SingleInv
<1>2. MapInv => RetryBudgets
  BY DEF MapInv, CountInv, RequestInv, RetryBudgets, TerminalStatus
<1>3. MapInv => MapsAgree
  BY <1>1, <1>2 DEF MapsAgree, MapInv
<1> QED
  BY <1>3, MapInvariant, PTL

\* First come, first served, for any number of requests and passes.
THEOREM QueueIsServedInOrder == Spec => []FirstComeFirstServed
<1>1. MapInv => FirstComeFirstServed
  BY DEF MapInv, QueueInv
<1> QED
  BY <1>1, MapInvariant, PTL

\* Two reservations share a seat only when the awaits of their confirms were open
\* together, however many passes share the store and whatever becomes of their claims.
THEOREM AwaitIsTheOnlyWindow == Spec => []DoubleBookingNeedsOpenConfirms
<1>1. MapInv => DoubleBookingNeedsOpenConfirms
  BY DEF MapInv, BookingInv
<1> QED
  BY <1>1, MapInvariant, PTL

\* Each turn of a store with a single pass is a step of the life cycle, or changes
\* nothing it can see.
LEMMA LifecycleNext ==
  ASSUME MapInv, [Next]_vars, SinglePass
  PROVE  Lifecycle!Next \/ UNCHANGED <<status, seats>>
<1> USE DEF Lifecycle!Next, Lifecycle!Step, Lifecycle!Moves
<1>1. ASSUME NEW r \in Requests, NEW wanted \in SUBSET Seats, Submit(r, wanted) PROVE Lifecycle!Next
  BY <1>1 DEF Submit, Lifecycle!Submit
<1>2. ASSUME NEW p \in Passes, Claim(p) PROVE Lifecycle!Next \/ UNCHANGED <<status, seats>>
  <2>1. PICK r \in Requests : Claimable(r) /\ status' = [status EXCEPT ![r] = "PROCESSING"]
    BY <1>2 DEF Claim, NextInQueue
  <2>2. CASE status[r] = "REQUESTED"
    BY <1>2, <2>1, <2>2 DEF Claim, Lifecycle!StartProcessing
  <2>3. CASE Expired(r)
    BY <1>2, <2>1, <2>3 DEF Claim, Expired, MapInv, TypeOK, StateTypes
  <2> QED
    BY <2>1, <2>2, <2>3 DEF Claimable
<1>3. ASSUME NEW p \in Passes, FailExpiredClaim(p) PROVE Lifecycle!Next
  BY <1>3 DEF FailExpiredClaim, LeaseBudgetSpent, Expired, MoveTo, Lifecycle!Fail
<1>4. ASSUME NEW p \in Passes, pc[p] # "idle"
      PROVE  /\ item[p].request \in Requests /\ status[item[p].request] = "PROCESSING"
             /\ ConflictWins(p) /\ SeatsStayFree(p) /\ conflict[p] \in Requests \cup {None}
  BY <1>4 DEF MapInv, SingleInv, Owns, TypeOK, StateTypes
<1>5. ASSUME NEW p \in Passes, NEW r \in Requests, r = item[p].request, pc[p] \in {"looked", "confirming"},
             conflict[p] # None
      PROVE  Lifecycle!Overlaps(r) # {}
  BY <1>4, <1>5 DEF ConflictWins, Lifecycle!Overlaps, Lifecycle!Confirmed
<1>6. ASSUME NEW p \in Passes, Reject(p) \/ (FinishConfirm(p) /\ conflict[p] # None)
      PROVE  Lifecycle!Next
  <2>0. PICK r \in Requests : r = item[p].request
    BY <1>4, <1>6 DEF Reject, FinishConfirm
  <2>1. /\ MoveTo(r, "REJECTED") /\ pc[p] \in {"looked", "confirming"} /\ conflict[p] # None
    BY <1>6, <2>0 DEF Reject, FinishConfirm
  <2> QED
    BY <1>4, <1>5, <2>0, <2>1 DEF MoveTo, Lifecycle!Reject
<1>7. ASSUME NEW p \in Passes, FinishConfirm(p), conflict[p] = None PROVE Lifecycle!Next
  <2>0. PICK r \in Requests : r = item[p].request
    BY <1>4, <1>7 DEF FinishConfirm
  <2>1. MoveTo(r, "CONFIRMED") /\ pc[p] = "confirming"
    BY <1>7, <2>0 DEF FinishConfirm
  <2>2. ASSUME NEW q \in Requests, status[q] = "CONFIRMED" PROVE seats[q] \cap seats[r] = {}
    <3>1. PICK i \in 1..Len(reservations) : reservations[i] = <<q, seats[q]>>
      BY <2>2 DEF MapInv, SingleInv
    <3>2. ~Overlaps(i, r)
      BY <1>4, <1>7, <2>0, <2>1 DEF SeatsStayFree
    <3> QED
      BY <3>1, <3>2 DEF Overlaps
  <2>3. Lifecycle!Overlaps(r) = {}
    BY <2>2 DEF Lifecycle!Overlaps, Lifecycle!Confirmed
  <2> QED
    BY <1>4, <2>0, <2>1, <2>3 DEF MoveTo, Lifecycle!Confirm
<1>8. ASSUME NEW p \in Passes, HandleFailure(p) PROVE Lifecycle!Next
  <2>0. PICK r \in Requests : r = item[p].request /\ status[r] = "PROCESSING"
    BY <1>4, <1>8 DEF HandleFailure
  <2>1. MoveTo(r, "REQUESTED") \/ MoveTo(r, "FAILED")
    BY <1>8, <2>0 DEF HandleFailure
  <2> QED
    BY <2>0, <2>1 DEF MoveTo, Lifecycle!ReleaseForRetry, Lifecycle!Fail
<1>9. ASSUME NEW p \in Passes,
             \/ LookForConflict(p) \/ PolicyBlocksCommit(p) \/ BeginConfirm(p)
             \/ ClaimLost(p) \/ PassThrows(p) \/ Heartbeat(p)
      PROVE  UNCHANGED <<status, seats>>
  BY <1>9 DEF LookForConflict, PolicyBlocksCommit, BeginConfirm, ClaimLost, PassThrows,
              Heartbeat, rowVars
<1>10. ASSUME UNCHANGED vars \/ \E r \in Requests : LeaseRunsOut(r) PROVE UNCHANGED <<status, seats>>
  BY <1>10 DEF vars, rowVars, LeaseRunsOut
<1> HIDE DEF Lifecycle!Next
<1>11. TypeOK
  BY DEF MapInv
<1> QED
  BY <1>1, <1>2, <1>3, <1>6, <1>7, <1>8, <1>9, <1>10, <1>11, TurnCases DEF PassTurn

\* With the single pass of the service the in-memory profile implements the promised
\* life of a request, although nothing but its turns keeps two requests apart.
THEOREM MemoryImplementsLifecycle == Spec => ImplementsLifecycle
<1>1. Init => Lifecycle!Init
  BY DEF Init, Lifecycle!Init
<1>2. MapInv /\ [Next]_vars => [SinglePass => Lifecycle!Next]_<<status, seats>>
  BY LifecycleNext
<1> QED
  BY <1>1, <1>2, MapInvariant, PTL DEF Spec, ImplementsLifecycle
=============================================================================
