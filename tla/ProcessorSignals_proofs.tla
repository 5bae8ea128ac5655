----------------------- MODULE ProcessorSignals_proofs -----------------------
(***************************************************************************)
(* Proofs about ProcessorSignals: reporting leaves the work alone, and     *)
(* what is reported of a claim agrees with the history of its request.     *)
(***************************************************************************)
EXTENDS ProcessorSignals, ReservationWork_proofs

-----------------------------------------------------------------------------
(* Reporting leaves the work alone. *)

LEMMA PassStepIsWork ==
  ASSUME NEW w \in Workers, PassStep(w)
  PROVE  Next
<1>1. ASSUME WorkerStep(w) \/ Disturbance(w) PROVE Next
  BY <1>1 DEF Next
<1>2. CASE PollStarts(w)
  BY <1>1, <1>2 DEF PollStarts, WorkerStep
<1>3. CASE ClaimAnswersNull(w)
  BY <1>1, <1>3 DEF ClaimAnswersNull, WorkerStep, ClaimStep
<1>4. CASE ClaimIsCommitted(w)
  BY <1>1, <1>4 DEF ClaimIsCommitted, WorkerStep, ClaimStep
<1>5. CASE PassGoesOn(w)
  BY <1>1, <1>5 DEF PassGoesOn, WorkerStep, Disturbance
<1>6. CASE DecisionIsCommitted(w)
  BY <1>1, <1>6 DEF DecisionIsCommitted, WorkerStep
<1>7. CASE FailureIsCommitted(w)
  BY <1>1, <1>7 DEF FailureIsCommitted, WorkerStep
<1>8. CASE FailureHandlerThrows(w)
  BY <1>1, <1>8 DEF FailureHandlerThrows, WorkerStep, Disturbance
<1>9. CASE ClaimAnswerIsLost(w)
  BY <1>1, <1>9 DEF ClaimAnswerIsLost, Disturbance
<1>10. CASE RecordingTheClaimThrows(w)
  BY <1>1, <1>10 DEF RecordingTheClaimThrows, Disturbance
<1>11. CASE ProcessDies(w)
  BY <1>1, <1>11 DEF ProcessDies, Disturbance
<1> QED
  BY <1>2, <1>3, <1>4, <1>5, <1>6, <1>7, <1>8, <1>9, <1>10, <1>11 DEF PassStep

LEMMA ReportLeavesWork ==
  ASSUME NEW w \in Workers, Report(w)
  PROVE  UNCHANGED vars
  BY DEF Report, StartProcessing, ReportOutcome, ReportThrown, ReportingThrows, WorkStays

LEMMA SignalNextIsWork == [SignalNext]_allVars => [Next]_vars
<1> SUFFICES ASSUME [SignalNext]_allVars PROVE Next \/ UNCHANGED vars
  OBVIOUS
<1>1. CASE \E w \in Workers : PassStep(w) \/ Report(w)
  BY <1>1, PassStepIsWork, ReportLeavesWork
<1>2. CASE Elsewhere
  BY <1>2 DEF Elsewhere, Next
<1>3. CASE UNCHANGED allVars
  BY <1>3 DEF allVars
<1> QED
  BY <1>1, <1>2, <1>3 DEF SignalNext

LEMMA SignalsRefineWork == SignalSpec => Spec
<1>1. SignalInit => Init
  BY DEF SignalInit
<1> QED
  BY <1>1, SignalNextIsWork, PTL DEF SignalSpec, Spec

\* Whatever the observability does, throwing included, the processor works as
\* ReservationWork says, and what is proved of that holds of the reporting one.
THEOREM ReportingIsHarmless == SignalSpec => ReportingLeavesWorkAlone
  BY SignalsRefineWork DEF ReportingLeavesWorkAlone

-----------------------------------------------------------------------------
(* What the steps of the work do to passes, claims and history. *)

\* A pass that holds no work item has no claim token.
IdleHoldsNothing == \A w \in Workers : pc[w] \notin Holding => item[w].claimToken = 0

LEMMA IdleInit == Init => IdleHoldsNothing
  BY DEF Init, IdleHoldsNothing, NoItem

LEMMA EndedHoldsNothing ==
  ASSUME PassTypes, IdleHoldsNothing, NEW w \in Workers, NEW next, EndPass(w, next)
  PROVE  IdleHoldsNothing' /\ item'[w] = NoItem /\ pc'[w] = next
  BY DEF PassTypes, IdleHoldsNothing, EndPass, NoItem, WorkItem

LEMMA GotoHolds ==
  ASSUME PassTypes, IdleHoldsNothing, NEW w \in Workers, NEW next, Goto(w, next),
         pc[w] \in Holding, next \in Holding
  PROVE  IdleHoldsNothing'
  BY DEF PassTypes, IdleHoldsNothing, Goto

LEMMA IdleNext == BaseInv /\ IdleHoldsNothing /\ [Next]_vars => IdleHoldsNothing'
<1> SUFFICES ASSUME BaseInv, IdleHoldsNothing, [Next]_vars PROVE IdleHoldsNothing'
  OBVIOUS
<1>a. PassTypes
  BY DEF BaseInv, TypeOK
<1>1. ASSUME NEW r \in Requests, NEW wanted \in SUBSET Seats, Submit(r, wanted) PROVE IdleHoldsNothing'
  BY <1>1 DEF Submit, workerVars, IdleHoldsNothing
<1>2. ASSUME NEW w \in Workers, Poll(w) PROVE IdleHoldsNothing'
  BY <1>2, <1>a DEF Poll, StartPoll, IdleHoldsNothing, PassTypes, Holding
<1>3. ASSUME NEW w \in Workers, Select(w) PROVE IdleHoldsNothing'
  BY <1>3, <1>a DEF Select, IdleHoldsNothing, PassTypes, NoItem, Holding
<1>4. ASSUME NEW w \in Workers, FindNothing(w) PROVE IdleHoldsNothing'
  BY <1>4, <1>a, EndedHoldsNothing DEF FindNothing
<1>5. ASSUME NEW w \in Workers, CommitClaim(w) PROVE IdleHoldsNothing'
  <2>1. pc' = [pc EXCEPT ![w] = "claimed"] /\ \A v \in Workers \ {w} : item'[v] = item[v]
    BY <1>5, <1>a DEF CommitClaim, PassTypes
  <2> QED
    BY <2>1, <1>a DEF IdleHoldsNothing, PassTypes, Holding
<1>6. ASSUME NEW w \in Workers, FailExpiredClaim(w) PROVE IdleHoldsNothing'
  BY <1>6, <1>a, EndedHoldsNothing DEF FailExpiredClaim
<1>7. ASSUME NEW w \in Workers, FindConflict(w) PROVE IdleHoldsNothing'
  BY <1>7, <1>a DEF FindConflict, IdleHoldsNothing, PassTypes, Holding
<1>8. ASSUME NEW w \in Workers, FindNoConflict(w) PROVE IdleHoldsNothing'
  BY <1>8, <1>a, GotoHolds DEF FindNoConflict, Holding
<1>9. ASSUME NEW w \in Workers, Reject(w) PROVE IdleHoldsNothing'
  BY <1>9, <1>a, EndedHoldsNothing, GotoHolds DEF Reject, EndPassOrLoseReply, Holding
<1>10. ASSUME NEW w \in Workers, Confirm(w) PROVE IdleHoldsNothing'
  BY <1>10, <1>a, EndedHoldsNothing, GotoHolds DEF Confirm, EndPassOrLoseReply, Holding
<1>11. ASSUME NEW w \in Workers, ConfirmFindsSeatTaken(w) PROVE IdleHoldsNothing'
  BY <1>11, <1>a, GotoHolds DEF ConfirmFindsSeatTaken, Holding
<1>12. ASSUME NEW w \in Workers, LookUpWinner(w) PROVE IdleHoldsNothing'
  BY <1>12, <1>a DEF LookUpWinner, IdleHoldsNothing, PassTypes, Holding
<1>13. ASSUME NEW w \in Workers, ReleaseForRetry(w) PROVE IdleHoldsNothing'
  BY <1>13, <1>a, EndedHoldsNothing DEF ReleaseForRetry
<1>14. ASSUME NEW w \in Workers, Fail(w) PROVE IdleHoldsNothing'
  BY <1>14, <1>a, EndedHoldsNothing DEF Fail
<1>15. ASSUME NEW w \in Workers, ClaimLost(w) PROVE IdleHoldsNothing'
  BY <1>15, <1>a, EndedHoldsNothing, GotoHolds DEF ClaimLost, RowLocking, Holding
<1>16. ASSUME NEW w \in Workers, CallThrows(w) PROVE IdleHoldsNothing'
  BY <1>16, <1>a, GotoHolds DEF CallThrows, Holding
<1>17. ASSUME NEW w \in Workers, PassThrows(w) PROVE IdleHoldsNothing'
  BY <1>17, <1>a, EndedHoldsNothing DEF PassThrows
<1>18. ASSUME NEW w \in Workers, Crash(w) PROVE IdleHoldsNothing'
  BY <1>18, <1>a, EndedHoldsNothing DEF Crash
<1>19. ASSUME NEW w \in Workers, Restart(w) PROVE IdleHoldsNothing'
  BY <1>19, <1>a, EndedHoldsNothing DEF Restart
<1>20. ASSUME HeartbeatStep \/ Tick \/ UNCHANGED vars PROVE IdleHoldsNothing'
  BY <1>20 DEF HeartbeatStep, SendBeat, ExecuteBeat, LoseBeat, Tick, vars, workerVars, IdleHoldsNothing
<1> QED
  BY <1>1, <1>2, <1>3, <1>4, <1>5, <1>6, <1>7, <1>8, <1>9, <1>10, <1>11, <1>12, <1>13, <1>14, <1>15, <1>16, <1>17, <1>18, <1>19, <1>20
  DEF Next, WorkerStep, ClaimStep, Disturbance

\* What an outcome stands for is in the history, and stays there.
Backed(r, n, outcome) ==
  /\ Attempted(r, n, AttemptOf(outcome))
  /\ outcome = "failed" => status[r] = "FAILED"

\* The pass that is about to record a failure of the claim.
Failing(w, r, n) == pc[w] = "recovering" /\ item[w].request = r /\ item[w].claimToken = n

LEMMA RecordIsAttempted ==
  ASSUME BookTypes, NEW r \in Requests, NEW claim \in Nat, NEW outcome \in Outcomes,
         NEW with \in Requests \cup {None}, Record(r, claim, outcome, with)
  PROVE  /\ Attempted(r, claim, outcome)'
         /\ \A q \in Requests, n \in Nat, o \in Outcomes :
              Attempted(q, n, o)' <=> Attempted(q, n, o) \/ (q = r /\ n = claim /\ o = outcome)
<1>1. /\ \A q \in Requests \ {r} : attempts'[q] = attempts[q]
      /\ Len(attempts[r]) \in Nat
      /\ Len(attempts'[r]) = Len(attempts[r]) + 1
      /\ \A i \in 1..Len(attempts[r]) : attempts'[r][i] = attempts[r][i]
      /\ attempts'[r][Len(attempts[r]) + 1]
           = [claim |-> claim, outcome |-> outcome, conflict |-> with]
  BY RecordEffect
<1>2. /\ DOMAIN attempts[r] = 1..Len(attempts[r])
      /\ DOMAIN attempts'[r] = 1..(Len(attempts[r]) + 1)
  <2>1. attempts[r] \in Seq(Attempt)
    BY DEF BookTypes
  <2>2. [claim |-> claim, outcome |-> outcome, conflict |-> with] \in Attempt
    BY DEF Attempt
  <2>3. attempts'[r] = Append(attempts[r], [claim |-> claim, outcome |-> outcome, conflict |-> with])
    BY DEF Record, BookTypes
  <2>4. attempts'[r] \in Seq(Attempt)
    BY <2>1, <2>2, <2>3, AppendProperties
  <2> QED
    BY <1>1, <2>1, <2>4, LenProperties
<1>3. ASSUME NEW q \in Requests, NEW n \in Nat, NEW o \in Outcomes
      PROVE  Attempted(q, n, o)' <=> Attempted(q, n, o) \/ (q = r /\ n = claim /\ o = outcome)
  <2>1. CASE q # r
    BY <1>1, <2>1 DEF Attempted
  <2>2. CASE q = r
    <3> DEFINE L == Len(attempts[r])
    <3>1. /\ L \in Nat /\ \A i \in 1..L : attempts'[r][i] = attempts[r][i]
          /\ attempts'[r][L + 1].claim = claim /\ attempts'[r][L + 1].outcome = outcome
          /\ DOMAIN attempts[r] = 1..L /\ DOMAIN attempts'[r] = 1..(L + 1)
      BY <1>1, <1>2
    <3> HIDE DEF L
    <3>2. \A i \in 1..(L + 1) : i \in 1..L \/ i = L + 1
      BY <3>1
    <3>3. L + 1 \in 1..(L + 1) /\ \A i \in 1..L : i \in 1..(L + 1)
      BY <3>1
    <3> QED
      BY <2>2, <3>1, <3>2, <3>3 DEF Attempted
  <2> QED
    BY <2>1, <2>2
<1> QED
  BY <1>3

\* The history only grows, and an unexpected error is only recorded by the pass
\* that holds the claim and handles a failure of it.
LEMMA HistoryGrows ==
  ASSUME BaseInv, ClaimInv, [Next]_vars, NEW r \in Requests, NEW n \in Nat
  PROVE  /\ \A o \in Outcomes : Attempted(r, n, o) => Attempted(r, n, o)'
         /\ Attempted(r, n, "unexpected-error")' =>
              \/ Attempted(r, n, "unexpected-error")
              \/ \E w \in Workers : Failing(w, r, n)
<1>a. BookTypes /\ RowTypes
  BY DEF BaseInv, TypeOK
<1>1. CASE UNCHANGED <<attempts, reservations>>
  BY <1>1 DEF Attempted
<1>2. ASSUME NEW w \in Workers, item[w].request \in Requests, Recording(w) PROVE
         /\ \A o \in Outcomes : Attempted(r, n, o) => Attempted(r, n, o)'
         /\ Attempted(r, n, "unexpected-error")' =>
              \/ Attempted(r, n, "unexpected-error")
              \/ \E v \in Workers : Failing(v, r, n)
  <2> DEFINE d == item[w].request
  <2>1. PICK outcome \in Outcomes, with \in Requests \cup {None} :
          /\ Record(d, claims[d], outcome, with)
          /\ outcome = "unexpected-error" => ReleaseForRetry(w) \/ Fail(w)
    BY <1>2, <1>a DEF Recording, EndsClaimWith, Wins, Outcomes, BookTypes
  <2>2. claims[d] \in Nat
    BY <1>2, <1>a DEF RowTypes
  <2>3. outcome = "unexpected-error" => Failing(w, d, claims[d])
    BY <2>1, <1>2 DEF ReleaseForRetry, Fail, Owns, Failing, ClaimInv, RowTokens
  <2> HIDE DEF d
  <2>4. \A o \in Outcomes :
          Attempted(r, n, o)' <=> Attempted(r, n, o) \/ (r = d /\ n = claims[d] /\ o = outcome)
    BY <2>1, <2>2, <1>a, <1>2, RecordIsAttempted DEF d
  <2> QED
    BY <2>3, <2>4 DEF Outcomes
<1> QED
  BY <1>1, <1>2, StepRecordsOrKeeps

-----------------------------------------------------------------------------
(* The invariant. *)

Opened == [claimCounted |-> TRUE, span |-> "open", outcomes |-> <<>>, exceptions |-> 0]
Due == [report : Reports, request : Requests \cup {None}, claim : Nat]

\* The pass is at work on the n-th claim of r, or has yet to report about it.
Holds(w, r, n) ==
  IF Quiet(w) THEN item[w].request = r /\ item[w].claimToken = n
  ELSE due[w].request = r /\ due[w].claim = n

LogTypes ==
  /\ signals \in [Requests -> Seq(Signal)]
  /\ \A r \in Requests : Len(signals[r]) = claims[r]

\* A pass that has just claimed still holds the work item, one that has learnt an
\* outcome is over, and the outcome is in the history.
DueOK(w) ==
  ~Quiet(w) =>
    /\ due[w].report # "nothing"
    /\ due[w].request \in Requests
    /\ due[w].claim \in 1..claims[due[w].request]
    /\ IF due[w].report = "processing"
         THEN /\ pc[w] = "claimed"
              /\ item[w].request = due[w].request
              /\ item[w].claimToken = due[w].claim
         ELSE pc[w] = "idle"
    /\ due[w].report \in ReportedOutcomes =>
         Backed(due[w].request, due[w].claim, due[w].report)

DueInv ==
  /\ due \in [Workers -> Due]
  /\ \A w \in Workers : DueOK(w)

\* What was reported of a claim that is still being worked on.
AtWork ==
  \A w \in Workers, r \in Requests : \A n \in 1..claims[r] :
    Holds(w, r, n) =>
      signals[r][n] = IF due[w].report = "processing" THEN Unreported ELSE Opened

Apart ==
  \A w, v \in Workers, r \in Requests : \A n \in 1..claims[r] :
    Holds(w, r, n) /\ Holds(v, r, n) => w = v

OpenIsHeld ==
  \A r \in Requests : \A n \in 1..claims[r] :
    signals[r][n].span = "open" =>
      \E w \in Workers : Holds(w, r, n) /\ due[w].report # "processing"

\* What SamplesAreBacked and SpansTellTheTruth ask of one claim.
Honest(r, n, s) ==
  /\ \/ s.outcomes = <<>>
     \/ \E o \in ReportedOutcomes : s.outcomes = <<o>> /\ Backed(r, n, o)
  /\ s.span = "ok" =>
       s.exceptions = 0 /\ \E o \in Successes : s.outcomes = <<o>> /\ Attempted(r, n, o)
  /\ Attempted(r, n, "unexpected-error") => s.span # "ok"
  /\ s.span \in {"none", "open", "died"} => s.outcomes = <<>> /\ s.exceptions = 0

HonestLog == \A r \in Requests : \A n \in 1..claims[r] : Honest(r, n, signals[r][n])

LogInv == LogTypes /\ AtWork /\ Apart /\ OpenIsHeld /\ HonestLog
WorkInv == BaseInv /\ ClaimInv /\ HistoryInv /\ IdleHoldsNothing
SignalInv == DueInv /\ LogInv

LEMMA SignalInvInit == SignalInit => SignalInv
<1> SUFFICES ASSUME SignalInit PROVE SignalInv
  OBVIOUS
<1>1. LogTypes
  BY DEF SignalInit, Init, LogTypes
<1>2. DueInv
  BY DEF SignalInit, DueInv, DueOK, Quiet, Nothing, Due, Reports, None
<1>3. \A r \in Requests : 1..claims[r] = {}
  BY DEF SignalInit, Init
<1> QED
  BY <1>1, <1>2, <1>3 DEF SignalInv, LogInv, AtWork, Apart, OpenIsHeld, HonestLog

\* The claim a pass holds is one that was made.
LEMMA HeldIsMade ==
  ASSUME WorkInv, DueInv, NEW w \in Workers
  PROVE  /\ Claim(w).claim \in Nat
         /\ Claim(w).claim > 0 =>
              /\ Claim(w).request \in Requests
              /\ Claim(w).claim \in 1..claims[Claim(w).request]
         /\ \A r \in Requests, n \in Nat :
              Holds(w, r, n) <=> Claim(w).request = r /\ Claim(w).claim = n
<1>1. CASE Quiet(w)
  <2>1. Claim(w).request = item[w].request /\ Claim(w).claim = item[w].claimToken
    BY <1>1 DEF Claim
  <2>2. item[w].claimToken \in Nat
    BY DEF WorkInv, BaseInv, TypeOK, PassTypes, WorkItem
  <2>3. item[w].claimToken > 0 =>
          item[w].request \in Requests /\ item[w].claimToken <= claims[item[w].request]
    BY DEF WorkInv, IdleHoldsNothing, ClaimInv, HeldTokens, BaseInv, TypeOK, PassTypes
  <2>4. \A r \in Requests : claims[r] \in Nat
    BY DEF WorkInv, BaseInv, TypeOK, RowTypes
  <2> QED
    BY <1>1, <2>1, <2>2, <2>3, <2>4 DEF Holds
<1>2. CASE ~Quiet(w)
  <2>1. Claim(w).request = due[w].request /\ Claim(w).claim = due[w].claim
    BY <1>2 DEF Claim
  <2> QED
    BY <1>2, <2>1 DEF DueInv, DueOK, Due, Holds
<1> QED
  BY <1>1, <1>2

\* What is proved of a run of the work while a step is taken.
Grows ==
  \A r \in Requests, n \in Nat :
    /\ \A o \in Outcomes : Attempted(r, n, o) => Attempted(r, n, o)'
    /\ Attempted(r, n, "unexpected-error")' =>
         \/ Attempted(r, n, "unexpected-error")
         \/ \E w \in Workers : Failing(w, r, n)
    /\ status[r] = "FAILED" => status'[r] = "FAILED"

LEMMA WorkGrows ==
  ASSUME WorkInv, [Next]_vars
  PROVE  Grows
<1>1. \A r \in Requests : status[r] = "FAILED" => status'[r] = "FAILED"
  BY FinalNext DEF WorkInv, StaysDecided, TerminalStatus
<1> QED
  BY <1>1, HistoryGrows DEF WorkInv, Grows

LEMMA BackedStays ==
  ASSUME Grows, NEW r \in Requests, NEW n \in Nat, NEW o \in ReportedOutcomes, Backed(r, n, o)
  PROVE  Backed(r, n, o)'
<1>1. AttemptOf(o) \in Outcomes
  BY DEF ReportedOutcomes, Successes, AttemptOf, Outcomes
<1>2. PICK a \in Outcomes : a = AttemptOf(o)
  BY <1>1
<1>3. Attempted(r, n, a)'
  BY <1>2 DEF Grows, Backed
<1> QED
  BY <1>2, <1>3 DEF Grows, Backed

\* The same, after a step of the work, of what was reported before it.
HonestAfter(r, n, s) ==
  /\ \/ s.outcomes = <<>>
     \/ \E o \in ReportedOutcomes : s.outcomes = <<o>> /\ Backed(r, n, o)'
  /\ s.span = "ok" =>
       s.exceptions = 0 /\ \E o \in Successes : s.outcomes = <<o>> /\ Attempted(r, n, o)'
  /\ Attempted(r, n, "unexpected-error")' => s.span # "ok"
  /\ s.span \in {"none", "open", "died"} => s.outcomes = <<>> /\ s.exceptions = 0

\* A failure is recorded while the span of its claim is open.
LEMMA HonestStays ==
  ASSUME WorkInv, SignalInv, Grows, NEW r \in Requests, NEW n \in 1..claims[r]
  PROVE  HonestAfter(r, n, signals[r][n])
<1> DEFINE s == signals[r][n]
<1>0. n \in Nat /\ n > 0
  BY DEF WorkInv, BaseInv, TypeOK, RowTypes
<1>1. Honest(r, n, s)
  BY DEF SignalInv, LogInv, HonestLog
<1>2. \A o \in ReportedOutcomes : Backed(r, n, o) => Backed(r, n, o)'
  BY <1>0, BackedStays
<1>3. \A o \in Successes : Attempted(r, n, o) => Attempted(r, n, o)'
  BY <1>0 DEF Grows, Successes, Outcomes
<1>4. ASSUME NEW w \in Workers, Failing(w, r, n) PROVE s.span # "ok"
  <2>1. Quiet(w) /\ Holds(w, r, n)
    BY <1>4 DEF SignalInv, DueInv, DueOK, Failing, Holds
  <2>2. due[w].report # "processing"
    BY <2>1 DEF Quiet, Nothing
  <2>3. s = Opened
    BY <2>1, <2>2 DEF SignalInv, LogInv, AtWork
  <2> QED
    BY <2>3 DEF Opened
<1>5. Attempted(r, n, "unexpected-error")' => s.span # "ok"
  BY <1>0, <1>1, <1>4 DEF Grows, Honest
<1> HIDE DEF s
<1>6. HonestAfter(r, n, s)
  BY <1>1, <1>2, <1>3, <1>5 DEF Honest, HonestAfter
<1> QED
  BY <1>6 DEF s

-----------------------------------------------------------------------------
(* The kinds of steps, by what they do to the claims that passes hold. *)

HoldsSame(u) == \A r \in Requests : \A n \in 1..claims[r] : Holds(u, r, n)' <=> Holds(u, r, n)
HoldsNone(u) == \A r \in Requests : \A n \in 1..claims[r] : ~Holds(u, r, n)'
DueSame(u) == due'[u].report = "processing" <=> due[u].report = "processing"
OthersSame(w) == \A u \in Workers \ {w} : HoldsSame(u) /\ DueSame(u)

\* Nothing is reported, and each pass keeps its claim.
Keeps ==
  /\ UNCHANGED <<signals, claims>>
  /\ \A u \in Workers : HoldsSame(u) /\ DueSame(u)

\* A pass gives up a claim no span was started for.
Drops(w) ==
  /\ UNCHANGED <<signals, claims>>
  /\ \A r \in Requests : \A n \in 1..claims[r] : Holds(w, r, n) => signals[r][n].span # "open"
  /\ HoldsNone(w)
  /\ OthersSame(w)

\* A pass reports about the claim it holds.
Turns(w, r, n, s) ==
  /\ Holds(w, r, n)
  /\ s \in Signal
  /\ signals' = [signals EXCEPT ![r][n] = s]
  /\ UNCHANGED claims
  /\ OthersSame(w)

Starts(w, r, n) ==
  /\ Turns(w, r, n, Opened)
  /\ due'[w].report # "processing"
  /\ HoldsSame(w)

Ends(w, r, n, s) ==
  /\ Turns(w, r, n, s)
  /\ s.span # "open"
  /\ HonestAfter(r, n, s)
  /\ HoldsNone(w)

\* A pass obtains the k-th claim.
Claims(w, r, k) ==
  /\ k = claims[r] + 1
  /\ claims' = [claims EXCEPT ![r] = @ + 1]
  /\ signals' = [signals EXCEPT ![r] = Append(@, Unreported)]
  /\ Holds(w, r, k)' /\ due'[w].report = "processing"
  /\ \A q \in Requests : \A n \in 1..claims[q] : ~Holds(w, q, n)
  /\ HoldsNone(w)
  /\ OthersSame(w)
  /\ \A u \in Workers \ {w} : ~Holds(u, r, k)'

LEMMA KeepsLog == ASSUME WorkInv, SignalInv, Grows, Keeps PROVE LogInv'
<1>1. LogTypes'
  BY DEF Keeps, SignalInv, LogInv, LogTypes
<1>2. AtWork' /\ Apart'
  BY DEF Keeps, HoldsSame, DueSame, SignalInv, LogInv, AtWork, Apart
<1>3. OpenIsHeld'
  BY DEF Keeps, HoldsSame, DueSame, SignalInv, LogInv, OpenIsHeld
<1>4. HonestLog'
  BY HonestStays DEF Keeps, HonestLog, Honest, HonestAfter
<1> QED
  BY <1>1, <1>2, <1>3, <1>4 DEF LogInv

LEMMA DropsLog == ASSUME WorkInv, SignalInv, Grows, NEW w \in Workers, Drops(w) PROVE LogInv'
<1>1. LogTypes'
  BY DEF Drops, SignalInv, LogInv, LogTypes
<1>2. AtWork' /\ Apart'
  BY DEF Drops, OthersSame, HoldsSame, HoldsNone, DueSame, SignalInv, LogInv, AtWork, Apart
<1>3. OpenIsHeld'
  BY DEF Drops, OthersSame, HoldsSame, DueSame, SignalInv, LogInv, OpenIsHeld
<1>4. HonestLog'
  BY HonestStays DEF Drops, HonestLog, Honest, HonestAfter
<1> QED
  BY <1>1, <1>2, <1>3, <1>4 DEF LogInv

LEMMA TurnsEffect ==
  ASSUME WorkInv, LogTypes, NEW w \in Workers, NEW r \in Requests, NEW n \in 1..claims[r], NEW s,
         Turns(w, r, n, s)
  PROVE  /\ LogTypes' /\ signals'[r][n] = s
         /\ \A q \in Requests : \A m \in 1..claims[q] :
              q # r \/ m # n => signals'[q][m] = signals[q][m]
<1>1. /\ signals[r] \in Seq(Signal) /\ Len(signals[r]) = claims[r]
      /\ DOMAIN signals[r] = 1..claims[r]
  BY LenProperties DEF LogTypes
<1>2. /\ signals'[r] = [signals[r] EXCEPT ![n] = s]
      /\ \A q \in Requests \ {r} : signals'[q] = signals[q]
      /\ DOMAIN signals' = Requests /\ signals' = [q \in Requests |-> signals'[q]]
  BY DEF Turns, LogTypes
<1>3. signals'[r] \in Seq(Signal) /\ Len(signals'[r]) = claims[r]
  BY <1>1, <1>2, ExceptSeq DEF Turns
<1>4. \A m \in 1..claims[r] : signals'[r][m] = IF m = n THEN s ELSE signals[r][m]
  BY <1>1, <1>2
<1>5. \A q \in Requests : signals'[q] \in Seq(Signal) /\ Len(signals'[q]) = claims[q]
  BY <1>2, <1>3 DEF LogTypes
<1>6. LogTypes'
  BY <1>2, <1>5 DEF LogTypes, Turns
<1> QED
  BY <1>2, <1>4, <1>6

LEMMA StartsLog ==
  ASSUME WorkInv, SignalInv, Grows, NEW w \in Workers, NEW r \in Requests, NEW n \in 1..claims[r],
         Starts(w, r, n), due[w].report = "processing"
  PROVE  LogInv'
<1>a. LogTypes /\ AtWork /\ Apart /\ OpenIsHeld /\ HonestLog
  BY DEF SignalInv, LogInv
<1>1. /\ LogTypes' /\ signals'[r][n] = Opened
      /\ \A q \in Requests : \A m \in 1..claims[q] :
           q # r \/ m # n => signals'[q][m] = signals[q][m]
  BY <1>a, TurnsEffect DEF Starts
<1>b. /\ Holds(w, r, n) /\ UNCHANGED claims /\ HoldsSame(w) /\ OthersSame(w)
      /\ due'[w].report # "processing"
  BY DEF Starts, Turns
<1>c. \A u \in Workers : HoldsSame(u)
  BY <1>b DEF OthersSame
<1>d. \A u \in Workers \ {w}, q \in Requests : \A m \in 1..claims[q] :
        Holds(u, q, m) => q # r \/ m # n
  BY <1>a, <1>b DEF Apart
<1>2. AtWork'
  <2>1. ASSUME NEW u \in Workers, NEW q \in Requests, NEW m \in 1..claims[q], Holds(u, q, m)
        PROVE  signals'[q][m] = IF due'[u].report = "processing" THEN Unreported ELSE Opened
    <3>1. CASE u = w
      <4>1. (q = r /\ m = n) \/ (signals[q][m] = Unreported /\ Holds(w, r, n) /\ Holds(w, q, m))
        BY <1>a, <1>b, <2>1, <3>1 DEF AtWork
      <4>2. q = r /\ m = n
        BY <4>1 DEF Holds
      <4> QED
        BY <1>1, <1>b, <3>1, <4>2
    <3>2. CASE u # w
      BY <1>1, <1>a, <1>b, <1>d, <2>1, <3>2 DEF AtWork, OthersSame, DueSame
    <3> QED
      BY <3>1, <3>2
  <2> QED
    BY <2>1, <1>b, <1>c DEF AtWork, HoldsSame
<1>3. Apart'
  BY <1>a, <1>b, <1>c DEF Apart, HoldsSame
<1>4. OpenIsHeld'
  BY <1>1, <1>a, <1>b, <1>c DEF OpenIsHeld, HoldsSame, OthersSame, DueSame
<1>5. HonestLog'
  <2>1. HonestAfter(r, n, Opened)
    <3>1. HonestAfter(r, n, signals[r][n]) /\ signals[r][n] = Unreported
      BY <1>a, <1>b, HonestStays DEF AtWork
    <3> QED
      BY <3>1 DEF HonestAfter, Opened
  <2>2. ASSUME NEW q \in Requests, NEW m \in 1..claims[q] PROVE HonestAfter(q, m, signals'[q][m])
    BY <1>1, <2>1, HonestStays
  <2> QED
    BY <2>2, <1>b DEF HonestLog, Honest, HonestAfter
<1> QED
  BY <1>1, <1>2, <1>3, <1>4, <1>5 DEF LogInv

LEMMA EndsLog ==
  ASSUME WorkInv, SignalInv, Grows, NEW w \in Workers, NEW r \in Requests, NEW n \in 1..claims[r],
         NEW s, Ends(w, r, n, s)
  PROVE  LogInv'
<1>a. LogTypes /\ AtWork /\ Apart /\ OpenIsHeld /\ HonestLog
  BY DEF SignalInv, LogInv
<1>1. /\ LogTypes' /\ signals'[r][n] = s
      /\ \A q \in Requests : \A m \in 1..claims[q] :
           q # r \/ m # n => signals'[q][m] = signals[q][m]
  BY <1>a, TurnsEffect DEF Ends
<1>b. /\ Holds(w, r, n) /\ UNCHANGED claims /\ HoldsNone(w) /\ OthersSame(w)
      /\ s.span # "open" /\ HonestAfter(r, n, s)
  BY DEF Ends, Turns
<1>d. \A u \in Workers \ {w}, q \in Requests : \A m \in 1..claims[q] :
        Holds(u, q, m) => q # r \/ m # n
  BY <1>a, <1>b DEF Apart
<1>2. AtWork'
  <2>1. ASSUME NEW u \in Workers, NEW q \in Requests, NEW m \in 1..claims[q], Holds(u, q, m)'
        PROVE  signals'[q][m] = IF due'[u].report = "processing" THEN Unreported ELSE Opened
    <3>1. u # w
      BY <1>b, <2>1 DEF HoldsNone
    <3>2. Holds(u, q, m) /\ DueSame(u)
      BY <1>b, <2>1, <3>1 DEF OthersSame, HoldsSame
    <3> QED
      BY <1>1, <1>a, <1>d, <3>1, <3>2 DEF AtWork, DueSame
  <2> QED
    BY <2>1, <1>b DEF AtWork
<1>3. Apart'
  BY <1>a, <1>b DEF Apart, HoldsNone, OthersSame, HoldsSame
<1>4. OpenIsHeld'
  <2>1. ASSUME NEW q \in Requests, NEW m \in 1..claims[q], signals'[q][m].span = "open"
        PROVE  \E u \in Workers : Holds(u, q, m)' /\ due'[u].report # "processing"
    <3>1. (q # r \/ m # n) /\ signals[q][m].span = "open"
      BY <1>1, <1>b, <2>1
    <3>2. PICK u \in Workers : Holds(u, q, m) /\ due[u].report # "processing"
      BY <1>a, <3>1 DEF OpenIsHeld
    <3>3. u # w
      BY <1>b, <3>1, <3>2 DEF Holds
    <3> QED
      BY <1>b, <3>2, <3>3 DEF OthersSame, HoldsSame, DueSame
  <2> QED
    BY <2>1, <1>b DEF OpenIsHeld
<1>5. HonestLog'
  <2>2. ASSUME NEW q \in Requests, NEW m \in 1..claims[q] PROVE HonestAfter(q, m, signals'[q][m])
    BY <1>1, <1>b, HonestStays
  <2> QED
    BY <2>2, <1>b DEF HonestLog, Honest, HonestAfter
<1> QED
  BY <1>1, <1>2, <1>3, <1>4, <1>5 DEF LogInv

LEMMA ClaimsLog ==
  ASSUME WorkInv, WorkInv', SignalInv, Grows, NEW w \in Workers, NEW r \in Requests, NEW k,
         Claims(w, r, k)
  PROVE  LogInv'
<1>a. LogTypes /\ AtWork /\ Apart /\ OpenIsHeld /\ HonestLog
  BY DEF SignalInv, LogInv
<1>c. claims \in [Requests -> Nat]
  BY DEF WorkInv, BaseInv, TypeOK, RowTypes
<1>d. Unreported \in Signal
  BY DEF Unreported, Signal, Spans
<1>1. /\ signals'[r] = Append(signals[r], Unreported)
      /\ \A q \in Requests \ {r} : signals'[q] = signals[q] /\ claims'[q] = claims[q]
      /\ claims'[r] = claims[r] + 1
      /\ signals[r] \in Seq(Signal) /\ Len(signals[r]) = claims[r]
      /\ DOMAIN signals' = Requests /\ signals' = [q \in Requests |-> signals'[q]]
  BY <1>a, <1>c DEF Claims, LogTypes
<1>2. /\ signals'[r] \in Seq(Signal) /\ Len(signals'[r]) = claims[r] + 1
      /\ \A m \in 1..claims[r] : signals'[r][m] = signals[r][m]
      /\ signals'[r][claims[r] + 1] = Unreported
  BY <1>1, <1>d, AppendProperties
<1>3. LogTypes'
  <2>1. \A q \in Requests : signals'[q] \in Seq(Signal) /\ Len(signals'[q]) = claims'[q]
    BY <1>a, <1>1, <1>2 DEF LogTypes
  <2> QED
    BY <1>1, <2>1 DEF LogTypes
<1> DEFINE New(q, m) == q = r /\ m = claims[r] + 1
<1>4. ASSUME NEW q \in Requests, NEW m \in 1..claims'[q]
      PROVE  \/ m \in 1..claims[q] /\ signals'[q][m] = signals[q][m] /\ ~New(q, m)
             \/ New(q, m) /\ signals'[q][m] = Unreported
  <2>1. CASE q = r
    BY <1>1, <1>2, <1>c, <2>1
  <2>2. CASE q # r
    BY <1>1, <2>2
  <2> QED
    BY <2>1, <2>2
<1>b. /\ \A q \in Requests : \A m \in 1..claims[q] : ~Holds(w, q, m)
      /\ HoldsNone(w) /\ OthersSame(w) /\ due'[w].report = "processing"
      /\ \A u \in Workers, q \in Requests : \A m \in 1..claims'[q] :
           New(q, m) => (Holds(u, q, m)' <=> u = w)
  <2>1. k = claims[r] + 1
    BY DEF Claims
  <2>2. Holds(w, r, k)' /\ \A u \in Workers \ {w} : ~Holds(u, r, k)'
    BY DEF Claims
  <2>3. \A u \in Workers, q \in Requests : \A m \in 1..claims'[q] :
           New(q, m) => (Holds(u, q, m)' <=> u = w)
    BY <2>1, <2>2
  <2> QED
    BY <2>3 DEF Claims
<1> HIDE DEF New
<1>5. AtWork'
  <2>1. ASSUME NEW u \in Workers, NEW q \in Requests, NEW m \in 1..claims'[q], Holds(u, q, m)'
        PROVE  signals'[q][m] = IF due'[u].report = "processing" THEN Unreported ELSE Opened
    <3>1. CASE New(q, m)
      BY <1>4, <1>b, <2>1, <3>1
    <3>2. CASE ~New(q, m)
      <4>1. m \in 1..claims[q] /\ signals'[q][m] = signals[q][m] /\ u # w
        BY <1>4, <1>b, <2>1, <3>2 DEF HoldsNone
      <4> QED
        BY <1>a, <1>b, <2>1, <4>1 DEF AtWork, OthersSame, HoldsSame, DueSame
    <3> QED
      BY <3>1, <3>2
  <2> QED
    BY <2>1 DEF AtWork
<1>6. Apart'
  <2>1. ASSUME NEW u \in Workers, NEW v \in Workers, NEW q \in Requests, NEW m \in 1..claims'[q],
               Holds(u, q, m)', Holds(v, q, m)'
        PROVE  u = v
    <3>1. CASE New(q, m)
      BY <1>b, <2>1, <3>1
    <3>2. CASE ~New(q, m)
      <4>1. m \in 1..claims[q] /\ u # w /\ v # w
        BY <1>4, <1>b, <2>1, <3>2 DEF HoldsNone
      <4> QED
        BY <1>a, <1>b, <2>1, <4>1 DEF Apart, OthersSame, HoldsSame
    <3> QED
      BY <3>1, <3>2
  <2> QED
    BY <2>1 DEF Apart
<1>7. OpenIsHeld'
  <2>1. ASSUME NEW q \in Requests, NEW m \in 1..claims'[q], signals'[q][m].span = "open"
        PROVE  \E u \in Workers : Holds(u, q, m)' /\ due'[u].report # "processing"
    <3>1. m \in 1..claims[q] /\ signals[q][m].span = "open"
      BY <1>4, <2>1 DEF Unreported
    <3>2. PICK u \in Workers : Holds(u, q, m) /\ due[u].report # "processing"
      BY <1>a, <3>1 DEF OpenIsHeld
    <3> QED
      BY <1>b, <3>1, <3>2 DEF OthersSame, HoldsSame, DueSame
  <2> QED
    BY <2>1 DEF OpenIsHeld
<1>8. HonestLog'
  <2>1. ASSUME NEW q \in Requests, NEW m \in 1..claims'[q] PROVE HonestAfter(q, m, signals'[q][m])
    <3>1. CASE New(q, m)
      BY <1>4, <3>1 DEF HonestAfter, Unreported
    <3>2. CASE ~New(q, m)
      BY <1>4, <3>2, HonestStays
    <3> QED
      BY <3>1, <3>2
  <2> QED
    BY <2>1 DEF HonestLog, Honest, HonestAfter
<1> QED
  BY <1>3, <1>5, <1>6, <1>7, <1>8 DEF LogInv

-----------------------------------------------------------------------------
(* Which step is of which kind. *)

\* The passes of the other workers are not touched.
OnlyPass(w) ==
  \A u \in Workers \ {w} : pc'[u] = pc[u] /\ item'[u] = item[u] /\ due'[u] = due[u]

LEMMA OnlyPassSame ==
  ASSUME NEW w \in Workers, OnlyPass(w)
  PROVE  OthersSame(w)
  BY DEF OnlyPass, OthersSame, HoldsSame, DueSame, Holds, Quiet

LEMMA DueFrame ==
  ASSUME WorkInv, WorkInv', DueInv, Grows, NEW w \in Workers, OnlyPass(w), DueOK(w)',
         \A r \in Requests : claims'[r] >= claims[r],
         due' \in [Workers -> Due]
  PROVE  DueInv'
<1>1. ASSUME NEW u \in Workers \ {w} PROVE DueOK(u)'
  <2>1. pc'[u] = pc[u] /\ item'[u] = item[u] /\ due'[u] = due[u] /\ DueOK(u)
    BY DEF OnlyPass, DueInv
  <2>2. CASE Quiet(u)
    BY <2>1, <2>2 DEF DueOK, Quiet
  <2>3. CASE ~Quiet(u)
    <3>1. PICK r \in Requests, n \in Nat, o \in {due[u].report} :
            r = due[u].request /\ n = due[u].claim /\ o = due[u].report /\ n \in 1..claims[r]
      BY <2>1, <2>3 DEF DueOK, DueInv, Due
    <3>2. n \in 1..claims'[r]
      BY <3>1 DEF WorkInv, BaseInv, TypeOK, RowTypes
    <3>3. o \in ReportedOutcomes => Backed(r, n, o)'
      BY <2>1, <2>3, <3>1, BackedStays DEF DueOK
    <3> QED
      BY <2>1, <2>3, <3>1, <3>2, <3>3 DEF DueOK, Quiet
  <2> QED
    BY <2>2, <2>3
<1> QED
  BY <1>1 DEF DueInv

\* Steps of a pass that report nothing and keep the work item or hold none.
LEMMA PassKeeps ==
  ASSUME WorkInv, WorkInv', SignalInv, Grows, NEW w \in Workers, Quiet(w),
         UNCHANGED <<signals, claims, due>>,
         \A u \in Workers \ {w} : pc'[u] = pc[u] /\ item'[u] = item[u],
         item'[w] = item[w] \/ (item[w].claimToken = 0 /\ item'[w].claimToken = 0)
  PROVE  SignalInv'
<1>1. OnlyPass(w)
  BY DEF OnlyPass
<1>2. Keeps
  <2>1. HoldsSame(w) /\ DueSame(w)
    BY DEF HoldsSame, DueSame, Holds, Quiet
  <2> QED
    BY <1>1, <2>1, OnlyPassSame DEF Keeps, OthersSame
<1>3. DueOK(w)'
  BY DEF DueOK, Quiet
<1>4. DueInv'
  BY <1>1, <1>3, DueFrame DEF SignalInv, DueInv, WorkInv, BaseInv, TypeOK, RowTypes
<1> QED
  BY <1>2, <1>4, KeepsLog DEF SignalInv

\* A pass is over and has learnt what to report.
LEMMA PassLearns ==
  ASSUME WorkInv, WorkInv', SignalInv, Grows, NEW w \in Workers, Quiet(w), pc[w] \in Holding,
         NEW report \in Reports \ {"nothing", "processing"}, Learn(w, report),
         UNCHANGED <<signals, claims>>, pc'[w] = "idle",
         \A u \in Workers \ {w} : pc'[u] = pc[u] /\ item'[u] = item[u],
         NEW r, NEW n, r = item[w].request, n = item[w].claimToken,
         report \in ReportedOutcomes => Backed(r, n, report)'
  PROVE  SignalInv'
<1>1. r \in Requests /\ n \in 1..claims[r] /\ n \in Nat
  BY DEF WorkInv, ClaimInv, HeldTokens, BaseInv, TypeOK, PassTypes, WorkItem, RowTypes
<1>2. /\ due'[w] = [report |-> report, request |-> r, claim |-> n]
      /\ \A u \in Workers \ {w} : due'[u] = due[u]
      /\ due' \in [Workers -> Due]
  BY <1>1 DEF Learn, SignalInv, DueInv, Due, None
<1>3. OnlyPass(w)
  BY <1>2 DEF OnlyPass
<1>4. ~Quiet(w)'
  BY <1>2 DEF Quiet, Nothing
<1>5. Keeps
  <2>1. HoldsSame(w)
    BY <1>2, <1>4 DEF HoldsSame, Holds
  <2>2. DueSame(w)
    BY <1>2 DEF DueSame, Quiet, Nothing
  <2> QED
    BY <1>3, <2>1, <2>2, OnlyPassSame DEF Keeps, OthersSame
<1>6. DueOK(w)'
  BY <1>1, <1>2 DEF DueOK
<1>7. DueInv'
  BY <1>2, <1>3, <1>6, DueFrame DEF SignalInv, DueInv, WorkInv, BaseInv, TypeOK, RowTypes
<1> QED
  BY <1>5, <1>7, KeepsLog DEF SignalInv

\* A pass is over and has nothing more to report.
LEMMA PassForgets ==
  ASSUME WorkInv, WorkInv', SignalInv, Grows, NEW w \in Workers, Forget(w),
         UNCHANGED claims, item'[w].claimToken = 0,
         \A u \in Workers \ {w} : pc'[u] = pc[u] /\ item'[u] = item[u]
  PROVE  DueInv' /\ OthersSame(w) /\ HoldsNone(w)
<1>1. /\ due'[w] = Nothing /\ \A u \in Workers \ {w} : due'[u] = due[u]
      /\ due' \in [Workers -> Due]
  BY DEF Forget, SignalInv, DueInv, Due, Nothing, Reports, None
<1>2. OnlyPass(w) /\ DueOK(w)'
  BY <1>1 DEF OnlyPass, DueOK, Quiet
<1>3. DueInv'
  BY <1>1, <1>2, DueFrame DEF SignalInv, DueInv, WorkInv, BaseInv, TypeOK, RowTypes
<1>4. HoldsNone(w)
  BY <1>1 DEF HoldsNone, Holds, Quiet, WorkInv, BaseInv, TypeOK, RowTypes
<1> QED
  BY <1>2, <1>3, <1>4, OnlyPassSame

LEMMA PassFrame ==
  ASSUME PassTypes, NEW w \in Workers, NEW next, EndPass(w, next) \/ Goto(w, next)
  PROVE  /\ pc'[w] = next /\ (item'[w] = NoItem \/ item'[w] = item[w])
         /\ \A u \in Workers \ {w} : pc'[u] = pc[u] /\ item'[u] = item[u]
  BY DEF PassTypes, EndPass, Goto

\* A pass without work item has nothing to report but an outcome it has learnt.
LEMMA ClaimingIsQuiet ==
  ASSUME WorkInv, SignalInv, NEW w \in Workers, pc[w] \notin Holding \cup {"idle"}
  PROVE  Quiet(w) /\ item[w].claimToken = 0
  BY DEF WorkInv, IdleHoldsNothing, SignalInv, DueInv, DueOK, Holding

LEMMA PollStartsNext ==
  ASSUME WorkInv, WorkInv', SignalInv, Grows, NEW w \in Workers, PollStarts(w)
  PROVE  SignalInv'
<1>1. UNCHANGED <<signals, due, claims, item>> /\ Quiet(w)
  BY DEF PollStarts, Poll, StartPoll, rowVars, signalVars
<1>2. \A u \in Workers \ {w} : pc'[u] = pc[u]
  BY DEF PollStarts, Poll, StartPoll, WorkInv, BaseInv, TypeOK, PassTypes
<1> QED
  BY <1>1, <1>2, PassKeeps

LEMMA ClaimAnswersNullNext ==
  ASSUME WorkInv, WorkInv', SignalInv, Grows, NEW w \in Workers, ClaimAnswersNull(w)
  PROVE  SignalInv'
<1>1. UNCHANGED <<signals, due, claims>> /\ EndPass(w, "idle")
  BY DEF ClaimAnswersNull, FindNothing, FailExpiredClaim, MoveTo, rowVars, signalVars
<1>2. Quiet(w) /\ item[w].claimToken = 0
  BY ClaimingIsQuiet DEF ClaimAnswersNull, FindNothing, FailExpiredClaim, Holding
<1>3. \A u \in Workers \ {w} : pc'[u] = pc[u] /\ item'[u] = item[u]
  BY <1>1, PassFrame DEF WorkInv, BaseInv, TypeOK
<1>4. item'[w] = NoItem \/ item'[w] = item[w]
  BY <1>1, PassFrame DEF WorkInv, BaseInv, TypeOK
<1> QED
  BY <1>1, <1>2, <1>3, <1>4, PassKeeps DEF NoItem

LEMMA PassGoesOnNext ==
  ASSUME WorkInv, WorkInv', SignalInv, Grows, NEW w \in Workers, PassGoesOn(w)
  PROVE  SignalInv'
<1>a. PassTypes
  BY DEF WorkInv, BaseInv, TypeOK
<1>b. UNCHANGED <<signals, due>> /\ Quiet(w)
  BY DEF PassGoesOn, signalVars
<1> DEFINE Goal == /\ UNCHANGED claims
                   /\ \A u \in Workers \ {w} : pc'[u] = pc[u] /\ item'[u] = item[u]
                   /\ item'[w] = item[w] \/ (item[w].claimToken = 0 /\ item'[w].claimToken = 0)
<1>c. ASSUME NEW next, EndPass(w, next), UNCHANGED claims, pc[w] \notin Holding \cup {"idle"}
      PROVE  Goal
  BY <1>a, <1>c, PassFrame, ClaimingIsQuiet DEF NoItem
<1>d. ASSUME NEW next, Goto(w, next), UNCHANGED claims PROVE Goal
  BY <1>a, <1>d DEF Goto, PassTypes
<1>1. ASSUME Select(w) PROVE Goal
  <2>1. item[w].claimToken = 0
    BY <1>1, ClaimingIsQuiet DEF Select, Holding
  <2> QED
    BY <1>1, <1>a, <2>1 DEF Select, PassTypes, NoItem, rowVars
<1>2. ASSUME FindConflict(w) \/ LookUpWinner(w) PROVE Goal
  BY <1>2, <1>a DEF FindConflict, LookUpWinner, PassTypes, rowVars
<1>3. ASSUME FindNoConflict(w) PROVE Goal
  BY <1>3, <1>d DEF FindNoConflict, rowVars
<1>4. ASSUME ConfirmFindsSeatTaken(w) PROVE Goal
  BY <1>4, <1>d DEF ConfirmFindsSeatTaken, rowVars
<1>5. ASSUME CallThrows(w) PROVE Goal
  BY <1>5, <1>d DEF CallThrows, rowVars
<1>6. ASSUME Restart(w) PROVE Goal
  BY <1>6, <1>c DEF Restart, Holding, rowVars
<1>7. ASSUME pc[w] \in {"polling", "selected"} /\ PassThrows(w) PROVE Goal
  BY <1>7, <1>c DEF PassThrows, Holding, rowVars
<1>8. ASSUME pc[w] # "recovering" /\ ClaimLost(w) PROVE Goal
  BY <1>8, <1>d DEF ClaimLost, rowVars
<1>9. Goal
  BY <1>1, <1>2, <1>3, <1>4, <1>5, <1>6, <1>7, <1>8 DEF PassGoesOn
<1> QED
  BY <1>9, <1>b, PassKeeps

LEMMA ElsewhereNext ==
  ASSUME WorkInv, WorkInv', SignalInv, Grows, Elsewhere \/ UNCHANGED allVars
  PROVE  SignalInv'
<1>1. UNCHANGED <<signals, due, claims, pc, item>>
  BY DEF Elsewhere, Submit, HeartbeatStep, SendBeat, ExecuteBeat, LoseBeat, Tick,
         allVars, signalVars, vars, rowVars, workerVars
<1>2. Keeps
  BY <1>1 DEF Keeps, HoldsSame, DueSame, Holds, Quiet
<1>3. ASSUME NEW u \in Workers PROVE DueOK(u)'
  <2>1. OnlyPass(u) /\ DueOK(u)
    BY <1>1 DEF OnlyPass, SignalInv, DueInv
  <2>2. CASE Quiet(u)
    BY <1>1, <2>2 DEF DueOK, Quiet
  <2>3. CASE ~Quiet(u)
    <3>1. PICK r \in Requests, n \in Nat, o \in {due[u].report} :
            r = due[u].request /\ n = due[u].claim /\ o = due[u].report
      BY <2>1, <2>3 DEF DueOK, SignalInv, DueInv, Due
    <3>2. o \in ReportedOutcomes => Backed(r, n, o)'
      BY <2>1, <2>3, <3>1, BackedStays DEF DueOK
    <3> QED
      BY <1>1, <2>1, <2>3, <3>1, <3>2 DEF DueOK, Quiet
  <2> QED
    BY <2>2, <2>3
<1>4. DueInv'
  BY <1>1, <1>3 DEF SignalInv, DueInv
<1> QED
  BY <1>2, <1>4, KeepsLog DEF SignalInv

LEMMA ClaimIsCommittedNext ==
  ASSUME WorkInv, WorkInv', SignalInv, Grows, NEW w \in Workers, ClaimIsCommitted(w)
  PROVE  SignalInv'
<1>a. PassTypes /\ RowTypes /\ LogTypes
  BY DEF WorkInv, BaseInv, TypeOK, SignalInv, LogInv
<1>b. CommitClaim(w) /\ pc[w] = "selected"
  BY DEF ClaimIsCommitted, CommitClaim
<1>c. Quiet(w) /\ item[w].claimToken = 0
  BY <1>b, ClaimingIsQuiet DEF Holding
<1>0. PICK r \in Requests, k \in Nat : r = item[w].request /\ k = claims[r] + 1
  BY <1>a, <1>b DEF PassTypes, RowTypes
<1>1. /\ claims' = [claims EXCEPT ![r] = @ + 1] /\ claims'[r] = k
      /\ pc' = [pc EXCEPT ![w] = "claimed"]
      /\ item' = [item EXCEPT ![w] = [request |-> r, claimToken |-> k,
                                      transientFailureCount |-> transientFailureCount[r]]]
  BY <1>a, <1>b, <1>0 DEF CommitClaim, FreshToken, RowTypes
<1>2. /\ pc'[w] = "claimed" /\ item'[w].request = r /\ item'[w].claimToken = k
      /\ \A u \in Workers \ {w} : pc'[u] = pc[u] /\ item'[u] = item[u]
  BY <1>a, <1>1 DEF PassTypes
<1>3. /\ signals' = [signals EXCEPT ![r] = Append(@, Unreported)]
      /\ due' = [due EXCEPT ![w] = [report |-> "processing", request |-> r, claim |-> k]]
  BY <1>0 DEF ClaimIsCommitted, FreshToken
<1>4. /\ due'[w] = [report |-> "processing", request |-> r, claim |-> k]
      /\ \A u \in Workers \ {w} : due'[u] = due[u]
      /\ due' \in [Workers -> Due]
  BY <1>3 DEF SignalInv, DueInv, Due, Reports
<1>5. OnlyPass(w)
  BY <1>2, <1>4 DEF OnlyPass
<1>6. ~Quiet(w)'
  BY <1>4 DEF Quiet, Nothing
<1>7. DueOK(w)'
  <2>1. k \in 1..claims'[r]
    BY <1>0, <1>1, <1>a DEF RowTypes
  <2> QED
    BY <1>0, <1>2, <1>4, <2>1 DEF DueOK, ReportedOutcomes, Successes
<1>8. DueInv'
  <2>1. \A q \in Requests : claims'[q] >= claims[q]
    BY <1>1, <1>a DEF RowTypes
  <2>2. DueInv
    BY DEF SignalInv
  <2> QED
    BY <1>4, <1>5, <1>7, <2>1, <2>2, DueFrame
<1>9. \A q \in Requests : \A n \in 1..claims[q] : ~Holds(w, q, n)
  BY <1>c, <1>a DEF Holds, RowTypes
<1>10. HoldsNone(w) /\ Holds(w, r, k)'
  BY <1>0, <1>4, <1>6, <1>a DEF HoldsNone, Holds, RowTypes
<1>11. ASSUME NEW u \in Workers \ {w}, Holds(u, r, k)' PROVE FALSE
  <2>1. Holds(u, r, k)
    BY <1>2, <1>4, <1>11 DEF Holds, Quiet
  <2>2. Claim(u).request = r /\ Claim(u).claim = k
    BY <2>1, HeldIsMade DEF SignalInv
  <2>3. Claim(u).claim > 0 => Claim(u).claim \in 1..claims[Claim(u).request]
    BY HeldIsMade DEF SignalInv
  <2> QED
    BY <2>2, <2>3, <1>0, <1>a DEF RowTypes
<1>12. Claims(w, r, k)
  BY <1>0, <1>1, <1>3, <1>4, <1>5, <1>9, <1>10, <1>11, OnlyPassSame DEF Claims
<1> QED
  BY <1>8, <1>12, ClaimsLog DEF SignalInv

LEMMA DecisionIsCommittedNext ==
  ASSUME WorkInv, WorkInv', SignalInv, Grows, NEW w \in Workers, DecisionIsCommitted(w)
  PROVE  SignalInv'
<1>a. PassTypes /\ BookTypes
  BY DEF WorkInv, BaseInv, TypeOK
<1>0. PICK outcome \in Successes, with \in Requests \cup {None} :
        /\ AnswerIs(w, outcome)
        /\ Record(item[w].request, item[w].claimToken, outcome, with)
        /\ EndPassOrLoseReply(w) /\ UNCHANGED claims /\ pc[w] \in Holding
  BY <1>a DEF DecisionIsCommitted, Reject, Confirm, MoveTo, Successes, Holding, PassTypes
<1>1. Quiet(w) /\ UNCHANGED signals
  BY DEF DecisionIsCommitted
<1>2. PICK r \in Requests, n \in Nat : r = item[w].request /\ n = item[w].claimToken
  BY <1>0, <1>a DEF PassTypes, WorkItem
<1>3. Backed(r, n, outcome)'
  BY <1>0, <1>2, <1>a, RecordIsAttempted DEF Backed, AttemptOf, Successes, Outcomes
<1>4. \A u \in Workers \ {w} : pc'[u] = pc[u] /\ item'[u] = item[u]
  BY <1>0, <1>a, PassFrame DEF EndPassOrLoseReply
<1>5. CASE Goto(w, "recovering")
  <2>1. UNCHANGED due /\ item'[w] = item[w]
    BY <1>0, <1>5, <1>a DEF AnswerIs, Goto, PassTypes
  <2> QED
    BY <2>1, <1>0, <1>1, <1>4, PassKeeps
<1>6. CASE EndPass(w, "idle")
  <2>1. pc'[w] = "idle" /\ Learn(w, outcome)
    BY <1>0, <1>6, <1>a, PassFrame DEF AnswerIs
  <2>2. outcome \in Reports \ {"nothing", "processing"}
    BY <1>0 DEF Successes, Reports, ReportedOutcomes
  <2> QED
    BY <2>1, <2>2, <1>0, <1>1, <1>2, <1>3, <1>4, PassLearns
<1> QED
  BY <1>0, <1>5, <1>6 DEF EndPassOrLoseReply

LEMMA FailureIsCommittedNext ==
  ASSUME WorkInv, WorkInv', SignalInv, Grows, NEW w \in Workers, FailureIsCommitted(w)
  PROVE  SignalInv'
<1>a. PassTypes /\ BookTypes /\ RowTypes
  BY DEF WorkInv, BaseInv, TypeOK
<1>0. PICK report \in {"retryable-failure", "failed", "thrown"} :
        /\ Learn(w, report)
        /\ report = "failed" => Fail(w)
        /\ Record(item[w].request, item[w].claimToken, "unexpected-error", None)
        /\ EndPass(w, "idle") /\ UNCHANGED claims /\ pc[w] \in Holding
  BY DEF FailureIsCommitted, ReleaseForRetry, Fail, MoveTo, Holding
<1>1. Quiet(w) /\ UNCHANGED signals
  BY DEF FailureIsCommitted
<1>2. PICK r \in Requests, n \in Nat : r = item[w].request /\ n = item[w].claimToken
  BY <1>0, <1>a DEF PassTypes, WorkItem
<1>3. Attempted(r, n, "unexpected-error")'
  BY <1>0, <1>2, <1>a, RecordIsAttempted DEF Outcomes
<1>4. report = "failed" => status'[r] = "FAILED"
  BY <1>0, <1>2, <1>a DEF Fail, MoveTo, RowTypes
<1>5. report \in ReportedOutcomes => Backed(r, n, report)'
  BY <1>0, <1>3, <1>4 DEF Backed, AttemptOf, Successes
<1>6. pc'[w] = "idle" /\ \A u \in Workers \ {w} : pc'[u] = pc[u] /\ item'[u] = item[u]
  BY <1>0, <1>a, PassFrame
<1>7. report \in Reports \ {"nothing", "processing"}
  BY <1>0 DEF Reports, ReportedOutcomes
<1> QED
  BY <1>0, <1>1, <1>2, <1>5, <1>6, <1>7, PassLearns

LEMMA FailureHandlerThrowsNext ==
  ASSUME WorkInv, WorkInv', SignalInv, Grows, NEW w \in Workers, FailureHandlerThrows(w)
  PROVE  SignalInv'
<1>a. PassTypes
  BY DEF WorkInv, BaseInv, TypeOK
<1>1. /\ Quiet(w) /\ UNCHANGED <<signals, claims>> /\ Learn(w, "thrown")
      /\ EndPass(w, "idle") /\ pc[w] \in Holding
  BY DEF FailureHandlerThrows, ClaimLost, PassThrows, rowVars, Holding
<1>2. pc'[w] = "idle" /\ \A u \in Workers \ {w} : pc'[u] = pc[u] /\ item'[u] = item[u]
  BY <1>1, <1>a, PassFrame
<1>3. "thrown" \in Reports \ {"nothing", "processing"} /\ "thrown" \notin ReportedOutcomes
  BY DEF Reports, ReportedOutcomes, Successes
<1>4. PICK r, n : r = item[w].request /\ n = item[w].claimToken
  OBVIOUS
<1> QED
  BY <1>1, <1>2, <1>3, <1>4, PassLearns

LEMMA ClaimAnswerIsLostNext ==
  ASSUME WorkInv, WorkInv', SignalInv, Grows, NEW w \in Workers, ClaimAnswerIsLost(w)
  PROVE  SignalInv'
<1>a. PassTypes
  BY DEF WorkInv, BaseInv, TypeOK
<1>1. /\ due[w].report = "processing" /\ UNCHANGED <<signals, claims>> /\ Forget(w)
      /\ EndPass(w, "idle")
  BY DEF ClaimAnswerIsLost, PassThrows, rowVars
<1>2. item'[w].claimToken = 0 /\ \A u \in Workers \ {w} : pc'[u] = pc[u] /\ item'[u] = item[u]
  BY <1>1, <1>a, EndedHoldsNothing, PassFrame DEF WorkInv, NoItem
<1>3. DueInv' /\ OthersSame(w) /\ HoldsNone(w)
  BY <1>1, <1>2, PassForgets
<1>4. \A r \in Requests : \A n \in 1..claims[r] : Holds(w, r, n) => signals[r][n].span # "open"
  BY <1>1 DEF SignalInv, LogInv, AtWork, Unreported
<1>5. Drops(w)
  BY <1>1, <1>3, <1>4 DEF Drops
<1> QED
  BY <1>3, <1>5, DropsLog DEF SignalInv

\* What the updates of a signal leave of it.
LEMMA CountedUpdate ==
  ASSUME NEW x \in Signal, NEW new
  PROVE  [x EXCEPT !.claimCounted = new]
           = [claimCounted |-> new, span |-> x.span,
              outcomes |-> x.outcomes, exceptions |-> x.exceptions]
  BY DEF Signal

LEMMA SpanUpdate ==
  ASSUME NEW x \in Signal, NEW new
  PROVE  [x EXCEPT !.span = new]
           = [claimCounted |-> x.claimCounted, span |-> new,
              outcomes |-> x.outcomes, exceptions |-> x.exceptions]
  BY DEF Signal

LEMMA OutcomesUpdate ==
  ASSUME NEW x \in Signal, NEW new
  PROVE  [x EXCEPT !.outcomes = new]
           = [claimCounted |-> x.claimCounted, span |-> x.span,
              outcomes |-> new, exceptions |-> x.exceptions]
  BY DEF Signal

LEMMA ExceptionsUpdate ==
  ASSUME NEW x \in Signal, NEW new
  PROVE  [x EXCEPT !.exceptions = new]
           = [claimCounted |-> x.claimCounted, span |-> x.span,
              outcomes |-> x.outcomes, exceptions |-> new]
  BY DEF Signal

LEMMA StartUpdate ==
  ASSUME NEW x \in Signal, NEW counted \in BOOLEAN, NEW span \in Spans
  PROVE  [x EXCEPT !.claimCounted = counted, !.span = span]
           = [claimCounted |-> counted, span |-> span, outcomes |-> x.outcomes, exceptions |-> x.exceptions]
<1>1. PICK y : y = [x EXCEPT !.claimCounted = counted]
  OBVIOUS
<1>2. y = [claimCounted |-> counted, span |-> x.span, outcomes |-> x.outcomes, exceptions |-> x.exceptions]
  BY <1>1, CountedUpdate
<1>3. /\ y \in Signal /\ y.claimCounted = counted
      /\ y.outcomes = x.outcomes /\ y.exceptions = x.exceptions
  BY <1>2 DEF Signal
<1>4. [y EXCEPT !.span = span]
        = [claimCounted |-> counted, span |-> span, outcomes |-> x.outcomes, exceptions |-> x.exceptions]
  BY <1>3, SpanUpdate
<1> QED
  BY <1>1, <1>4

LEMMA EndUpdate ==
  ASSUME NEW x \in Signal, NEW outcomes \in Seq(ReportedOutcomes), NEW exceptions \in Nat,
         NEW span \in Spans
  PROVE  [x EXCEPT !.outcomes = outcomes, !.exceptions = exceptions, !.span = span]
           = [claimCounted |-> x.claimCounted, span |-> span,
              outcomes |-> outcomes, exceptions |-> exceptions]
<1>1. PICK y : y = [x EXCEPT !.outcomes = outcomes]
  OBVIOUS
<1>2. y = [claimCounted |-> x.claimCounted, span |-> x.span,
           outcomes |-> outcomes, exceptions |-> x.exceptions]
  BY <1>1, OutcomesUpdate
<1>3. y \in Signal /\ y.claimCounted = x.claimCounted /\ y.span = x.span /\ y.outcomes = outcomes
  BY <1>2 DEF Signal
<1>4. PICK z : z = [y EXCEPT !.exceptions = exceptions]
  OBVIOUS
<1>5. z = [claimCounted |-> x.claimCounted, span |-> x.span,
           outcomes |-> outcomes, exceptions |-> exceptions]
  BY <1>3, <1>4, ExceptionsUpdate
<1>6. /\ z \in Signal /\ z.claimCounted = x.claimCounted
      /\ z.outcomes = outcomes /\ z.exceptions = exceptions
  BY <1>5 DEF Signal
<1>7. [z EXCEPT !.span = span]
        = [claimCounted |-> x.claimCounted, span |-> span,
           outcomes |-> outcomes, exceptions |-> exceptions]
  BY <1>6, SpanUpdate
<1> QED
  BY <1>1, <1>4, <1>7

LEMMA FirstSignals ==
  /\ Unreported \in Signal /\ Unreported.outcomes = <<>> /\ Unreported.exceptions = 0
  /\ Opened \in Signal /\ Opened.outcomes = <<>> /\ Opened.exceptions = 0
  /\ Opened.claimCounted = TRUE
  BY DEF Unreported, Opened, Signal, Spans

\* What was reported so far of the claim a pass reports about.
LEMMA SignalSoFar ==
  ASSUME WorkInv, SignalInv, NEW w \in Workers, Claim(w).claim > 0
  PROVE  /\ Claim(w).request \in Requests
         /\ Claim(w).claim \in Nat /\ Claim(w).claim \in 1..claims[Claim(w).request]
         /\ Holds(w, Claim(w).request, Claim(w).claim)
         /\ SignalOf(w) = IF due[w].report = "processing" THEN Unreported ELSE Opened
<1>1. /\ Claim(w).request \in Requests
      /\ Claim(w).claim \in Nat /\ Claim(w).claim \in 1..claims[Claim(w).request]
      /\ Holds(w, Claim(w).request, Claim(w).claim)
  BY HeldIsMade DEF SignalInv
<1> QED
  BY <1>1 DEF SignalOf, SignalInv, LogInv, AtWork

\* The claim of a pass that has something to report.
LEMMA DueIsClaimed ==
  ASSUME WorkInv, SignalInv, NEW w \in Workers, due[w].report # "nothing"
  PROVE  /\ ~Quiet(w) /\ Claim(w).claim > 0
         /\ Claim(w).request = due[w].request /\ Claim(w).claim = due[w].claim
         /\ due[w].report # "processing" => pc[w] = "idle" /\ item[w].claimToken = 0
<1>1. ~Quiet(w)
  BY DEF Quiet, Nothing
<1> QED
  BY <1>1 DEF Claim, SignalInv, DueInv, DueOK, WorkInv, IdleHoldsNothing, Holding,
              BaseInv, TypeOK, RowTypes

LEMMA PassEnds ==
  ASSUME WorkInv, WorkInv', SignalInv, Grows, NEW w \in Workers, Forget(w),
         UNCHANGED claims, item'[w].claimToken = 0,
         \A u \in Workers \ {w} : pc'[u] = pc[u] /\ item'[u] = item[u],
         Claim(w).claim > 0, NEW r, NEW n, r = Claim(w).request, n = Claim(w).claim,
         NEW s \in Signal, Update(w, s), s.span # "open", HonestAfter(r, n, s)
  PROVE  SignalInv'
<1>1. r \in Requests /\ n \in 1..claims[r] /\ Holds(w, r, n)
  BY SignalSoFar
<1>2. DueInv' /\ OthersSame(w) /\ HoldsNone(w)
  BY PassForgets
<1>3. Ends(w, r, n, s)
  BY <1>1, <1>2 DEF Ends, Turns, Update
<1> QED
  BY <1>1, <1>2, <1>3, EndsLog DEF SignalInv

LEMMA RecordingTheClaimThrowsNext ==
  ASSUME WorkInv, WorkInv', SignalInv, Grows, NEW w \in Workers, RecordingTheClaimThrows(w)
  PROVE  SignalInv'
<1>a. PassTypes
  BY DEF WorkInv, BaseInv, TypeOK
<1>b. PICK counted \in BOOLEAN :
        Update(w, [SignalOf(w) EXCEPT !.claimCounted = counted, !.span = "error"])
  BY DEF RecordingTheClaimThrows
<1>1. /\ due[w].report = "processing" /\ UNCHANGED claims /\ Forget(w)
      /\ EndPass(w, "idle")
  BY DEF RecordingTheClaimThrows, PassThrows, rowVars
<1>2. item'[w].claimToken = 0 /\ \A u \in Workers \ {w} : pc'[u] = pc[u] /\ item'[u] = item[u]
  BY <1>1, <1>a, EndedHoldsNothing, PassFrame DEF WorkInv, NoItem
<1>3. Claim(w).claim > 0 /\ SignalOf(w) = Unreported
  BY <1>1, DueIsClaimed, SignalSoFar
<1>4. PICK s : s = [claimCounted |-> counted, span |-> "error", outcomes |-> <<>>, exceptions |-> 0]
  OBVIOUS
<1>5. Update(w, s)
  <2>1. Unreported \in Signal /\ "error" \in Spans
    BY FirstSignals DEF Spans
  <2>2. [Unreported EXCEPT !.claimCounted = counted, !.span = "error"]
          = [claimCounted |-> counted, span |-> "error",
             outcomes |-> Unreported.outcomes, exceptions |-> Unreported.exceptions]
    BY <2>1, StartUpdate, Zenon
  <2>3. s = [Unreported EXCEPT !.claimCounted = counted, !.span = "error"]
    BY <1>4, <2>2, FirstSignals, Zenon
  <2> QED
    BY <1>b, <1>3, <2>3
<1>6. /\ s \in Signal /\ s.span = "error" /\ s.outcomes = <<>> /\ s.exceptions = 0
  BY <1>4 DEF Signal, Spans
<1>7. PICK r, n : r = Claim(w).request /\ n = Claim(w).claim
  OBVIOUS
<1>8. HonestAfter(r, n, s)
  BY <1>6 DEF HonestAfter
<1> QED
  BY <1>1, <1>2, <1>3, <1>5, <1>6, <1>7, <1>8, PassEnds

LEMMA ProcessDiesNext ==
  ASSUME WorkInv, WorkInv', SignalInv, Grows, NEW w \in Workers, ProcessDies(w)
  PROVE  SignalInv'
<1>a. PassTypes
  BY DEF WorkInv, BaseInv, TypeOK
<1>1. UNCHANGED claims /\ Forget(w) /\ EndPass(w, "down")
  BY DEF ProcessDies, Crash, rowVars
<1>2. item'[w].claimToken = 0 /\ \A u \in Workers \ {w} : pc'[u] = pc[u] /\ item'[u] = item[u]
  BY <1>1, <1>a, EndedHoldsNothing, PassFrame DEF WorkInv, NoItem
<1>3. CASE Claim(w).claim > 0 /\ SignalOf(w).span = "open"
  <2>1. SignalOf(w) = Opened
    BY <1>3, SignalSoFar DEF Unreported
  <2>2. PICK s : s = [claimCounted |-> TRUE, span |-> "died", outcomes |-> <<>>, exceptions |-> 0]
    OBVIOUS
  <2>3. Update(w, s)
    <3>1. s = [Opened EXCEPT !.span = "died"]
      BY <2>2, SpanUpdate, FirstSignals
    <3> QED
      BY <1>3, <2>1, <3>1 DEF ProcessDies
  <2>4. s \in Signal /\ s.span = "died" /\ s.outcomes = <<>> /\ s.exceptions = 0
    BY <2>2 DEF Signal, Spans
  <2>5. PICK r, n : r = Claim(w).request /\ n = Claim(w).claim
    OBVIOUS
  <2>6. HonestAfter(r, n, s)
    BY <2>4 DEF HonestAfter
  <2> QED
    BY <1>1, <1>2, <1>3, <2>3, <2>4, <2>5, <2>6, PassEnds
<1>4. CASE ~(Claim(w).claim > 0 /\ SignalOf(w).span = "open")
  <2>1. UNCHANGED signals
    BY <1>4 DEF ProcessDies
  <2>2. DueInv' /\ OthersSame(w) /\ HoldsNone(w)
    BY <1>1, <1>2, PassForgets
  <2>3. ASSUME NEW r \in Requests, NEW n \in 1..claims[r], Holds(w, r, n)
        PROVE  signals[r][n].span # "open"
    <3>1. n \in Nat /\ n > 0
      BY DEF WorkInv, BaseInv, TypeOK, RowTypes
    <3>2. Claim(w).request = r /\ Claim(w).claim = n
      BY <2>3, <3>1, HeldIsMade DEF SignalInv
    <3> QED
      BY <1>4, <3>1, <3>2 DEF SignalOf
  <2>4. Drops(w)
    BY <1>1, <2>1, <2>2, <2>3 DEF Drops
  <2> QED
    BY <2>2, <2>4, DropsLog DEF SignalInv
<1> QED
  BY <1>3, <1>4

LEMMA StartProcessingNext ==
  ASSUME WorkInv, WorkInv', SignalInv, Grows, NEW w \in Workers, StartProcessing(w)
  PROVE  SignalInv'
<1>1. /\ due[w].report = "processing" /\ Forget(w)
      /\ UNCHANGED <<claims, pc, item>>
  BY DEF StartProcessing, vars, rowVars, workerVars
<1>2. SignalOf(w) = Unreported /\ ~Quiet(w)
  BY <1>1, DueIsClaimed, SignalSoFar
<1>3. PICK r \in Requests, n \in Nat :
        /\ r = Claim(w).request /\ n = Claim(w).claim /\ n \in 1..claims[r] /\ Holds(w, r, n)
        /\ r = due[w].request /\ n = due[w].claim
  BY <1>1, DueIsClaimed, SignalSoFar
<1>4. [SignalOf(w) EXCEPT !.claimCounted = TRUE, !.span = "open"] = Opened /\ Opened \in Signal
  <2>1. Unreported \in Signal /\ "open" \in Spans /\ TRUE \in BOOLEAN
    BY FirstSignals DEF Spans
  <2>2. [Unreported EXCEPT !.claimCounted = TRUE, !.span = "open"]
          = [claimCounted |-> TRUE, span |-> "open",
             outcomes |-> Unreported.outcomes, exceptions |-> Unreported.exceptions]
    BY <2>1, StartUpdate, Zenon
  <2>3. [Unreported EXCEPT !.claimCounted = TRUE, !.span = "open"] = Opened
    BY <2>2, FirstSignals DEF Opened
  <2>4. Opened \in Signal
    BY FirstSignals
  <2> QED
    BY <1>2, <2>3, <2>4
<1>5. signals' = [signals EXCEPT ![r][n] = Opened]
  BY <1>3, <1>4 DEF StartProcessing, Update
<1>6. /\ due'[w] = Nothing /\ \A u \in Workers \ {w} : due'[u] = due[u]
      /\ due' \in [Workers -> Due]
  BY <1>1 DEF Forget, SignalInv, DueInv, Due, Nothing, Reports, None
<1>7. OnlyPass(w) /\ DueOK(w)'
  BY <1>1, <1>6 DEF OnlyPass, DueOK, Quiet
<1>8. DueInv'
  BY <1>1, <1>6, <1>7, DueFrame DEF SignalInv, DueInv, WorkInv, BaseInv, TypeOK, RowTypes
<1>9. HoldsSame(w)
  <2>1. item[w].request = due[w].request /\ item[w].claimToken = due[w].claim
    BY <1>1, <1>2 DEF SignalInv, DueInv, DueOK
  <2> QED
    BY <1>1, <1>2, <1>6, <2>1 DEF HoldsSame, Holds, Quiet
<1>10. Starts(w, r, n)
  BY <1>1, <1>3, <1>4, <1>5, <1>6, <1>7, <1>9, OnlyPassSame DEF Starts, Turns, Nothing
<1> QED
  BY <1>1, <1>3, <1>8, <1>10, StartsLog DEF SignalInv

\* A pass that is over reports and has nothing more to report.
LEMMA ReportEnds ==
  ASSUME WorkInv, WorkInv', SignalInv, Grows, NEW w \in Workers, Forget(w),
         due[w].report \notin {"nothing", "processing"},
         UNCHANGED <<claims, pc, item>>,
         NEW r, NEW n, r = Claim(w).request, n = Claim(w).claim,
         NEW s \in Signal, Update(w, s), s.span # "open", HonestAfter(r, n, s)
  PROVE  SignalInv'
<1>1. Claim(w).claim > 0 /\ item[w].claimToken = 0
  BY DueIsClaimed
<1> QED
  BY <1>1, PassEnds

\* An outcome that was learnt is in the history, and no unexpected error is if
\* the outcome is a decision: a claim has one attempt.
LEMMA LearntOutcome ==
  ASSUME WorkInv, SignalInv, NEW w \in Workers, due[w].report \in ReportedOutcomes
  PROVE  \E r \in Requests, n \in Nat, o \in ReportedOutcomes :
           /\ r = Claim(w).request /\ n = Claim(w).claim /\ o = due[w].report
           /\ SignalOf(w) = Opened
           /\ Backed(r, n, o)
           /\ o \in Successes => ~Attempted(r, n, "unexpected-error")
<1>1. due[w].report \notin {"nothing", "processing"}
  BY DEF ReportedOutcomes, Successes
<1>2. PICK r \in Requests, n \in Nat, o \in ReportedOutcomes :
        /\ r = Claim(w).request /\ n = Claim(w).claim /\ o = due[w].report
        /\ r = due[w].request /\ n = due[w].claim /\ ~Quiet(w) /\ SignalOf(w) = Opened
  BY <1>1, DueIsClaimed, SignalSoFar
<1>3. Backed(r, n, o)
  BY <1>2 DEF SignalInv, DueInv, DueOK
<1>4. ASSUME o \in Successes, Attempted(r, n, "unexpected-error") PROVE FALSE
  <2>1. PICK i \in DOMAIN attempts[r] :
          attempts[r][i].claim = n /\ attempts[r][i].outcome = "unexpected-error"
    BY <1>4 DEF Attempted
  <2>2. PICK j \in DOMAIN attempts[r] : attempts[r][j].claim = n /\ attempts[r][j].outcome = o
    BY <1>3, <1>4 DEF Backed, AttemptOf, Attempted
  <2>3. attempts[r] \in Seq(Attempt)
    BY DEF WorkInv, BaseInv, TypeOK, BookTypes
  <2>4. DOMAIN attempts[r] = 1..Len(attempts[r])
    BY <2>3, LenProperties
  <2>5. i # j
    BY <1>4, <2>1, <2>2 DEF Successes
  <2> QED
    BY <2>1, <2>2, <2>4, <2>5 DEF WorkInv, HistoryInv, OneAttemptPerClaim
<1> QED
  BY <1>2, <1>3, <1>4

LEMMA ReportOutcomeNext ==
  ASSUME WorkInv, WorkInv', SignalInv, Grows, NEW w \in Workers, ReportOutcome(w)
  PROVE  SignalInv'
<1>1. /\ due[w].report \in ReportedOutcomes /\ Forget(w) /\ UNCHANGED vars
      /\ UNCHANGED <<claims, pc, item, attempts, status>>
  BY DEF ReportOutcome, vars, rowVars, bookVars, workerVars
<1>2. PICK r \in Requests, n \in Nat, o \in ReportedOutcomes :
        /\ r = Claim(w).request /\ n = Claim(w).claim /\ o = due[w].report
        /\ SignalOf(w) = Opened
        /\ Backed(r, n, o)
        /\ o \in Successes => ~Attempted(r, n, "unexpected-error")
  BY <1>1, LearntOutcome
<1>3. PICK exceptions \in Nat, span \in Spans :
        /\ exceptions = IF o \in Successes THEN 0 ELSE 1
        /\ span = IF o \in Successes THEN "ok" ELSE "error"
  BY DEF Spans
<1>4. PICK s : s = [claimCounted |-> TRUE, span |-> span, outcomes |-> <<o>>, exceptions |-> exceptions]
  OBVIOUS
<1>5. Update(w, s)
  <2>1. [Opened EXCEPT !.outcomes = <<o>>, !.exceptions = exceptions, !.span = span] = s
    <3>1. Opened \in Signal
      BY FirstSignals
    <3>2. <<o>> \in Seq(ReportedOutcomes) /\ span \in Spans
      BY <1>2, <1>3 DEF Spans
    <3>3. [Opened EXCEPT !.outcomes = <<o>>, !.exceptions = exceptions, !.span = span]
            = [claimCounted |-> Opened.claimCounted, span |-> span,
               outcomes |-> <<o>>, exceptions |-> exceptions]
      BY <3>1, <3>2, EndUpdate, Zenon
    <3> QED
      BY <1>4, <3>3, FirstSignals
  <2>2. /\ Append(Opened.outcomes, o) = <<o>>
        /\ (IF o \in Successes THEN Opened.exceptions ELSE Opened.exceptions + 1) = exceptions
        /\ (IF EndsWithError(o) THEN "error" ELSE "ok") = span
    BY <1>2, <1>3, FirstSignals DEF EndsWithError
  <2>3. [Opened EXCEPT !.outcomes = Append(@, o),
                       !.exceptions = IF o \in Successes THEN @ ELSE @ + 1,
                       !.span = IF EndsWithError(o) THEN "error" ELSE "ok"] = s
    BY <2>1, <2>2
  <2>4. Update(w, [SignalOf(w) EXCEPT !.outcomes = Append(@, o),
                                      !.exceptions = IF o \in Successes THEN @ ELSE @ + 1,
                                      !.span = IF EndsWithError(o) THEN "error" ELSE "ok"])
    BY <1>2 DEF ReportOutcome
  <2> QED
    BY <1>2, <2>3, <2>4
<1>6. s \in Signal /\ s.span = span /\ s.outcomes = <<o>> /\ s.exceptions = exceptions
  BY <1>2, <1>3, <1>4 DEF Signal, Spans
<1>7. Backed(r, n, o)' /\ (Attempted(r, n, "unexpected-error")' <=> Attempted(r, n, "unexpected-error"))
  BY <1>1, <1>2 DEF Backed, Attempted
<1>8. HonestAfter(r, n, s)
  BY <1>2, <1>3, <1>6, <1>7 DEF HonestAfter, Backed, AttemptOf
<1>9. due[w].report \notin {"nothing", "processing"} /\ s.span # "open"
  BY <1>1, <1>3, <1>6 DEF ReportedOutcomes, Successes
<1> QED
  BY <1>1, <1>2, <1>5, <1>6, <1>8, <1>9, ReportEnds

LEMMA ReportThrownNext ==
  ASSUME WorkInv, WorkInv', SignalInv, Grows, NEW w \in Workers, ReportThrown(w)
  PROVE  SignalInv'
<1>1. due[w].report = "thrown" /\ Forget(w) /\ UNCHANGED <<claims, pc, item>>
  BY DEF ReportThrown, vars, rowVars, workerVars
<1>2. SignalOf(w) = Opened
  BY <1>1, DueIsClaimed, SignalSoFar
<1>3. PICK s : s = [claimCounted |-> TRUE, span |-> "error", outcomes |-> <<>>, exceptions |-> 0]
  OBVIOUS
<1>4. Update(w, s)
  <2>1. [Opened EXCEPT !.span = "error"] = s
    BY <1>3, SpanUpdate, FirstSignals
  <2> QED
    BY <1>2, <2>1 DEF ReportThrown, EndedWithError
<1>5. s \in Signal /\ s.span = "error" /\ s.outcomes = <<>> /\ s.exceptions = 0
  BY <1>3 DEF Signal, Spans
<1>6. PICK r, n : r = Claim(w).request /\ n = Claim(w).claim
  OBVIOUS
<1>7. HonestAfter(r, n, s)
  BY <1>5 DEF HonestAfter
<1> QED
  BY <1>1, <1>4, <1>5, <1>6, <1>7, ReportEnds

LEMMA ReportingThrowsNext ==
  ASSUME WorkInv, WorkInv', SignalInv, Grows, NEW w \in Workers, ReportingThrows(w)
  PROVE  SignalInv'
<1>1. /\ due[w].report \in ReportedOutcomes /\ Forget(w)
      /\ UNCHANGED <<claims, pc, item, attempts, status>>
  BY DEF ReportingThrows, WorkStays, vars, rowVars, bookVars, workerVars
<1>2. PICK r \in Requests, n \in Nat, o \in ReportedOutcomes :
        /\ r = Claim(w).request /\ n = Claim(w).claim /\ o = due[w].report
        /\ SignalOf(w) = Opened
        /\ Backed(r, n, o)
  BY <1>1, LearntOutcome
<1>3. PICK counted \in Seq(ReportedOutcomes), exceptions \in Nat :
        /\ counted \in {<<>>, <<o>>}
        /\ Update(w, [SignalOf(w) EXCEPT !.outcomes = @ \o counted,
                                         !.exceptions = @ + exceptions,
                                         !.span = "error"])
  <2>1. PICK counted \in {<<>>, <<o>>}, exceptions \in {0, 1} :
          Update(w, [SignalOf(w) EXCEPT !.outcomes = @ \o counted,
                                        !.exceptions = @ + exceptions,
                                        !.span = "error"])
    BY <1>2 DEF ReportingThrows
  <2>2. <<>> \in Seq(ReportedOutcomes) /\ <<o>> \in Seq(ReportedOutcomes)
    BY <1>2
  <2>3. exceptions \in Nat
    BY <2>1
  <2> QED
    BY <2>1, <2>2, <2>3, Zenon
<1>4. PICK s : s = [claimCounted |-> TRUE, span |-> "error", outcomes |-> counted,
                    exceptions |-> exceptions]
  OBVIOUS
<1>5. Update(w, s)
  <2>1. [Opened EXCEPT !.outcomes = counted, !.exceptions = exceptions, !.span = "error"] = s
    <3>1. Opened \in Signal /\ "error" \in Spans
      BY FirstSignals DEF Spans
    <3>2. [Opened EXCEPT !.outcomes = counted, !.exceptions = exceptions, !.span = "error"]
            = [claimCounted |-> Opened.claimCounted, span |-> "error",
               outcomes |-> counted, exceptions |-> exceptions]
      BY <3>1, EndUpdate, Zenon
    <3> QED
      BY <1>4, <3>2, FirstSignals
  <2>2. Opened.outcomes \o counted = counted /\ Opened.exceptions + exceptions = exceptions
    BY <1>3, FirstSignals
  <2>3. [Opened EXCEPT !.outcomes = @ \o counted, !.exceptions = @ + exceptions, !.span = "error"] = s
    BY <2>1, <2>2
  <2> QED
    BY <1>2, <1>3, <2>3
<1>6. s \in Signal /\ s.span = "error" /\ s.outcomes = counted
  BY <1>3, <1>4 DEF Signal, Spans
<1>7. Backed(r, n, o)'
  BY <1>1, <1>2 DEF Backed, Attempted
<1>8. HonestAfter(r, n, s)
  BY <1>2, <1>3, <1>6, <1>7 DEF HonestAfter
<1>9. due[w].report \notin {"nothing", "processing"}
  BY <1>1 DEF ReportedOutcomes, Successes
<1> QED
  BY <1>1, <1>2, <1>5, <1>6, <1>8, <1>9, ReportEnds

-----------------------------------------------------------------------------
(* The theorems. *)

LEMMA SignalInvNext ==
  WorkInv /\ WorkInv' /\ SignalInv /\ [SignalNext]_allVars => SignalInv'
<1> SUFFICES ASSUME WorkInv, WorkInv', SignalInv, [SignalNext]_allVars PROVE SignalInv'
  OBVIOUS
<1>1. Grows
  BY SignalNextIsWork, WorkGrows
<1>2. ASSUME NEW w \in Workers, PassStep(w) PROVE SignalInv'
  BY <1>1, <1>2, PollStartsNext, ClaimAnswersNullNext, ClaimIsCommittedNext, PassGoesOnNext,
     DecisionIsCommittedNext, FailureIsCommittedNext, FailureHandlerThrowsNext,
     ClaimAnswerIsLostNext, RecordingTheClaimThrowsNext, ProcessDiesNext
  DEF PassStep
<1>3. ASSUME NEW w \in Workers, Report(w) PROVE SignalInv'
  BY <1>1, <1>3, StartProcessingNext, ReportOutcomeNext, ReportThrownNext, ReportingThrowsNext
  DEF Report
<1>4. ASSUME Elsewhere \/ UNCHANGED allVars PROVE SignalInv'
  BY <1>1, <1>4, ElsewhereNext
<1> QED
  BY <1>2, <1>3, <1>4 DEF SignalNext

LEMMA WorkInvariant == Spec => []WorkInv
<1>1. Init => IdleHoldsNothing
  BY IdleInit
<1>2. BaseInv /\ IdleHoldsNothing /\ [Next]_vars => IdleHoldsNothing'
  BY IdleNext
<1> QED
  BY <1>1, <1>2, HistoryInvariant, PTL DEF Spec, WorkInv

LEMMA SignalInvariant == SignalSpec => [](WorkInv /\ SignalInv)
<1>1. SignalInit => SignalInv
  BY SignalInvInit
<1>2. WorkInv /\ WorkInv' /\ SignalInv /\ [SignalNext]_allVars => SignalInv'
  BY SignalInvNext
<1>3. SignalSpec => []WorkInv
  BY SignalsRefineWork, WorkInvariant, PTL
<1> QED
  BY <1>1, <1>2, <1>3, PTL DEF SignalSpec

LEMMA LoggedClaims ==
  ASSUME WorkInv, SignalInv, NEW r \in Requests
  PROVE  DOMAIN signals[r] = 1..claims[r]
  BY LenProperties DEF SignalInv, LogInv, LogTypes

\* There is one report for each claim, and a pass reports about claims made.
THEOREM SignalsAreTyped == SignalSpec => []SignalTypeOK
<1>1. WorkInv /\ SignalInv => SignalTypeOK
  BY DEF SignalInv, DueInv, DueOK, Due, LogInv, LogTypes, SignalTypeOK
<1> QED
  BY <1>1, SignalInvariant, PTL

\* Every outcome that is counted is in the history of the request, under the
\* claim it is counted for, and none is counted twice.
THEOREM SamplesComeFromHistory == SignalSpec => []SamplesAreBacked
<1>1. ASSUME WorkInv, SignalInv, NEW r \in Requests, NEW n \in DOMAIN signals[r]
      PROVE  LET outcomes == signals[r][n].outcomes IN
               /\ Len(outcomes) <= 1
               /\ Len(outcomes) = 1 => /\ Attempted(r, n, AttemptOf(outcomes[1]))
                                       /\ outcomes[1] = "failed" => status[r] = "FAILED"
  <2>1. Honest(r, n, signals[r][n])
    BY <1>1, LoggedClaims DEF SignalInv, LogInv, HonestLog
  <2>2. CASE signals[r][n].outcomes = <<>>
    BY <2>2
  <2>3. ASSUME NEW o \in ReportedOutcomes, signals[r][n].outcomes = <<o>>, Backed(r, n, o)
        PROVE  LET outcomes == signals[r][n].outcomes IN
                 /\ Len(outcomes) <= 1
                 /\ Len(outcomes) = 1 => /\ Attempted(r, n, AttemptOf(outcomes[1]))
                                         /\ outcomes[1] = "failed" => status[r] = "FAILED"
    BY <2>3 DEF Backed
  <2> QED
    BY <2>1, <2>2, <2>3 DEF Honest
<1>2. WorkInv /\ SignalInv => SamplesAreBacked
  BY <1>1 DEF SamplesAreBacked
<1> QED
  BY <1>2, SignalInvariant, PTL

\* A span that ended OK is that of a claim that decided its request.
THEOREM SpansAreTrue == SignalSpec => []SpansTellTheTruth
<1>1. WorkInv /\ SignalInv => SpansTellTheTruth
  BY LoggedClaims DEF SignalInv, LogInv, HonestLog, Honest, SpansTellTheTruth
<1> QED
  BY <1>1, SignalInvariant, PTL

\* Whatever path a pass takes, no span stays open without a pass at work.
THEOREM SpansAreClosed == SignalSpec => []NoSpanLeftOpen
<1>1. ASSUME WorkInv, SignalInv, NEW r \in Requests, NEW n \in DOMAIN signals[r]
      PROVE  /\ signals[r][n].span = "open" <=>
                  \E w \in Workers : /\ Claim(w) = [request |-> r, claim |-> n]
                                     /\ due[w].report # "processing"
             /\ signals[r][n].span = "open" => signals[r][n].claimCounted
  <2>1. n \in 1..claims[r] /\ n \in Nat
    BY <1>1, LoggedClaims DEF WorkInv, BaseInv, TypeOK, RowTypes
  <2>2. \A w \in Workers : Holds(w, r, n) <=> Claim(w) = [request |-> r, claim |-> n]
    <3>1. \A w \in Workers : Claim(w) = [request |-> Claim(w).request, claim |-> Claim(w).claim]
      BY DEF Claim
    <3> QED
      BY <1>1, <2>1, <3>1, HeldIsMade DEF SignalInv
  <2>3. \A w \in Workers : Holds(w, r, n) /\ due[w].report # "processing" => signals[r][n] = Opened
    BY <1>1, <2>1 DEF SignalInv, LogInv, AtWork
  <2>4. Opened.span = "open" /\ Opened.claimCounted
    BY DEF Opened
  <2>5. signals[r][n].span = "open" =>
          \E w \in Workers : Holds(w, r, n) /\ due[w].report # "processing"
    BY <1>1, <2>1 DEF SignalInv, LogInv, OpenIsHeld
  <2> QED
    BY <2>2, <2>3, <2>4, <2>5
<1>2. WorkInv /\ SignalInv => NoSpanLeftOpen
  BY <1>1 DEF NoSpanLeftOpen
<1> QED
  BY <1>2, SignalInvariant, PTL

\* Samples, spans and history agree for every claim.
THEOREM SignalsAreTruthful == SignalSpec => []SignalsTellTheTruth
BY SamplesComeFromHistory, SpansAreTrue, SpansAreClosed, PTL DEF SignalsTellTheTruth
=============================================================================
