--------------------------- MODULE ProcessorSignals ---------------------------
(***************************************************************************)
(* What the reservation request processor reports about its passes: the    *)
(* claim counter, the consumer span, the outcome sample and log event, and *)
(* the exception counter.  The work itself is ReservationWork, whose steps *)
(* are extended with what the pass reports.                                *)
(*                                                                         *)
(* A call of the repository answers after its transaction is committed,    *)
(* and other processes go on meanwhile: what a pass has learnt and not yet *)
(* reported is due[w].  Reporting it is one step, nothing is awaited in    *)
(* it.  signals[r][n] is what was reported under the n-th claim of r.      *)
(***************************************************************************)
EXTENDS ReservationWork

VARIABLES
  signals,    \* what was reported of each claim of a request
  due         \* what the pass of a worker has to report next, of which claim

signalVars == <<signals, due>>
allVars == <<vars, signalVars>>

Successes == {"confirmed", "rejected"}
ReportedOutcomes == Successes \cup {"retryable-failure", "failed"}

\* "processing" starts the span, an outcome ends the pass, "thrown" is an
\* exception that leaves the processor.
Reports == {"nothing", "processing", "thrown"} \cup ReportedOutcomes
Nothing == [report |-> "nothing", request |-> None, claim |-> 0]

\* A span that is not started yet, is open, or how it was ended; the span of a
\* process that dies is never exported.
Spans == {"none", "open", "ok", "error", "died"}
Signal == [claimCounted : BOOLEAN, span : Spans, outcomes : Seq(ReportedOutcomes),
           exceptions : Nat]
Unreported == [claimCounted |-> FALSE, span |-> "none", outcomes |-> <<>>, exceptions |-> 0]

SignalInit ==
  /\ Init
  /\ signals = [r \in Requests |-> <<>>]
  /\ due = [w \in Workers |-> Nothing]

-----------------------------------------------------------------------------
Quiet(w) == due[w] = Nothing

\* The claim a pass is about: it has reported, or is yet to report, under it.
Claim(w) ==
  IF Quiet(w) THEN [request |-> item[w].request, claim |-> item[w].claimToken]
  ELSE [request |-> due[w].request, claim |-> due[w].claim]

Learn(w, report) ==
  due' = [due EXCEPT ![w] = [report |-> report, request |-> item[w].request,
                             claim |-> item[w].claimToken]]

Forget(w) == due' = [due EXCEPT ![w] = Nothing]

Update(w, signal) ==
  signals' = [signals EXCEPT ![Claim(w).request][Claim(w).claim] = signal]
SignalOf(w) == signals[Claim(w).request][Claim(w).claim]

-----------------------------------------------------------------------------
(* The steps of the work. *)

PollStarts(w) ==
  /\ Quiet(w)
  /\ Poll(w)
  /\ UNCHANGED signalVars

\* The claim call answers null: nothing qualified, or the row it selected has
\* failed.
ClaimAnswersNull(w) ==
  /\ FindNothing(w) \/ FailExpiredClaim(w)
  /\ UNCHANGED signalVars

ClaimIsCommitted(w) ==
  /\ CommitClaim(w)
  /\ LET r == item[w].request IN
       /\ signals' = [signals EXCEPT ![r] = Append(@, Unreported)]
       /\ due' = [due EXCEPT ![w] = [report |-> "processing", request |-> r,
                                     claim |-> FreshToken(r)]]

\* Steps of the pass that report nothing.
PassGoesOn(w) ==
  /\ Quiet(w)
  /\ \/ Select(w)
     \/ FindConflict(w)
     \/ FindNoConflict(w)
     \/ ConfirmFindsSeatTaken(w)
     \/ LookUpWinner(w)
     \/ CallThrows(w)
     \/ Restart(w)
     \/ pc[w] \in {"polling", "selected"} /\ PassThrows(w)
     \/ pc[w] # "recovering" /\ ClaimLost(w)
  /\ UNCHANGED signalVars

\* An answer that is lost goes to the failure handler.
AnswerIs(w, outcome) ==
  IF pc'[w] = "recovering" THEN UNCHANGED due ELSE Learn(w, outcome)

DecisionIsCommitted(w) ==
  /\ Quiet(w)
  /\ \/ Reject(w) /\ AnswerIs(w, "rejected")
     \/ Confirm(w) /\ AnswerIs(w, "confirmed")
  /\ UNCHANGED signals

\* The outcome of a handled failure, or nothing but an exception when the
\* answer to the release is lost.
FailureIsCommitted(w) ==
  /\ Quiet(w)
  /\ \/ ReleaseForRetry(w) /\ (Learn(w, "retryable-failure") \/ Learn(w, "thrown"))
     \/ Fail(w) /\ (Learn(w, "failed") \/ Learn(w, "thrown"))
  /\ UNCHANGED signals

\* The failure handler throws: the original error is not reported.
FailureHandlerThrows(w) ==
  /\ Quiet(w)
  /\ pc[w] = "recovering"
  /\ ClaimLost(w) \/ PassThrows(w)
  /\ Learn(w, "thrown")
  /\ UNCHANGED signals

\* The answer to the claim is lost: nobody processes the request.
ClaimAnswerIsLost(w) ==
  /\ due[w].report = "processing"
  /\ PassThrows(w)
  /\ Forget(w)
  /\ UNCHANGED signals

\* Recording the claim throws, before or after it was counted.
RecordingTheClaimThrows(w) ==
  /\ due[w].report = "processing"
  /\ PassThrows(w)
  /\ \E counted \in BOOLEAN :
       Update(w, [SignalOf(w) EXCEPT !.claimCounted = counted, !.span = "error"])
  /\ Forget(w)

ProcessDies(w) ==
  /\ Crash(w)
  /\ IF Claim(w).claim > 0 /\ SignalOf(w).span = "open"
       THEN Update(w, [SignalOf(w) EXCEPT !.span = "died"])
       ELSE UNCHANGED signals
  /\ Forget(w)

-----------------------------------------------------------------------------
(* The reports. *)

StartProcessing(w) ==
  /\ due[w].report = "processing"
  /\ Update(w, [SignalOf(w) EXCEPT !.claimCounted = TRUE, !.span = "open"])
  /\ Forget(w)
  /\ UNCHANGED vars

\* Mutant: a failure that will be retried is not an error.
EndsWithFinalError(outcome) == outcome = "failed"

EndsWithError(outcome) == outcome \notin Successes

ReportOutcome(w) ==
  /\ due[w].report \in ReportedOutcomes
  /\ LET outcome == due[w].report IN
       Update(w, [SignalOf(w) EXCEPT
                    !.outcomes = Append(@, outcome),
                    !.exceptions = IF outcome \in Successes THEN @ ELSE @ + 1,
                    !.span = IF EndsWithError(outcome) THEN "error" ELSE "ok"])
  /\ Forget(w)
  /\ UNCHANGED vars

\* Mutant: the span is ended only when the operation returns.
LeftAsItIs(span) == span

EndedWithError(span) == "error"

ReportThrown(w) ==
  /\ due[w].report = "thrown"
  /\ Update(w, [SignalOf(w) EXCEPT !.span = EndedWithError(@)])
  /\ Forget(w)
  /\ UNCHANGED vars

\* terminalStatePersisted: the exception is recorded and rethrown.
WorkStays(w) == UNCHANGED vars

\* The observability throws, before or after it has counted the outcome and the
\* exception: of a failure the exception comes first, of a decision it is the
\* one that recording the outcome has thrown.
ReportingThrows(w) ==
  /\ due[w].report \in ReportedOutcomes
  /\ \E counted \in {<<>>, <<due[w].report>>}, exceptions \in {0, 1} :
       /\ due[w].report \notin Successes /\ counted # <<>> => exceptions = 1
       /\ Update(w, [SignalOf(w) EXCEPT !.outcomes = @ \o counted,
                                        !.exceptions = @ + exceptions,
                                        !.span = "error"])
  /\ Forget(w)
  /\ WorkStays(w)

-----------------------------------------------------------------------------
Report(w) ==
  \/ StartProcessing(w)
  \/ ReportOutcome(w)
  \/ ReportThrown(w)
  \/ ReportingThrows(w)

PassStep(w) ==
  \/ PollStarts(w)
  \/ ClaimAnswersNull(w)
  \/ ClaimIsCommitted(w)
  \/ PassGoesOn(w)
  \/ DecisionIsCommitted(w)
  \/ FailureIsCommitted(w)
  \/ FailureHandlerThrows(w)
  \/ ClaimAnswerIsLost(w)
  \/ RecordingTheClaimThrows(w)
  \/ ProcessDies(w)

Elsewhere ==
  /\ \/ \E r \in Requests, wanted \in SUBSET Seats : Submit(r, wanted)
     \/ HeartbeatStep
     \/ Tick
  /\ UNCHANGED signalVars

SignalNext ==
  \/ \E w \in Workers : PassStep(w) \/ Report(w)
  \/ Elsewhere

SignalSpec == SignalInit /\ [][SignalNext]_allVars

\* Workers poll for ever, the database answers every call in the end, a pass goes
\* on with its report unless its process dies, and time passes.  Processes may
\* crash and calls may throw without end, but not so that every poll, from some
\* point on, dies before its claim: SF.
FairSignalSpec ==
  /\ SignalSpec
  /\ \A w \in Workers :
       /\ WF_allVars(Report(w))
       /\ WF_allVars(PassStep(w) /\ WorkerStep(w))
       /\ SF_allVars(PollStarts(w))
       /\ SF_allVars(PassStep(w) /\ Select(w))
       /\ SF_allVars(PassStep(w) /\ ClaimStep(w))
  /\ WF_allVars(Elsewhere /\ \E b \in beats : ExecuteBeat(b))
  /\ WF_allVars(Elsewhere /\ Tick)

-----------------------------------------------------------------------------
\* Every variable has its type, there is one report for each claim, and what a
\* pass has to report is about a claim that was made.
SignalTypeOK ==
  /\ signals \in [Requests -> Seq(Signal)]
  /\ due \in [Workers -> [report : Reports, request : Requests \cup {None}, claim : Nat]]
  /\ \A r \in Requests : Len(signals[r]) = claims[r]
  /\ \A w \in Workers :
       ~Quiet(w) => due[w].request \in Requests /\ due[w].claim \in 1..claims[due[w].request]

AttemptOf(outcome) == IF outcome \in Successes THEN outcome ELSE "unexpected-error"

Attempted(r, n, outcome) ==
  \E i \in DOMAIN attempts[r] : attempts[r][i].claim = n /\ attempts[r][i].outcome = outcome

\* An outcome is counted at most once for a claim, and only when the attempt it
\* stands for is in the history under that claim, however answers are lost and
\* claims are taken over meanwhile; "failed" is only counted for requests that
\* have FAILED.
SamplesAreBacked ==
  \A r \in Requests : \A n \in DOMAIN signals[r] :
    LET outcomes == signals[r][n].outcomes IN
      /\ Len(outcomes) <= 1
      /\ Len(outcomes) = 1 => /\ Attempted(r, n, AttemptOf(outcomes[1]))
                              /\ outcomes[1] = "failed" => status[r] = "FAILED"

\* A span that ended OK is that of a claim that decided its request, and was
\* counted so; a claim whose attempt was an unexpected error, or that ended in
\* an exception, never has one.
SpansTellTheTruth ==
  \A r \in Requests : \A n \in DOMAIN signals[r] :
    LET signal == signals[r][n] IN
      /\ signal.span = "ok" =>
           /\ signal.exceptions = 0
           /\ \E outcome \in Successes :
                signal.outcomes = <<outcome>> /\ Attempted(r, n, outcome)
      /\ Attempted(r, n, "unexpected-error") => signal.span # "ok"
      /\ signal.span \in {"none", "open", "died"} =>
           signal.outcomes = <<>> /\ signal.exceptions = 0

\* A span is open exactly while a pass of a live process is at work on its
\* claim, and has then been counted: no path of a pass leaves one behind.
NoSpanLeftOpen ==
  \A r \in Requests : \A n \in DOMAIN signals[r] :
    /\ signals[r][n].span = "open" <=>
         \E w \in Workers : /\ Claim(w) = [request |-> r, claim |-> n]
                            /\ due[w].report # "processing"
    /\ signals[r][n].span = "open" => signals[r][n].claimCounted

\* What operators see of a claim agrees with what was persisted, and no span is
\* lost, although the observability may throw after the decision and the failure
\* handling before it.
SignalsTellTheTruth == SamplesAreBacked /\ SpansTellTheTruth /\ NoSpanLeftOpen

\* Reporting never changes the work, also when it throws after a decision was
\* persisted: what the processor does is what ReservationWork says.
ReportingLeavesWorkAlone == Spec

SpanOpen(r, n) == n \in DOMAIN signals[r] /\ signals[r][n].span = "open"

\* Every span is ended, or its process has died.
EverySpanEnds ==
  \A r \in Requests, n \in 1..(MaxLeaseTimeouts + MaxTransientFailures) :
    SpanOpen(r, n) ~> ~SpanOpen(r, n)
=============================================================================
