----------------------------- MODULE FakeWorker -----------------------------
(***************************************************************************)
(* FakeReservationRequestWorkerService: the timers of one service process  *)
(* that drive the reservation processor.  A poll timer starts a processing *)
(* pass, an interval heartbeats the claim meanwhile, and the next poll is  *)
(* scheduled when the pass has ended.  onApplicationShutdown stops all of  *)
(* it.                                                                     *)
(*                                                                         *)
(* JavaScript runs one callback at a time, so a callback is an action; the *)
(* hazard is what two callbacks share: the field heartbeatTimer belongs to *)
(* the service while the claimed work item is a variable of one pass, and  *)
(* the answer to a heartbeat may come back after its pass has ended.       *)
(*                                                                         *)
(* A pass is named by the claim token it draws (randomUUID).  Tokens are   *)
(* reused once nothing of an earlier pass is left.  What the processor and *)
(* the work repository do is ReservationWork's subject: here a pass gets a *)
(* claim or not, the claim may end at any time, and the pass ends.         *)
(***************************************************************************)
EXTENDS Naturals, FiniteSets

CONSTANTS
  Tokens,    \* claim tokens, that is, names of passes
  MaxBeats,  \* bound: heartbeat calls in flight
  None

ASSUME NoneAssumption == None \notin Tokens
ASSUME MaxBeatsAssumption == MaxBeats \in Nat

VARIABLES
  pollTimer,       \* is a poll scheduled?
  heartbeatTimer,  \* handle of the interval the service knows about
  intervals,       \* intervals that fire, each named by the pass that set it
  passes,          \* passes whose processOneWorkItem has not ended
  inFlight,        \* the pass the service knows to be in flight
  claimed,         \* passes whose claimedWorkItem variable is set
  owned,           \* claims the repository still attributes to their token
  beats,           \* heartbeat calls in flight and their answer, if there is one
  stopping,        \* onApplicationShutdown was called
  stopped,         \* onApplicationShutdown has resolved
  crashed          \* an unhandled rejection has ended the process

vars == <<pollTimer, heartbeatTimer, intervals, passes, inFlight, claimed, owned,
          beats, stopping, stopped, crashed>>

Beat == [pass : Tokens, answer : {"none", "renewed", "lost"}]

Init ==
  /\ pollTimer = TRUE
  /\ heartbeatTimer = None
  /\ intervals = {}
  /\ passes = {}
  /\ inFlight = None
  /\ claimed = {}
  /\ owned = {}
  /\ beats = {}
  /\ stopping = FALSE
  /\ stopped = FALSE
  /\ crashed = FALSE

\* clearInterval on the handle the service knows, if it knows one.
ClearHeartbeatTimer ==
  /\ intervals' = intervals \ {heartbeatTimer}
  /\ heartbeatTimer' = None

\* The finally block of processOneWorkItem.
EndHeartbeats == ClearHeartbeatTimer

\* Mutant: the next poll is not scheduled.
NeverSchedule == UNCHANGED pollTimer

ScheduleNextPoll == pollTimer' = (pollTimer \/ ~stopping)

\* Mutant: the finally callback does not reset inFlight.
RememberPass == UNCHANGED inFlight

ForgetPass == inFlight' = None

InUse(t) == t \in passes \cup intervals \/ \E b \in beats : b.pass = t

\* The poll timer fires and a pass starts with an interval of its own.
StartPass(t) ==
  /\ pollTimer
  /\ ~InUse(t)
  /\ pollTimer' = FALSE
  /\ passes' = passes \cup {t}
  /\ inFlight' = t
  /\ intervals' = intervals \cup {t}
  /\ heartbeatTimer' = t
  /\ claimed' = claimed \ {t}
  /\ owned' = owned \ {t}
  /\ UNCHANGED <<beats, stopping, stopped, crashed>>

\* The claim has committed and onClaimed sets claimedWorkItem.
OnClaimed(t) ==
  /\ t \in passes \ claimed
  /\ claimed' = claimed \cup {t}
  /\ owned' = owned \cup {t}
  /\ UNCHANGED <<pollTimer, heartbeatTimer, intervals, passes, inFlight,
                 beats, stopping, stopped, crashed>>

\* The row leaves the claim: a transition of the pass itself commits, or the
\* lease runs out and another process takes the row.
EndClaim(t) ==
  /\ t \in owned
  /\ owned' = owned \ {t}
  /\ UNCHANGED <<pollTimer, heartbeatTimer, intervals, passes, inFlight, claimed,
                 beats, stopping, stopped, crashed>>

\* The processor's promise settles, with a result or an error: finally, catch
\* and finally run, and the next poll is scheduled.
EndPass(t) ==
  /\ t \in passes
  /\ passes' = passes \ {t}
  /\ ForgetPass
  /\ EndHeartbeats
  /\ ScheduleNextPoll
  /\ UNCHANGED <<claimed, owned, beats, stopping, stopped, crashed>>

\* An interval fires; without a claimed work item it does nothing.
SendBeat(t) ==
  /\ t \in intervals \cap claimed
  /\ Cardinality(beats) < MaxBeats
  /\ beats' = beats \cup {[pass |-> t, answer |-> "none"]}
  /\ UNCHANGED <<pollTimer, heartbeatTimer, intervals, passes, inFlight, claimed,
                 owned, stopping, stopped, crashed>>

\* The repository executes the update and answers whether it matched a row.
AnswerBeat(b) ==
  /\ b \in beats
  /\ b.answer = "none"
  /\ beats' = (beats \ {b}) \cup
                {[b EXCEPT !.answer = IF b.pass \in owned THEN "renewed" ELSE "lost"]}
  /\ UNCHANGED <<pollTimer, heartbeatTimer, intervals, passes, inFlight, claimed,
                 owned, stopping, stopped, crashed>>

\* The answer arrives; false stops the interval the service knows now.
ReceiveAnswer(b) ==
  /\ b \in beats
  /\ b.answer # "none"
  /\ beats' = beats \ {b}
  /\ IF b.answer = "lost" THEN ClearHeartbeatTimer ELSE UNCHANGED <<intervals, heartbeatTimer>>
  /\ UNCHANGED <<pollTimer, passes, inFlight, claimed, owned, stopping, stopped, crashed>>

\* The call rejects.  Nothing awaits it: the rejection is unhandled and ends
\* the process, timers, passes and all.
BeatRejects(b) ==
  /\ b \in beats
  /\ crashed' = TRUE
  /\ pollTimer' = FALSE
  /\ heartbeatTimer' = None
  /\ intervals' = {}
  /\ passes' = {}
  /\ inFlight' = None
  /\ beats' = {}
  /\ UNCHANGED <<claimed, owned, stopping, stopped>>

\* The synchronous part of onApplicationShutdown.
Shutdown ==
  /\ ~stopping /\ ~crashed
  /\ stopping' = TRUE
  /\ pollTimer' = FALSE
  /\ ClearHeartbeatTimer
  /\ UNCHANGED <<passes, inFlight, claimed, owned, beats, stopped, crashed>>

\* It awaits the pass in flight, if there is one.
ShutdownResolves ==
  /\ stopping /\ ~stopped /\ ~crashed
  /\ inFlight = None
  /\ stopped' = TRUE
  /\ UNCHANGED <<pollTimer, heartbeatTimer, intervals, passes, inFlight, claimed,
                 owned, beats, stopping, crashed>>

Next ==
  \/ \E t \in Tokens : StartPass(t)
  \/ \E t \in Tokens : OnClaimed(t)
  \/ \E t \in Tokens : EndClaim(t)
  \/ \E t \in Tokens : EndPass(t)
  \/ \E t \in Tokens : SendBeat(t)
  \/ \E b \in beats : AnswerBeat(b)
  \/ \E b \in beats : ReceiveAnswer(b)
  \/ \E b \in beats : BeatRejects(b)
  \/ Shutdown
  \/ ShutdownResolves

Spec == Init /\ [][Next]_vars

-----------------------------------------------------------------------------
(* Properties. *)

\* Every variable has its type; a heartbeat always names a claimed work item.
TypeOK ==
  /\ {pollTimer, stopping, stopped, crashed} \subseteq BOOLEAN
  /\ {heartbeatTimer, inFlight} \subseteq Tokens \cup {None}
  /\ intervals \subseteq Tokens /\ passes \subseteq Tokens
  /\ claimed \subseteq Tokens /\ owned \subseteq Tokens
  /\ beats \subseteq Beat

\* No interval outlives its pass and none is forgotten: whatever answers arrive
\* late, a live interval is the one the service knows and its pass is running.
NoLeakedInterval ==
  \A t \in intervals : t = heartbeatTimer /\ t \in passes

\* Once the shutdown has resolved nothing of the worker is left: no pass, no
\* interval and no poll that would touch the database again.
ShutdownIsComplete ==
  stopped => passes = {} /\ intervals = {} /\ ~pollTimer

\* No pass starts after the shutdown was requested, and a pass never starts
\* while another is in flight.
NoPassAfterShutdown ==
  [][\A t \in Tokens : t \in passes' \ passes => ~stopping /\ passes = {}]_vars

\* "Renews the active claim lease, stopping heartbeats if ownership was lost":
\* while its pass runs, an interval is stopped only if the claim was lost.
HeartbeatsStopOnlyWhenOwnershipLost ==
  [][\A t \in intervals \ intervals' :
       t \in passes' /\ ~stopping' => t \notin owned]_vars
=============================================================================
