----------------------------- MODULE ServiceProcess -----------------------------
(***************************************************************************)
(* One process of the service from its start to its end: telemetry is      *)
(* started (TelemetryLifecycle), the environment is read when the          *)
(* application is imported and decides what is composed                    *)
(* (ServiceComposition), the fake worker runs from the bootstrap of the    *)
(* application to its shutdown (FakeWorker), and a signal is not sent on   *)
(* to the process before the worker has stopped.                           *)
(*                                                                         *)
(* config.ts reads the environment once.  When the application has been    *)
(* created from it, all that is kept of it is whether there is a worker.   *)
(***************************************************************************)
EXTENDS FakeWorker, Sequences, ServiceComposition

CONSTANTS
  Signals,     \* SIGTERM, SIGINT
  MaxSignals   \* bound: signals sent to the process

ASSUME MaxSignalsAssumption == MaxSignals \in Nat

VARIABLES
  env,           \* the environment, while the application is composed from it
  worker,        \* was a worker composed, and has its bootstrap hook run?
  enabled, telemetry, listens, stage, hooks, closing, race, sdkShutdown, sdkCalls,
  emitted, process, sent   \* those of TelemetryLifecycle

Telemetry == INSTANCE TelemetryLifecycle

workerVars == vars
compositionVars == <<env, worker>>
otherLifecycleVars == <<enabled, telemetry, listens, stage, hooks, closing, race, sdkShutdown,
                        sdkCalls, emitted, sent>>
lifecycleVars == <<otherLifecycleVars, process>>
processVars == <<workerVars, compositionVars, lifecycleVars>>

NotRead == [read |-> FALSE]

ProcessInit ==
  /\ Telemetry!Init
  /\ env = NotRead
  /\ worker = "none"
  /\ pollTimer = FALSE
  /\ heartbeatTimer = None /\ inFlight = None
  /\ intervals = {} /\ passes = {} /\ claimed = {} /\ owned = {} /\ beats = {}
  /\ stopping = FALSE /\ stopped = FALSE /\ crashed = FALSE

Running == process = "running"

-----------------------------------------------------------------------------
(* The start. *)

LoadTelemetry == Telemetry!LoadTelemetry /\ UNCHANGED <<workerVars, compositionVars>>

\* config.ts is evaluated with the modules that import it.
ReadEnvironment ==
  /\ Telemetry!ImportApp
  /\ env' \in Environments
  /\ UNCHANGED <<workerVars, worker>>

CreateApp ==
  /\ Telemetry!CreateApp
  /\ Starts(env)
  /\ worker' = IF Started(env).worker THEN "composed" ELSE "none"
  /\ env' = NotRead
  /\ UNCHANGED workerVars

\* The environment is refused, or a module cannot be composed.
CompositionFails ==
  /\ stage = "creating" /\ ~Starts(env)
  /\ Telemetry!StartupFails
  /\ UNCHANGED <<workerVars, compositionVars>>

\* app.listen() runs the bootstrap hooks before it binds the port.
Bootstrap ==
  /\ Running /\ stage = "created" /\ worker = "composed"
  /\ worker' = "bootstrapped"
  /\ ScheduleNextPoll
  /\ UNCHANGED <<heartbeatTimer, intervals, passes, inFlight, claimed, owned, beats,
                 stopping, stopped, crashed, env, lifecycleVars>>

Listen ==
  /\ worker # "composed"
  /\ Telemetry!Listen
  /\ UNCHANGED <<workerVars, compositionVars>>

PortIsTaken ==
  /\ stage = "created" /\ worker # "composed"
  /\ Telemetry!StartupFails
  /\ UNCHANGED <<workerVars, compositionVars>>

Startup == ReadEnvironment \/ CreateApp \/ CompositionFails \/ Bootstrap \/ Listen

-----------------------------------------------------------------------------
(* The worker. *)

PassStep(t) == StartPass(t) \/ OnClaimed(t) \/ EndClaim(t) \/ EndPass(t)

BeatIsAnswered(b) == AnswerBeat(b) \/ ReceiveAnswer(b)

WorkerRuns ==
  /\ Running
  /\ \/ \E t \in Tokens : PassStep(t) \/ SendBeat(t)
     \/ \E b \in beats : BeatIsAnswered(b)
  /\ UNCHANGED <<compositionVars, lifecycleVars>>

\* The unhandled rejection of a heartbeat ends the process.
WorkerCrashes ==
  /\ Running
  /\ \E b \in beats : BeatRejects(b)
  /\ process' = "unhandled-rejection"
  /\ UNCHANGED <<compositionVars, otherLifecycleVars>>

-----------------------------------------------------------------------------
(* The end. *)

Signal(signal) ==
  /\ Telemetry!Signal(signal)
  /\ UNCHANGED <<workerVars, compositionVars>>

TelemetrySettles ==
  /\ Telemetry!TelemetrySettles
  /\ UNCHANGED <<workerVars, compositionVars>>

\* Nest calls the shutdown hook of the worker, also when its bootstrap hook has
\* not run, ...
ShutDownWorker ==
  /\ Running /\ closing # {} /\ worker # "none"
  /\ Shutdown \/ ShutdownResolves
  /\ UNCHANGED <<compositionVars, lifecycleVars>>

\* Mutant: Nest does not await the shutdown hooks.
HookWasCalled == worker # "none" => stopping

HooksHaveEnded == worker # "none" => stopped

\* ... and sends itself the signal again when the hooks have ended.
CloseApp(signal) ==
  /\ HooksHaveEnded
  /\ Telemetry!AppIsClosed(signal)
  /\ UNCHANGED <<workerVars, compositionVars>>

Close == ShutDownWorker \/ \E signal \in Signals : CloseApp(signal)

-----------------------------------------------------------------------------
ProcessNext ==
  \/ LoadTelemetry
  \/ Startup
  \/ PortIsTaken
  \/ WorkerRuns
  \/ WorkerCrashes
  \/ \E signal \in Signals : Signal(signal)
  \/ TelemetrySettles
  \/ Close

ProcessSpec == ProcessInit /\ [][ProcessNext]_processVars

\* The runtime goes on with what was begun, its timers fire, and the repository
\* answers every call.  The telemetry SDK need never answer.
FairProcessSpec ==
  /\ ProcessSpec
  /\ WF_processVars(LoadTelemetry)
  /\ WF_processVars(Startup)
  /\ WF_processVars(WorkerRuns /\ \E t \in Tokens : StartPass(t))
  /\ \A t \in Tokens : WF_processVars(WorkerRuns /\ EndPass(t))
  /\ WF_processVars((WorkerRuns /\ \E b \in beats : BeatIsAnswered(b)) \/ WorkerCrashes)
  /\ WF_processVars(TelemetrySettles /\ Telemetry!TimerFires)
  /\ WF_processVars(Close)

-----------------------------------------------------------------------------
\* The state of telemetry and signals has its type; an environment is only kept
\* while it is composed, a worker is only bootstrapped with the application, and
\* a process that ends has not ended by an exception of its telemetry.
ProcessTypeOK ==
  /\ Telemetry!TypeOK
  /\ env # NotRead <=> stage = "creating"
  /\ env # NotRead => \A name \in Names : env[name] \in Domain[name]
  /\ worker \in {"none", "composed", "bootstrapped"}
  /\ worker # "none" => stage \in {"created", "listening"}
  /\ crashed <=> process = "unhandled-rejection"

\* What is reported of the shutdown of the telemetry SDK is how it ended for those
\* who waited for it, whoever asks for it and however late it settles.
ShutdownReportIsTrue == Telemetry!ShutdownReportIsTrue

\* A signal ends the process between two passes of its worker and with no poll
\* scheduled, however the bootstrap, the passes, the signals and the shutdown hooks
\* are interleaved: no claim is left behind by an orderly end.
EndsBetweenPasses == process = "signal" => passes = {} /\ intervals = {} /\ ~pollTimer

Composing == env # NotRead

\* A service that does not start was refused by the schema, or is one whose bus or
\* OIDC only the composition finds fault with: superRefine has refused whatever the
\* transforms and the database module would throw for.
ParserNeverThrows ==
  Composing /\ ~Starts(env) =>
    LET begun == Started(env) IN
      \/ begun.kind = "refused"
      \/ begun.kind = "thrown" /\ begun.by \in {"audit", "authentication"}

\* The variable to change for what is reported under a path.
SetBy(path) == IF path = "AUTH_MODE" THEN "COMPOSITION_PROFILE" ELSE path

\* What a refusal reports can be mended, item by item, by one change of the variable
\* that sets it: the demands of the schema and of superRefine on one variable never
\* contradict each other.  The exception is a lease of 1 ms, which the schema
\* accepts and for which there is no heartbeat interval.
RefusalsCanBeMended ==
  Composing =>
    \A path \in Issues(env) :
      \/ path = "RESERVATION_WORKER_HEARTBEAT_INTERVAL" /\ env.RESERVATION_WORKER_LEASE = 1
      \/ \E value \in Domain[SetBy(path)] :
           path \notin Issues([env EXCEPT ![SetBy(path)] = value])

\* No service starts where NODE_ENV says staging or production, whatever else the
\* environment holds: local authentication is refused there and OIDC is missing.
\* So the fake worker, which nothing replaces yet, never runs there either.
StartsOnlyInDevelopment ==
  Composing /\ Starts(env) => ~Guarded(env) /\ Started(env).auth # "oidc"

\* Rolling back from EventBridge takes a change of AUDIT_PUBLISHER and nothing
\* else: the service starts as it did, but for its publishers.
RollbackIsOneSwitch ==
  Composing /\ Starts(env) /\ env.AUDIT_PUBLISHER = "eventbridge" =>
    Started([env EXCEPT !.AUDIT_PUBLISHER = "stdout"]) =
      [Started(env) EXCEPT !.publishers = <<[publisher |-> "stdout", role |-> "primary"]>>]

\* A worker that is composed can keep its claims: it beats before its lease runs
\* out, and has a retry budget and a pool (the assumptions of ReservationWork).
ClaimsCanBeKept ==
  Composing /\ Starts(env) =>
    /\ 0 < env.RESERVATION_WORKER_HEARTBEAT_INTERVAL
    /\ env.RESERVATION_WORKER_HEARTBEAT_INTERVAL < env.RESERVATION_WORKER_LEASE
    /\ env.RESERVATION_WORKER_MAX_TRANSIENT_FAILURES > 0
    /\ env.DATABASE_POOL_MAX >= env.DATABASE_POOL_MIN /\ env.DATABASE_POOL_MAX > 0

\* Whatever the environment, the service that starts from it is one that may run
\* there and can work, and what a refusal reports can be mended.
EnvironmentsAreSound ==
  /\ ParserNeverThrows /\ RefusalsCanBeMended
  /\ StartsOnlyInDevelopment /\ RollbackIsOneSwitch /\ ClaimsCanBeKept

\* The application listens, or the process ends on its own account, although the
\* SDK may hang when it starts; and a shutdown of the SDK that was begun is over for
\* its callers in the end, also when the SDK never answers.
NothingWaitsForTelemetry ==
  /\ <>(stage = "listening" \/ process \in {"signal", "startup-failed", "unhandled-rejection"})
  /\ race = "racing" ~> race # "racing" \/ ~Running

\* A signal that the application closes for ends the process: the worker's pass
\* ends, and telemetry's listeners, which would swallow the signal that Nest sends
\* again, are gone by then.
ClosingEndsTheProcess == closing # {} ~> ~Running

\* A worker that was bootstrapped polls again and again, until it is stopped or its
\* process ends.
WorkerGoesOn == []<>(worker # "bootstrapped" \/ pollTimer \/ stopping \/ ~Running)
=============================================================================
