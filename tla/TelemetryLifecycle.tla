-------------------------- MODULE TelemetryLifecycle --------------------------
(***************************************************************************)
(* The life of a service process: the telemetry SDK that is started before *)
(* the application is imported (otel-lifecycle.ts, instrumentation.ts),    *)
(* the start of the application (index.ts, app.ts), and the signals that   *)
(* end both.                                                               *)
(*                                                                         *)
(* A signal goes to every listener there is for it, and kills the process  *)
(* when there is none.  Telemetry listens for each signal once, from the   *)
(* start; Nest (external) listens from enableShutdownHooks on, closes the  *)
(* application on the first signal, ignores the others meanwhile, then     *)
(* takes its listeners away and sends the process the signal again.        *)
(*                                                                         *)
(* The SDK may take for ever to shut down, or settle after its time is up. *)
(***************************************************************************)
EXTENDS Naturals, Sequences

CONSTANTS
  Signals,     \* SIGTERM, SIGINT
  MaxSignals   \* bound: signals sent to the process

VARIABLES
  enabled,      \* OBSERVABILITY_ENABLED
  telemetry,    \* what came of starting the SDK
  listens,      \* signals telemetry still listens for
  stage,        \* how far the application has started
  hooks,        \* Nest's shutdown listeners are registered
  closing,      \* signals Nest is closing the application for
  race,         \* how the race of SDK shutdown and timeout stands, or ended
  sdkShutdown,  \* how sdk.shutdown() itself stands
  sdkCalls,     \* calls of sdk.shutdown()
  emitted,      \* diagnostics handed to the sink
  process,      \* running, or why it ended
  sent          \* signals sent so far

startVars == <<enabled, telemetry>>
raceVars == <<race, sdkShutdown, sdkCalls>>
appVars == <<stage, hooks>>
vars == <<startVars, listens, appVars, closing, raceVars, emitted, process, sent>>

Diagnostics == {"bootstrap-exception", "shutdown-timeout", "shutdown-rejection"}

Init ==
  /\ enabled \in BOOLEAN
  /\ telemetry = "unloaded"
  /\ listens = {}
  /\ stage = "import"
  /\ hooks = FALSE
  /\ closing = {}
  /\ race = "none"
  /\ sdkShutdown = "not-called"
  /\ sdkCalls = 0
  /\ emitted = <<>>
  /\ process = "running"
  /\ sent = 0

Running == process = "running"

-----------------------------------------------------------------------------
(* startOpenTelemetry and shutDownSdk. *)

BeginShutdown ==
  /\ race' = "racing"
  /\ sdkShutdown' = "pending"
  /\ sdkCalls' = sdkCalls + 1

\* lifecycle.shutdown(): one shutdown, whose promise every caller gets.
ShutDown == IF race = "none" THEN BeginShutdown ELSE UNCHANGED raceVars

\* Mutant: the diagnostic is emitted outside of the try block.
SinkFailureEscapes == process' \in {"running", "uncaught-exception"}

\* The sink may throw, nobody notices.
SinkFailureIsCaught == UNCHANGED process

TelemetryIsOff ==
  /\ Running /\ telemetry = "unloaded"
  /\ ~enabled
  /\ telemetry' = "off"
  /\ UNCHANGED <<enabled, listens, appVars, closing, raceVars, emitted, process, sent>>

TelemetryStarts ==
  /\ Running /\ telemetry = "unloaded"
  /\ enabled
  /\ telemetry' = "on"
  /\ listens' = Signals
  /\ UNCHANGED <<enabled, appVars, closing, raceVars, emitted, process, sent>>

\* createSdk() throws, or start() does: what was created is shut down, unawaited
\* and without a sink.  Nobody listens for signals.
TelemetryFails ==
  /\ Running /\ telemetry = "unloaded"
  /\ enabled
  /\ telemetry' = "failed"
  /\ emitted' = Append(emitted, "bootstrap-exception")
  /\ BeginShutdown \/ UNCHANGED raceVars
  /\ SinkFailureIsCaught
  /\ UNCHANGED <<enabled, listens, appVars, closing, sent>>

Emit(diagnostic) == emitted' = IF telemetry = "on" THEN Append(emitted, diagnostic) ELSE emitted

\* Mutant: the SDK is awaited for as long as it takes.
NoTimer == FALSE

TimerIsArmed == race = "racing"

TimerFires ==
  /\ Running /\ TimerIsArmed
  /\ race' = "timeout"
  /\ Emit("shutdown-timeout")
  /\ SinkFailureIsCaught
  /\ UNCHANGED <<startVars, listens, appVars, closing, sdkShutdown, sdkCalls, sent>>

SdkCompletes ==
  /\ Running /\ sdkShutdown = "pending"
  /\ sdkShutdown' = "completed"
  /\ race' = IF race = "racing" THEN "completed" ELSE race
  /\ UNCHANGED <<startVars, listens, appVars, closing, sdkCalls, emitted, process, sent>>

\* Mutant: a rejection is reported from its own handler, whoever won the race.
ReportedInAnyCase == Emit("shutdown-rejection")

\* A rejection that comes after the timeout is dropped.
ReportedInTime ==
  IF race = "racing" THEN Emit("shutdown-rejection") ELSE UNCHANGED emitted

SdkRejects ==
  /\ Running /\ sdkShutdown = "pending"
  /\ sdkShutdown' = "rejected"
  /\ race' = IF race = "racing" THEN "rejection" ELSE race
  /\ ReportedInTime
  /\ SinkFailureIsCaught
  /\ UNCHANGED <<startVars, listens, appVars, closing, sdkCalls, sent>>

-----------------------------------------------------------------------------
(* The application. *)

\* index.ts is loaded once the instrumentation module has been evaluated.
ImportApp ==
  /\ Running /\ stage = "import"
  /\ telemetry # "unloaded"
  /\ stage' = "creating"
  /\ UNCHANGED <<startVars, listens, hooks, closing, raceVars, emitted, process, sent>>

CreateApp ==
  /\ Running /\ stage = "creating"
  /\ stage' = "created"
  /\ hooks' = TRUE
  /\ UNCHANGED <<startVars, listens, closing, raceVars, emitted, process, sent>>

Listen ==
  /\ Running /\ stage = "created"
  /\ stage' = "listening"
  /\ UNCHANGED <<startVars, listens, hooks, closing, raceVars, emitted, process, sent>>

\* The application cannot be created, or the port not be bound.
StartupFails ==
  /\ Running /\ stage \in {"creating", "created"}
  /\ process' = "startup-failed"
  /\ UNCHANGED <<startVars, listens, appVars, closing, raceVars, emitted, sent>>

-----------------------------------------------------------------------------
(* Signals. *)

\* process.once: the listener is gone when it is called.
ListensAfter(signal) == listens \ {signal}

TelemetryHears(signal) ==
  IF signal \in listens
  THEN ShutDown /\ listens' = ListensAfter(signal)
  ELSE UNCHANGED <<raceVars, listens>>

Signal(signal) ==
  /\ Running /\ sent < MaxSignals
  /\ sent' = sent + 1
  /\ TelemetryHears(signal)
  /\ closing' = IF hooks /\ closing = {} THEN {signal} ELSE closing
  /\ process' = IF signal \in listens \/ hooks THEN "running" ELSE "signal"
  /\ UNCHANGED <<startVars, appVars, emitted>>

\* Nest's cleanup has run every shutdown hook of the application.
AppIsClosed(signal) ==
  /\ Running /\ hooks /\ signal \in closing
  /\ hooks' = FALSE
  /\ TelemetryHears(signal)
  /\ process' = IF signal \in listens THEN "running" ELSE "signal"
  /\ UNCHANGED <<startVars, stage, closing, emitted, sent>>

-----------------------------------------------------------------------------
LoadTelemetry == TelemetryIsOff \/ TelemetryStarts \/ TelemetryFails
TelemetrySettles == TimerFires \/ SdkCompletes \/ SdkRejects

-----------------------------------------------------------------------------
\* Every variable has its type, Nest closes for one signal only, and the process
\* does not end by an uncaught exception.
TypeOK ==
  /\ enabled \in BOOLEAN
  /\ telemetry \in {"unloaded", "off", "failed", "on"}
  /\ listens \in SUBSET Signals
  /\ stage \in {"import", "creating", "created", "listening"}
  /\ hooks \in BOOLEAN
  /\ closing \in SUBSET Signals
  /\ \A s, t \in closing : s = t
  /\ race \in {"none", "racing", "timeout", "completed", "rejection"}
  /\ sdkShutdown \in {"not-called", "pending", "completed", "rejected"}
  /\ sdkCalls \in Nat
  /\ emitted \in Seq(Diagnostics)
  /\ process \in {"running", "startup-failed", "signal", "unhandled-rejection"}
  /\ sent \in 0..MaxSignals

\* What is reported is how the one shutdown of the SDK ended for those who
\* waited for it, however many signals ask for it and however late the SDK
\* settles; nothing is reported of an SDK that never started but that it failed.
ShutdownReportIsTrue ==
  /\ sdkCalls <= 1
  /\ race \in {"none", "completed", "rejection"} =>
       sdkShutdown = CASE race = "none" -> "not-called"
                       [] race = "completed" -> "completed"
                       [] race = "rejection" -> "rejected"
  /\ emitted = CASE telemetry = "failed" -> <<"bootstrap-exception">>
                 [] telemetry = "on" /\ race = "timeout" -> <<"shutdown-timeout">>
                 [] telemetry = "on" /\ race = "rejection" -> <<"shutdown-rejection">>
                 [] OTHER -> <<>>
=============================================================================
