# A TLA+ model of the movie reservation service

The movie reservation service accepts requests for seats of a screening and
answers them later: a GraphQL mutation saves a reservation request, and a worker
loop inside each service process claims saved requests one at a time, confirms
or rejects them, retries after errors, and survives crashes by giving every
claim a lease. Several processes may run against one PostgreSQL database. This
directory specifies that machinery in TLA+, checks it with TLC on small
instances, and proves its safety properties for every size with TLAPS. Around
this core it does the same for the parts the core depends on: the authentication
boundaries and the audit trail they write to, the intake and the polls of the
users, what the service reports about its requests and its work, and the life of
one process from its environment to its shutdown.

All paths below are relative to the repository (`src/...` is its `src` directory).

## The system

| component | state | operations | talks to |
|---|---|---|---|
| Domain (`domain/movie-reservations`) | none, pure | create a request, status transitions, create a reservation | everything |
| Intake and reads (`movie-reservations.service.ts`, `authorization.service.ts`, the two read adapters) | tables or maps of requests and their seats | check and save a request; read request, reservation, availability | database, workers |
| Processor (`in-process-reservation-request-processor.ts`) | the work item of one pass, its span | claim, look for a conflict, reject or confirm, handle failures, report | work repository and observability through their ports |
| Postgres work repository (claimer, state store, reservation store, work repository) | rows of five tables, row locks, index entries | claim / heartbeat / confirm / reject / release / fail, each a transaction | database |
| In-memory work repository | maps, claims, attempts | the same port without a database | processor, service |
| Fake worker (`fake-reservation-request-worker.service.ts`) | `pollTimer`, `heartbeatTimer`, `stopping`, `inFlight` | poll, heartbeat, shutdown | processor, work repository |
| Failure injection policy | none, a hash of the request id | decide whether a commit is blocked | processor |
| Authentication (`demo-login.service.ts`, `graphql-authentication.middleware.ts`) | none but the request | demo login, token check, answer | audit recorder |
| Audit recorder and publishers (`infrastructure/audit`) | the output buffer of the process, metrics | record, meter, mirror, write a line | SDK, stdout, metrics, log |
| Audit SDK, EventBridge publisher (`packages/audit-sdk`) | per publish: timer, abort listener, pending request | validate, publish, inspect the response | EventBridge |
| Request context and operation logging (`request-context.ts`, `graphql-operation-logging.plugin.ts`, `application-logger.ts`) | an async store per request, per-operation log state | fill in lines, start and end one operation, carry the trace into the saved work | Apollo, HTTP, SDK |
| Telemetry (`otel-lifecycle.ts`, `instrumentation.ts`) | the SDK, its shutdown promise, signal listeners | start, bounded stop, report failures | process, sink |
| Configuration and composition (`config.ts`, `di`) | none | parse and cross-check the environment; compose | process |
| Process (`index.ts`, `app.ts`, Nest's hooks) | how far it has started, what it is closing for | import, compose, bootstrap, listen, close | all of the above |

What is hard about it:

- **Concurrency between processes.** Workers of different processes select rows
  with `FOR UPDATE SKIP LOCKED`, look for conflicts outside any transaction and
  confirm inside one; the only arbiter of a seat is a unique index, whose entries
  block each other while they are uncommitted.
- **Time.** A claim is valid until `claim_expires_at`, which is computed from the
  clock of the process that claims, read before the claim is sent. Processes
  disagree on the time and a claim may be old when it is committed.
- **Failure.** A process may die anywhere; a call may fail before or after it took
  effect; a heartbeat may arrive late or never; the failure handler may fail, and
  so may the observability that reports a decision already persisted.
- **Late answers.** A publish that timed out may still have been taken by the bus,
  and a line that was accepted may still fail to be written: the caller has its
  answer by then. The telemetry SDK may settle after its time is up.
- **Interleaved reads.** A poll is two statements outside a transaction; fields of
  one document resolve at the same time; the worker writes in between.
- **Callbacks.** Within a process the poll loop, the heartbeat interval, the
  answers to heartbeats and the shutdown hook share four fields; concurrent HTTP
  requests share one process and one logger; Apollo calls the hooks of an
  operation in an order that depends on where it fails.

What makes each part correct, and where that is stated, is the subject of the
properties below. `PROJECT.json` lists every hazard at its line with the
properties that cover it, or why none does.

## The modules

```
                 ReservationLifecycle        what a user is promised about a request
                 ^        ^         ^
    implements   |        |         |  uses as its workers
        +--------+        |         +----------------+
ReservationWork     InMemoryWork (implements)   RequestIntake   save, polls, availability
tables, claims,
leases, crashes     AtomicConfirm  <-- implements --  ConfirmLocks   index entries, waits
        ^
        | extends, implements
ProcessorSignals    samples and spans of every claim

ReservationWork_proofs <- ProcessorSignals_proofs      InMemoryWork_proofs
ConfirmLocks_proofs                                    RequestIntake_proofs

FakeWorker   TelemetryLifecycle   ServiceComposition       RequestSignals
timers       SDK, signals, start  config.ts, pure          lines, samples and spans of
   ^               ^                    ^                  HTTP requests
   +---------------+--------------------+
             ServiceProcess          one process, start to end
ServiceProcess_proofs (the worker too)                     RequestSignals_proofs

AuditedAuthentication <-- implements -- AuthenticationAudit -- extends --> EventBridgePublisher
AuthenticationAudit_proofs (the publisher too)
```

Each `MC...` module instantiates one of these for TLC.

### ReservationLifecycle

The abstract specification. Its state is the status of each request and the
seats it asks for; its steps are the transitions of
`reservation-request-transitions.ts` and the release for a retry that the worker
port adds. `Confirm` is possible only when no confirmed request holds one of the
seats, `Reject` only when one does. Workers, claims and tables do not appear.

### ReservationWork

The core. The row variables are the columns of `reservation_requests`
(`status`, `seats`, `claimToken`, `claimExpiresIn`, `leaseTimeoutCount`,
`transientFailureCount`; `claims` counts the tokens handed out), the book
variables are the tables `reservations`, `reservation_seats` and
`reservation_request_processing_attempts`, and the worker variables are one
processing pass per process: `pc` is where it stands, `item` the snapshot it
claimed, `conflict` the winner its lookup returned, `age` how long ago it read
its clock. `beats` holds heartbeat updates on their way to the database.

| action | code |
|---|---|
| `Submit` | `saveReservationRequest`: request and seat rows in one transaction |
| `StartPoll` | the poll timer fires, the processor reads the clock |
| `Select`, `FindNothing` | the `FOR UPDATE SKIP LOCKED` query of the claimer |
| `CommitClaim`, `FailExpiredClaim` | the rest of the claim transaction |
| `FindConflict`, `FindNoConflict` | `findConflictingConfirmedReservation`, the failure policy |
| `Confirm`, `ConfirmFindsSeatTaken`, `LookUpWinner` | the confirm transaction; the unique violation; its translation |
| `Reject`, `ReleaseForRetry`, `Fail` | the state store's transactions |
| `ClaimLost` | `requireClaimedProcessingRequest` throws |
| `CallThrows`, `PassThrows` | an exception the processor handles; one it does not, which the worker swallows |
| `Crash`, `Restart` | the process goes away, with its open transaction, and comes back |
| `SendBeat`, `ExecuteBeat`, `LoseBeat` | a heartbeat is sent, executed, lost |
| `Tick` | time passes for everyone |

Choices worth knowing:

- A transaction is one action when it locks the request row before it reads it:
  everything it reads about the request is then stable until it commits. The
  claim is two actions, because its lock can be seen by others: `SKIP LOCKED`
  passes over the row, `FOR UPDATE` waits for it. While a pass is in a call that
  takes the lock, or a heartbeat is under way, another worker's query may or may
  not find the row locked (`MayBeLocked`).
- Confirm and reject may take effect and still throw (`EndPassOrLoseReply`): the
  pass then continues in the failure handler. For claim, release and fail a lost
  reply ends the pass, which the model has as `PassThrows` or as the action itself.
- The conflict lookup picks the lowest reservation id, a random UUID; the model
  picks any.
- The claim token is a UUID that is only compared with tokens of the same
  request: the n-th claim of a request has token n. All processes claim under one
  constant worker id (`use-case.providers.ts:71`), so `claimed_by` is left out.
- Time is relative. `claimExpiresIn` is the expiry minus now and `age` now minus
  the clock reading, so that the state space needs no horizon. An expiry
  `MaxLag + Skew` in the past is past for every poll and stays where it is.
- Not in the model: `claimed_at`, `last_heartbeat_at`, `processed_at` and the
  identities of users and providers. No decision of the worker depends on them;
  the observability columns are in `RequestSignals`, where they are written.

### ProcessorSignals

What a pass says about itself. It extends `ReservationWork` by two variables:
`signals` has a record for every claim (was it counted, how did its consumer span
end, which outcomes and exceptions were recorded), and `due` is what a pass still
has to report before it returns. Every step of the work is wrapped by what it
makes due, and the reports are actions of their own, because observability is a
port that may throw:

| action | code |
|---|---|
| `PollStarts`, `ClaimAnswersNull`, `ClaimIsCommitted`, `ClaimAnswerIsLost` | the claim and its answer |
| `StartProcessing`, `RecordingTheClaimThrows` | the claim is counted and the span opened; either throws outside the try block, the count made or not |
| `PassGoesOn` | the other steps of the work |
| `DecisionIsCommitted`, `FailureIsCommitted`, `FailureHandlerThrows` | an outcome is known, or is not |
| `ReportOutcome`, `ReportThrown`, `ReportingThrows` | outcome, exception and end of the span, or an exception half-way |
| `ProcessDies` | the process goes away with what it had to report |

### InMemoryWork

The in-memory adapter of the same port. What a call does between two awaits is
one turn of the event loop, and one action; there are no transactions. All calls
but one finish in one turn. `confirmClaimedReservationRequest` checks the claim
and looks for a conflict in one turn (`BeginConfirm`) and writes in the next
(`FinishConfirm`) without looking again.

| action | code |
|---|---|
| `Submit` | `saveReservationRequest` |
| `Claim`, `FailExpiredClaim` | `claimNextPendingReservationRequest`, scan and write in one turn |
| `LookForConflict`, `Reject`, `PolicyBlocksCommit` | the pass up to its decision |
| `BeginConfirm`, `FinishConfirm` | confirm before and after its await |
| `HandleFailure`, `ClaimLost`, `PassThrows` | release or fail; the claim is gone; an exception outside the try block |
| `Heartbeat`, `LeaseRunsOut` | the lease, reduced to whether it has run out |

`deployed` says which passes run over the store. The service runs one (one worker,
which polls again when its pass has ended). With two, the history variable
`together` remembers which confirms were open at the same time.

### AtomicConfirm, ConfirmLocks

Inside the confirm transaction. PostgreSQL inserts the rows of a statement one
after the other, and an insert waits for the transaction that holds the entry.
`InsertEntry` takes the next seat, `FindDuplicate` meets a committed entry,
`Commit` and `Abort` end the transaction; `WaitsFor` is the waiting relation. The
transactions climb because the claim reads the seats of a request ordered by
`seat_id` (`postgres-reservation-seat-lookup.ts:15`) and nothing reorders them.
`AtomicConfirm` is the single step `ReservationWork` takes for all this.

### RequestIntake

The side users talk to. `scenario` is a catalogue and who may ask for what;
`adapter` is the persistence profile. `RequestReservation` and `RefuseRequest` are
the mutation with all its checks, the second also a statement that fails. A poll in PostgreSQL is `ReadRow` and then
`ReadSeats` (or `FindNoRow`, or `ReadFails` when a statement throws); in memory it
is `ReadAtOnce`. `ReadAvailability` and `FindNoScreening` are the availability
reader. `Work` is a step of `ReservationLifecycle`: what workers do to a saved request. `told` is a history
variable, the final statuses an actor has been shown, and `answer` the last
answer, with what the actor knew when it asked.

### RequestSignals

Two HTTP requests in one process, each with its async store. `Receive`,
`Authenticate`, `RefuseUnauthenticated`, `SkipAuthentication`,
`AnswerWithoutOperation`, `ContextCreationDidFail`, `Finish` and `HangUp` are the
middleware and the HTTP boundary, `RequestDidStart`, `DidEncounterErrors`,
`DidResolveOperation`, `Execute`, `WillSendResponse` and
`UnexpectedErrorProcessingRequest` the hooks of the logging plugin, in every order
Apollo (external) may call them; `SaveReservationRequest` is the moment the
context is stored with the work. A header is reduced to whether the service and
OpenTelemetry accept it; `deployed` says whether the SDK runs and whether GraphiQL
is served.

### FakeWorker

One service process and its callbacks. JavaScript runs a callback to its end, so
each callback is an action. A pass is named by the claim token it draws;
`intervals` are the intervals that fire, `heartbeatTimer` the one whose handle
the service holds, and `beats` the heartbeat calls in flight with their answers.
What the processor does is abstract: the pass gets a claim or not, the claim may
end at any time, the pass ends at any time. A rejected heartbeat is awaited by
nobody and ends the process (`BeatRejects`).

### TelemetryLifecycle, ServiceComposition, ServiceProcess

`TelemetryLifecycle` is the SDK (`LoadTelemetry`, and the race of its shutdown
against the timer: `TimerFires`, `SdkCompletes`, `SdkRejects`), the start of the
application and what a signal does to whom. `ServiceComposition` has no variables:
it is `config.ts` and the providers as operators on an environment, from
`FieldIssues` (the schema of each variable) over `RefineIssues` (the cross-checks)
and `TransformThrows` to `Composed`; a value is one of the classes the code
distinguishes. An issue is reported under a path, and `AUTH_MODE` is a path that is
no variable: `COMPOSITION_PROFILE` sets it (`SetBy`). `ServiceProcess` composes both with `FakeWorker`:

| action | code |
|---|---|
| `LoadTelemetry` | `instrumentation.ts` before the application is imported |
| `ReadEnvironment` | `config.ts` is evaluated |
| `CreateApp`, `CompositionFails` | `createApp`, or a provider that throws |
| `Bootstrap`, `Listen`, `PortIsTaken` | the bootstrap hook of the worker, `app.listen` |
| `WorkerRuns`, `WorkerCrashes` | the steps of `FakeWorker`; a rejected heartbeat nobody awaits |
| `Signal` | SIGTERM or SIGINT goes to telemetry and to Nest |
| `TelemetrySettles`, `ShutDownWorker`, `CloseApp` | the shutdown hooks; Nest sends the signal again |

### EventBridgePublisher

`EventBridgeAuditPublisher.publish`: one PutEvents call with one entry, raced
against a timeout and the abort signal of the caller. A call is `idle`, `racing`,
`returned` or it `threw`; `timers`, `listeners` and `requests` are what it holds
on the event loop, and `bus` is the truth the caller cannot see: what EventBridge
has done with the event.

| action | code |
|---|---|
| `PublishInvalidEvent`, `PublishAlreadyAborted`, `SendThrows` | the ways out before the race: the event is invalid, the signal is aborted, `send` throws |
| `Publish` | listener and timeout are set, the request is sent |
| `TransportResponds`, `TransportFails` | `send` settles first: `InspectPutEventsResponse`, `ClassifyTransportError` |
| `TimeoutFires`, `CallerAborts` | the other two ends of the race |
| `LateAnswer` | `send` settles after publish has returned |
| `BusDecides` | EventBridge takes or refuses the event (external) |

JavaScript drains the promise jobs of a callback before the next callback runs,
so the first of the three events decides and everything up to the `finally`
block belongs to it. The response is a record of what the code looks at: number
of entries, failure count, and for each field of the entry whether it is absent,
blank or given. About the bus one thing is assumed: a response that follows the
PutEvents contract, and an error the service names, tell the truth
(`TruthfulResponse`, `TruthfulError`). Any other response may come whatever the
bus has done. The client makes one attempt (`create-eventbridge-audit-publisher.ts`),
so the model has no retries.

### AuthenticationAudit

One service process. A request is handled in phases: `new`, then `recording`
(decided, the event is built), `waiting` (in the EventBridge publish),
`published` (the primary publisher has answered), `copied` (the mirror has
written its copy), `done`. It publishes at most one event, so requests are the
`Calls` of `EventBridgePublisher`. Requests share the output buffer (`buffer`),
whose lines `DrainLine` writes and `LoseLine` loses, in order and in their own
time.

| action | code |
|---|---|
| `Login` | `POST /demo/auth/login`: `authenticate`, one branch per reason |
| `AuthenticateGraphql`, `Admit`, `ServeLandingPage` | the middleware: check the token; let it through; serve GraphiQL |
| `PublishToStdout` | `StdoutAuditPublisher.publish` as the primary publisher |
| `PublishToEventBridge`, `Transport`, `PrimaryReturns` | the EventBridge publish as the primary publisher, its race, its metered end |
| `CopyToComparison` | the `finally` block of the mirror |
| `AnswerAudited` | the recorder logs the outcome, the boundary answers |
| `LoseLine` | the write callback reports an error |

`settings` is a configuration `config.ts` accepts; `oidc` has no manager yet and
is left out. The recorder passes no signal and an event the builder has just
validated (`RecorderAssumption`), so publish neither aborts nor rejects the
contract here. A line counts as one unit of the buffer, whose bound in bytes is
`MaxPending` units; a line may also be refused while there is room, which covers
what other writers of the stream use and writes that throw. `Genuine` says
independently of `Authenticate` which credentials are right.

### AuditedAuthentication

The abstract specification: requests present credentials, the trail records some
of them, at any time or never, and the answer grants exactly what the
credentials deserve; a receipt needs a recorded event. `recorded` is refined to
the events the primary publisher really has: taken by the bus, or entered into
the output buffer, which is what acceptance means for stdout
(`stdout-audit-publisher.ts:17`).

## What the runs show

| run | instance | states | shows |
|---|---|---|---|
| `seats` | 2 requests, 2 seats, 2 workers, 1 heartbeat under way | 1 511 242 | no double booking, `CONFIRMED` and reservation rows agree, rejections name their winner, and `ReservationLifecycle` is implemented |
| `claims` | 1 request, 3 workers, both budgets 2, skewed clocks | 1 156 838 | claims are exclusive, the history matches the row, budgets are exact, samples and spans tell the truth |
| `liveness` | 1 request that fails and is retried, 2 workers | 34 724 | every request is answered and every span ended |
| `memory` | 2 requests, 2 seats, 1 or 2 passes | 79 423 | with one pass the lifecycle is implemented, first come first served; with two a seat is sold twice only through two open confirms; every request is answered |
| `confirm_locks` | 3 transactions, 3 seats | 23 189 | no waiting cycle, the transaction looks like one step, every confirm ends |
| `intake` | 2 screenings, 2 halls, 2 providers, 3 actors, both adapters | 719 268 | saved requests are servable, the seat queries agree, answers are true and stay true |
| `signals` | 2 HTTP requests of 2 users, with and without the SDK | 382 793 | signals stay with their request, every operation is accounted for and counted, work continues its trace |
| `process` | 1 process, 2 signals, environments up to 2 changes from a base | 197 978 | it starts only where it may, does not wait for telemetry, goes on polling, ends between two passes |
| `eventbridge` | 3 publishes: plain, with an abort signal, with an invalid event; every response shape | 1 440 | a result claims no more than the bus did, and nothing is left behind |
| `audit` | 2 requests, 1 line of buffer, 3 publisher graphs, both auth modes | 468 955 | decisions stand, signals are exact, nothing is lost silently, every check is answered |
| `late_answer` | 2 passes, 1 heartbeat | | **violated**, see below |
| `reordered_beats` | 2 workers, lease 3, lag 2, 2 heartbeats in flight | | **violated**, see below |

**Bounds.** `seats` has two requests that may overlap in one seat, in two or in
none, and two workers, the smallest instance in which two confirms race, one
wins, and the winner's rejection of the other crosses a reclaim; a heartbeat of a
finished or lost claim may execute at any later point. A third worker matters
where one row changes hands: that is `claims`, where an old holder, a current
holder and a poller meet, and both budgets are 2, so that each boundary is
approached from below and the two are used up in any mixture. In `liveness` the
transient budget is 2, so that a failed request is retried, and the lease budget 1;
it has no heartbeats, which only postpone a timeout and whose passes all end.
`Lease` is 1 and time is relative, so that the lease may run out at any moment.
`MaxLag` bounds how long a claim may take, in ticks, `Skew` the error of a clock,
`MaxBeats` the heartbeats in flight. `seats` has heartbeats and exact clocks,
`claims` skewed clocks and no heartbeats, `liveness` slow claims: what holds with all
of them at once is said by the theorems, which bound none of them.

`memory` needs two requests for two seats to overlap, and two passes to open the
window of the confirm; `Deployments` fixes who runs. Three transactions over three
seats (`confirm_locks`) are enough for a cycle of three. In `intake`, `Scenarios`
asks every list of up to two seats of one request over every catalogue with two
halls, and two overlapping requests with two open reads over one catalogue. In
`signals`, `Callers` bounds what each caller sends: one of each kind of header the
code treats differently, and one of each route. In `process`, `MaxChanges` is the
number of variables that differ from the default, the EventBridge or the
production environment: the cross-checks of `config.ts` relate two variables at a
time; `MaxSignals` lets a signal come while the first is being served. In `audit`
the buffer has room for one line, so that the second of two requests finds it
full, free again, or in front of a line that fails late; `eventbridge` enumerates
every response, and `audit` one per kind of result, because the inspection does
not depend on the request.

Deadlock is checked where the system goes on for ever: in the runs of
`ReservationWork` and `ProcessorSignals`. Processes, HTTP requests, audit records,
transactions and the fixed sets of requests of the others really end, so their
runs switch the check off. Symmetry is used for workers, seats, requests and
calls in the runs that check no liveness.

**Fairness.**

- `ProcessorSignals`: weak fairness of each worker's own steps and reports (the
  event loop runs, the database answers every call, and a process that went down
  is started again), of heartbeats and of the clock. Strong fairness of polling,
  selecting and committing a claim: crashes and exceptions may happen for ever,
  but not so that, from some point on, every single poll dies before it has
  claimed. Nothing is assumed of how often processing fails: the budgets bound it.
- `InMemoryWork`: weak fairness of each pass and of leases running out, strong
  fairness of the conflict lookup, since a pass may throw before it.
- `ConfirmLocks`: a transaction whose next entry is free again and again gets it
  (strong), a duplicate is found and a complete transaction commits (weak). There
  is no deadlock detector in the model that would break a cycle.
- `RequestSignals`: Node goes on with every request whose callback is due.
- `ServiceProcess`: the start goes on, passes start and end, heartbeats are
  answered or reject, the timer fires, Nest closes. The SDK owes nothing.
- The audit modules: timers fire and callbacks that are ready run; the bus may
  never answer and the reader of the output may stop.

## Where code and documentation disagree

- `late_answer`. `heartbeat` clears `this.heartbeatTimer` whenever its call
  answers `false` (`fake-reservation-request-worker.service.ts:134`). The answer
  may come after its pass has ended, typically because the pass itself has just
  confirmed the request, and then the field holds the interval of the next pass.
  That pass runs without heartbeats although it owns its claim. Comment, line 124:
  "Renews the active claim lease, stopping heartbeats if ownership was lost."
- `reordered_beats`. The interval does not wait for the previous heartbeat and the
  update does not compare the expiry it overwrites. Two heartbeats on different
  connections may commit in the opposite order; the lease is then shorter than
  before, where the port promises "Renews an owned claim".

Neither endangers the safety properties: `seats` runs with late and lost
heartbeats, and the proofs hold for any number of them.

Noticed on the way, without a run of their own:

- "The attempt itself is recorded by the repository"
  (`fake-reservation-request-worker.service.ts:85-86`) is not so for an error that
  gets there from a pass whose failure handling threw. `EveryClaimAccounted` shows
  that such a claim is still paid for, by a lease timeout.
- `docs/observability.md:50` speaks of the caller's `traceparent`; what is saved is
  the trace of the active server span when there is one (`request-context.ts:140`).
  The two differ only where OpenTelemetry refuses a header the service accepts.
  Without the SDK and without a `traceparent`, no trace is saved.
- A signal that arrives after `instrumentation.ts:67` and before Nest's
  `enableShutdownHooks` only shuts telemetry down: the process keeps starting, and
  a second signal is needed to end it.
- "Under `stdout`, the EventBridge settings are ignored rather than rejected ...
  rolling back must only require switching `AUDIT_PUBLISHER`" (`config.ts:345`). The
  schema still checks their form: a timeout outside `100..5000` (`config.ts:142`)
  is rejected under `stdout` too.
- "If validation fails, the app crashes immediately with clear errors"
  (`config.ts:101`). Local authentication in staging or production is reported under
  the path `AUTH_MODE` (`config.ts:211`), which is no variable of the environment: the
  one to change is `COMPOSITION_PROFILE`, which the message does not mention.
- `RESERVATION_WORKER_LEASE_MS=1` passes its own check (`config.ts:120`), but no
  heartbeat interval is at least 1 and below it, so that the refusal blames an interval
  that cannot be mended. `RefusalsCanBeMended` excepts that lease.
- Knex destroys its pool in a shutdown hook that runs beside the worker's
  (`postgres-knex-lifecycle.service.ts:20`), so that a pass in flight may find the
  pool closing. Its calls then throw like any others (`CallThrows`, `PassThrows`),
  and the claim is left to its lease.

## What is proved

Every theorem holds for all values of the constants that satisfy the named
assumptions of its module. In `ReservationWork`: request numbers are positive
naturals, failure injection concerns requests, the transient budget is positive,
`Lease` is positive and `MaxLag`, `Skew` and `MaxBeats` are naturals. Sets may be
infinite.

The invariants of the reservation core (`ReservationWork_proofs`, and
`ProcessorSignals_proofs` for the last) are layered, each inductive relative to
those below it, and each layer has one step per action and one sub-step per
conjunct the action can disturb:

1. `TypeOK` (`TypeCorrect`).
2. `LockInv`: at most one claim transaction has a row locked
   (`RowLockExclusive`), and a selected row is still REQUESTED or PROCESSING
   (`SelectedIsOpen`), because every other writer waits for the lock. Needed
   because `CommitClaim` and `FailExpiredClaim` write without looking again.
3. `BookInv`: a held request is saved (`HeldIsSaved`), reservations are exactly
   the confirmed requests with all their seats, no seat is sold twice, a
   conflict that a pass is about to reject for is a confirmed reservation of
   another request for one of its seats (`ConflictWins`), and a unique violation
   has a visible winner. From it: `SeatsAreBookedOnce`, `ConfirmationIsWhole`,
   `WinnerIsFound`.
4. `ClaimInv`: the token of a row is the last one
   handed out (`RowTokens`), the tokens passes hold are not newer (`HeldTokens`)
   and no two passes hold the same one (`HeldApart`), and an owner's count is the
   row's (`CountIsFresh`). From it: `ClaimsAreExclusive`. `HistoryInv` adds that
   every attempt belongs to a claim already handed out, and to an earlier one
   than the current. From it: `ClaimsAreRecordedOnce`, `RejectionsAreJustified`.
5. `BudgetInv`: neither counter passes its maximum, and every
   claim but the current or deciding one is counted once. From it `BudgetsAreKept`,
   `ClaimsAreAccounted` and both together, `CountersAreExact`. `HistoryIsTrue` relates a
   counter to the cardinality of a set of positions in the history.
6. The refinement: every step maps to a step of the abstract
   lifecycle or to a stutter (`WorkImplementsLifecycle`), and answered requests
   never change (`DecisionsAreFinal`). The crux of the refinement is that
   `SeatsFree` means no overlap with a confirmed request, which is
   `ReservationIffConfirmed`, and that a rejection's winner is still confirmed,
   which is `ConflictWins`.
7. `ProcessorSignals_proofs`: every step is a step of the work or leaves it alone
   (`ReportingIsHarmless`), so layers 1 to 5 carry over. On top of them
   `SignalInv == DueInv /\ LogInv`: what is due belongs to a claim that was made
   and, when it is an outcome, is backed by the history (`DueInv`); the record of a
   claim a pass is at work on is untouched or open (`AtWork`), no two passes have
   the same claim to report (`Apart`), a span is open only while a pass has it
   (`OpenIsHeld`), and what was recorded is honest (`HonestLog`). History only
   grows, which keeps honest records honest. From it `SamplesComeFromHistory`,
   `SpansAreTrue`, `SpansAreClosed`, and all three, `SignalsAreTruthful`.

`InMemoryWork_proofs`: `CountInv` has, for each request, its budgets and its
failures, and for each pass that its claim was handed out and that, while it is the
current one, the failure count it has read is the row's; `QueueInv` that stored requests
are queued once, in order; `BookingInv` that the lookup of an open confirm may have
missed only reservations of confirms that were open with it (`LookupIsRecent`).
These hold for any number of passes. `SingleInv` is about one pass: it always owns
what it holds, what it knows of a conflict is still so (`ConflictWins`), and what it
found free stays free (`SeatsStayFree`). From them `MapsAreConsistent`,
`QueueIsServedInOrder`, `AwaitIsTheOnlyWindow` and the refinement
`MemoryImplementsLifecycle`.

`ConfirmLocks_proofs`: an entry has one holder and a transaction holds only seats
below its next one. Waiting therefore goes upwards (`WaitsUpwards`), and a group that
waited in a circle would have no least next seat: `NobodyWaitsInACircle`, by the
least element of a set of naturals. `ConfirmIsAtomic` is the refinement.

`RequestIntake_proofs` (any catalogue, actors, calls and requests; finitely many
seats; `None` is no actor): `IntakeInv` is about the rows (`StoreInv`: what is saved
can be served, and a seat is confirmed for one request), about what actors were shown
(`ToldIsTrue`: who was shown a final status may see the request, which has it still)
and about open calls (`CallsAreTrue`: a row that an open call read as final is final
now, and agrees with what its actor knew of it). The last is the heart of
`AnswersStayTrue`: a call reads the row and its seats in two statements, between which
workers decide. A count of seats is the number of rows because the two are in
bijection (`OneRowForEachSeat`). `SeatQueriesAlwaysAgree` needs no invariant: the
regrouping of the batch query gives back each screening's seats, for any catalogue.
Also `IntakeTypeCorrect` and `RequestsStayServable`.

`RequestSignals_proofs` (any requests, callers and deployments; `Absent` is no
request and no trace): a step is a step of one request and leaves the variables of
the others alone (`Kept`, `OthersAreLeftAlone`), so `SignalsInv` says of each request
by itself: what its store holds is made from its own headers, user and operation
(`StoreIsOwn`); each line it wrote is its own (`LinesAreOwn`); the plugin's flags
agree with the stage (`StageInv`) and are the numbers of the lines (`CountsInv`); the
saved work has its line (`WorkInv`). A line stays right because nothing is said of a
request before its operation is named (`Unsaid`). From it `SignalsTypeCorrect`,
`LinesKeepTheirRequest`, `OperationsAlwaysAddUp`, `WorkAlwaysContinuesTheTrace`.

`ServiceProcess_proofs`, part by part:

- `WorkerInv`: the interval the service knows is the only one, belongs to the pass in
  flight, and ends with it. From it `IntervalsAreKnown`, `ShutdownLeavesNothing` and
  `PassesAreOneByOne`, for any number of passes and late heartbeat answers.
- `EnvironmentsAreSoundWhenRead`: an environment with a value of its class for every
  variable (`WellFormed`) is started as a sound service, or refused before a transform
  throws; for each path of the refusal `Cure` names a value of the one variable that
  sets it with which the path is not reported any more (`IssuesCanBeMended`).
  `Environments` is built change by change from what is deployed; that each of them is
  well formed, for any `MaxChanges`, is an induction over the number of changes, done
  with the least counterexample (`NaturalsReached`). From it `EnvironmentsStaySound`:
  the run changes two variables, the theorem any number of them.
- `TelemetryInv`: the SDK is shut down at most once, by a race whose outcome is what
  the SDK or the timer did (`OneShutdown`), and what was emitted is what the race came
  to (`Reported`). From it `ShutdownIsReportedTruly`.
- `ProcessInv` is both, and what relates the parts (`Together`): there is no worker
  before the application, and an idle one until its bootstrap; the shutdown hooks are
  taken away only when the worker's has ended, and Node only ends the process on a
  signal that nobody listens to. From it `SignalsEndBetweenPasses` and
  `ProcessTypeCorrect`, for any number of signals.

The audit modules are proved for any number of requests, any responses, any
configurations and any buffer bound, under the assumptions on the bus and the
recorder stated above:

- `PublisherInv` (in `AuthenticationAudit_proofs`, as all of this): types, a call has a result
  exactly when it has returned (`ResultWhenReturned`), and the properties
  themselves. The crux is `InspectionIsSound`: only a response that follows the
  contract yields an acceptance or a verdict, so only then the bus's truth is
  needed. From it `AcceptanceIsTrue`, `VerdictsAreTrue`, both together
  (`ResultsTellTheTruth`), `CallsCleanUp`, and with `ResultStep` also `ResultsAreFinal`.
- `AuditInv`: every step of the service is a
  publisher step or leaves the publisher alone, so `PublisherInv` carries over;
  `FlowInv` says for each phase what a request has decided, heard and logged,
  `LineFlow` what its line may be, `BufferInv` that the lines that wait are
  pending and distinct, `SamplesInv` that the metrics are cardinalities. From it
  `PendingIsBounded`, `NoLossIsSilent`, `AlertingSignal`, `CopyOnly`, and, with
  `AcceptedIsKept`, the refinement `DecisionsStand`.

The other type invariants and the weaker properties that the proofs establish for every size
are not repeated in the runs.

Every safety property of a passing run is proved. Only model-checked: all liveness
(`EveryRequestAnswered`, `EverySpanEnds`, `EveryConfirmEnds`, `EveryCheckAnswered`,
`EveryOperationIsCounted`, `NothingWaitsForTelemetry`, `ClosingEndsTheProcess`,
`WorkerGoesOn`), which is beyond the prover; and the two violations, which TLC finds.

## Not modelled, and why

- The event builder of the audit SDK, the mapping of GraphQL fields, the parsing of
  tokens and claims: pure construction of values no property tells apart. The
  recorder feeds the builder sanitised values.
- Fixtures, seeds, the migration runner and the health probe: constant data and
  one-shot scripts. Of the schema, the unique seat index, the composite keys of the
  catalogue as `RequestIntake` uses them, and the columns of the worker are there;
  check constraints repeat what the domain enforces.
- A crash that loses buffered audit lines: the documentation accepts that loss.
  Likewise the process may end before telemetry is flushed.
- Budgets that change between restarts. They are constants here; a row above a
  lowered budget is a case of its own in the claim query.
- The double booking of two in-memory confirms is possible only when two passes
  share a store, which the service never composes; `DoubleBookingNeedsOpenConfirms`
  says exactly what stands between.
- The fields of one document are resolved concurrently, so a single document may
  show `CONFIRMED` with a null `reservationResult`. `AnswersAreTrue` speaks of reads
  that start after an answer.
- `findSeatsByScreeningIds` treats screenings of other providers differently in the
  two adapters; the resolver shows the same for both (`SeatQueriesAgree`).
- A request that fails for good by lease timeouts is failed by the claim query and
  is in no outcome sample.
- Apollo, Nest, Knex, PostgreSQL, EventBridge and the OpenTelemetry SDK are modelled
  as the code in `src/` uses them.
