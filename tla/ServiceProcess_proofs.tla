------------------------- MODULE ServiceProcess_proofs -------------------------
(***************************************************************************)
(* The proofs about one process of the service, part by part:              *)
(*                                                                         *)
(* The callbacks of a worker share four fields.  What keeps them in step   *)
(* is that a poll is scheduled only when no pass is left: then there is no *)
(* interval either, and a late answer can only clear the interval of the   *)
(* pass that is in flight now.                                             *)
(*                                                                         *)
(* Every environment a service can be started in, however many variables   *)
(* were changed, has a value of its class for every variable; whatever     *)
(* such an environment holds, config.ts and the modules make a sound       *)
(* service of it or refuse it, and name what one change can mend.          *)
(*                                                                         *)
(* The telemetry SDK is shut down once, and the race of its shutdown and   *)
(* the timeout decides what is reported.                                   *)
(*                                                                         *)
(* A process that a signal ends has no worker at work: before the hooks    *)
(* are registered there is no worker, and they are only taken away again   *)
(* when its shutdown has resolved.                                         *)
(***************************************************************************)
EXTENDS ServiceProcess, WellFoundedInduction, TLAPS

-----------------------------------------------------------------------------
(* The worker. *)

\* The service knows its pass, and there is no other.
OnePass == \A t \in Tokens : t \in passes <=> t = inFlight

\* A poll is only scheduled between two passes, and never during a shutdown.
PollBetweenPasses == pollTimer => inFlight = None /\ ~stopping

\* A resolved shutdown stays resolved: it has waited for the pass in flight.
StoppedForGood == stopped => stopping /\ inFlight = None

WorkerInv == TypeOK /\ OnePass /\ NoLeakedInterval /\ PollBetweenPasses /\ StoppedForGood

Booleans == /\ pollTimer \in BOOLEAN /\ stopping \in BOOLEAN
            /\ stopped \in BOOLEAN /\ crashed \in BOOLEAN

LEMMA TypesAre ==
  TypeOK <=> /\ Booleans
             /\ heartbeatTimer \in Tokens \cup {None} /\ inFlight \in Tokens \cup {None}
             /\ intervals \subseteq Tokens /\ passes \subseteq Tokens
             /\ claimed \subseteq Tokens /\ owned \subseteq Tokens
             /\ beats \subseteq Beat
  BY DEF TypeOK, Booleans

LEMMA TypesAreNext ==
  TypeOK' <=> /\ Booleans'
              /\ heartbeatTimer' \in Tokens \cup {None} /\ inFlight' \in Tokens \cup {None}
              /\ intervals' \subseteq Tokens /\ passes' \subseteq Tokens
              /\ claimed' \subseteq Tokens /\ owned' \subseteq Tokens
              /\ beats' \subseteq Beat
  BY DEF TypeOK, Booleans

LEMMA InitInv == Init => WorkerInv
  BY NoneAssumption
  DEF Init, WorkerInv, TypeOK, OnePass, NoLeakedInterval, PollBetweenPasses, StoppedForGood

LEMMA StartPassInv == ASSUME WorkerInv, NEW t \in Tokens, StartPass(t) PROVE WorkerInv'
<1> USE DEF WorkerInv, StartPass
<1>1. inFlight = None /\ ~stopping
  BY DEF PollBetweenPasses
<1>2. passes = {} /\ intervals = {}
  BY <1>1, NoneAssumption DEF TypeOK, OnePass, NoLeakedInterval
<1>3. pollTimer' = FALSE /\ UNCHANGED <<beats, stopping, stopped, crashed>>
  OBVIOUS
<1>4. Booleans'
  BY <1>3, TypesAre DEF Booleans
<1>5. TypeOK'
  BY <1>3, <1>4, TypesAre, TypesAreNext
<1>6. OnePass' /\ NoLeakedInterval'
  BY <1>2 DEF OnePass, NoLeakedInterval
<1>7. PollBetweenPasses' /\ StoppedForGood'
  BY <1>1, <1>3 DEF PollBetweenPasses, StoppedForGood
<1> QED BY <1>5, <1>6, <1>7

\* Steps that leave timers, passes and shutdown alone.
LEMMA AsideInv ==
  ASSUME WorkerInv, UNCHANGED <<pollTimer, heartbeatTimer, intervals, passes, inFlight,
                           stopping, stopped, crashed>>,
         claimed' \subseteq Tokens, owned' \subseteq Tokens, beats' \subseteq Beat
  PROVE  WorkerInv'
<1>1. Booleans'
  BY TypesAre DEF WorkerInv, Booleans
<1>2. TypeOK'
  BY <1>1, TypesAre, TypesAreNext DEF WorkerInv
<1>3. OnePass' /\ NoLeakedInterval' /\ PollBetweenPasses' /\ StoppedForGood'
  BY DEF WorkerInv, OnePass, NoLeakedInterval, PollBetweenPasses, StoppedForGood
<1> QED BY <1>2, <1>3 DEF WorkerInv

LEMMA ClaimInv ==
  ASSUME WorkerInv, NEW t \in Tokens, OnClaimed(t) \/ EndClaim(t) PROVE WorkerInv'
<1>1. claimed' \subseteq Tokens /\ owned' \subseteq Tokens /\ beats' \subseteq Beat
  BY TypesAre DEF WorkerInv, OnClaimed, EndClaim
<1> QED BY <1>1, AsideInv DEF OnClaimed, EndClaim

LEMMA SendBeatInv == ASSUME WorkerInv, NEW t \in Tokens, SendBeat(t) PROVE WorkerInv'
<1>1. claimed' \subseteq Tokens /\ owned' \subseteq Tokens /\ beats' \subseteq Beat
  BY TypesAre DEF WorkerInv, SendBeat, Beat
<1> QED BY <1>1, AsideInv DEF SendBeat

LEMMA AnswerBeatInv == ASSUME WorkerInv, NEW b \in beats, AnswerBeat(b) PROVE WorkerInv'
<1>1. b \in Beat
  BY TypesAre DEF WorkerInv
<1>2. [b EXCEPT !.answer = IF b.pass \in owned THEN "renewed" ELSE "lost"] \in Beat
  BY <1>1 DEF Beat
<1>3. claimed' \subseteq Tokens /\ owned' \subseteq Tokens /\ beats' \subseteq Beat
  BY <1>2, TypesAre DEF WorkerInv, AnswerBeat
<1> QED BY <1>3, AsideInv DEF AnswerBeat

\* clearInterval: whatever it is called for, only the known interval goes.
LEMMA ClearedTypes ==
  ASSUME WorkerInv, ClearHeartbeatTimer
  PROVE  /\ intervals' = {}
         /\ heartbeatTimer' = None
<1>1. \A t \in intervals : t = heartbeatTimer
  BY DEF WorkerInv, NoLeakedInterval
<1> QED BY <1>1 DEF ClearHeartbeatTimer

LEMMA EndPassInv == ASSUME WorkerInv, NEW t \in Tokens, EndPass(t) PROVE WorkerInv'
<1>1. passes' = {} /\ inFlight' = None
  BY TypesAre DEF WorkerInv, OnePass, EndPass, ForgetPass
<1>2. intervals' = {} /\ heartbeatTimer' = None
  BY ClearedTypes DEF EndPass, EndHeartbeats
<1>3. UNCHANGED <<claimed, owned, beats, stopping, stopped, crashed>>
  BY DEF EndPass
<1>4. pollTimer' = (pollTimer \/ ~stopping)
  BY DEF EndPass, ScheduleNextPoll
<1>5. Booleans'
  BY <1>3, <1>4, TypesAre, Zenon DEF WorkerInv, Booleans
<1>6. TypeOK'
  BY <1>1, <1>2, <1>3, <1>5, TypesAre, TypesAreNext DEF WorkerInv
<1>7. OnePass' /\ NoLeakedInterval'
  BY <1>1, <1>2, NoneAssumption DEF OnePass, NoLeakedInterval
<1>8. StoppedForGood'
  BY <1>1, <1>3 DEF WorkerInv, StoppedForGood
<1>9. PollBetweenPasses'
  BY <1>1, <1>3, <1>4 DEF WorkerInv, PollBetweenPasses
<1> QED BY <1>6, <1>7, <1>8, <1>9 DEF WorkerInv

LEMMA ReceiveAnswerInv == ASSUME WorkerInv, NEW b \in beats, ReceiveAnswer(b) PROVE WorkerInv'
<1>1. UNCHANGED <<pollTimer, passes, inFlight, claimed, owned, stopping, stopped, crashed>>
  BY DEF ReceiveAnswer
<1>2. beats' \subseteq Beat
  BY TypesAre DEF WorkerInv, ReceiveAnswer
<1>3. intervals' \subseteq intervals
  BY ClearedTypes DEF ReceiveAnswer
<1>4. \/ UNCHANGED <<intervals, heartbeatTimer>>
      \/ intervals' = {} /\ heartbeatTimer' = None
  BY ClearedTypes DEF ReceiveAnswer
<1>5. Booleans'
  BY <1>1, TypesAre DEF WorkerInv, Booleans
<1>6. TypeOK'
  BY <1>1, <1>2, <1>4, <1>5, TypesAre, TypesAreNext DEF WorkerInv
<1>7. OnePass' /\ PollBetweenPasses' /\ StoppedForGood'
  BY <1>1 DEF WorkerInv, OnePass, PollBetweenPasses, StoppedForGood
<1>8. NoLeakedInterval'
  BY <1>1, <1>4 DEF WorkerInv, NoLeakedInterval
<1> QED BY <1>6, <1>7, <1>8 DEF WorkerInv

LEMMA BeatRejectsInv == ASSUME WorkerInv, NEW b \in beats, BeatRejects(b) PROVE WorkerInv'
<1>1. /\ pollTimer' = FALSE /\ crashed' = TRUE
      /\ passes' = {} /\ inFlight' = None /\ intervals' = {} /\ heartbeatTimer' = None
      /\ beats' = {} /\ UNCHANGED <<claimed, owned, stopping, stopped>>
  BY DEF BeatRejects
<1>2. Booleans'
  BY <1>1, TypesAre DEF WorkerInv, Booleans
<1>3. TypeOK'
  BY <1>1, <1>2, TypesAre, TypesAreNext DEF WorkerInv
<1>4. OnePass' /\ NoLeakedInterval'
  BY <1>1, NoneAssumption DEF OnePass, NoLeakedInterval
<1>5. PollBetweenPasses' /\ StoppedForGood'
  BY <1>1 DEF WorkerInv, PollBetweenPasses, StoppedForGood
<1> QED BY <1>3, <1>4, <1>5 DEF WorkerInv

LEMMA ShutdownInv == ASSUME WorkerInv, Shutdown PROVE WorkerInv'
<1>1. /\ stopping' = TRUE /\ pollTimer' = FALSE
      /\ UNCHANGED <<passes, inFlight, claimed, owned, beats, stopped, crashed>>
  BY DEF Shutdown
<1>2. intervals' = {} /\ heartbeatTimer' = None
  BY ClearedTypes DEF Shutdown
<1>3. Booleans'
  BY <1>1, TypesAre DEF WorkerInv, Booleans
<1>4. TypeOK'
  BY <1>1, <1>2, <1>3, TypesAre, TypesAreNext DEF WorkerInv
<1>5. OnePass' /\ NoLeakedInterval'
  BY <1>1, <1>2 DEF WorkerInv, OnePass, NoLeakedInterval
<1>6. PollBetweenPasses' /\ StoppedForGood'
  BY <1>1 DEF WorkerInv, PollBetweenPasses, StoppedForGood
<1> QED BY <1>4, <1>5, <1>6 DEF WorkerInv

LEMMA ShutdownResolvesInv == ASSUME WorkerInv, ShutdownResolves PROVE WorkerInv'
<1>1. /\ stopping /\ inFlight = None /\ stopped' = TRUE
      /\ UNCHANGED <<pollTimer, heartbeatTimer, intervals, passes, inFlight, claimed,
                     owned, beats, stopping, crashed>>
  BY DEF ShutdownResolves
<1>2. Booleans'
  BY <1>1, TypesAre DEF WorkerInv, Booleans
<1>3. TypeOK'
  BY <1>1, <1>2, TypesAre, TypesAreNext DEF WorkerInv
<1>4. OnePass' /\ NoLeakedInterval' /\ PollBetweenPasses'
  BY <1>1 DEF WorkerInv, OnePass, NoLeakedInterval, PollBetweenPasses
<1>5. StoppedForGood'
  BY <1>1 DEF StoppedForGood
<1> QED BY <1>3, <1>4, <1>5 DEF WorkerInv

LEMMA StepInv == WorkerInv /\ [Next]_vars => WorkerInv'
<1> SUFFICES ASSUME WorkerInv, [Next]_vars PROVE WorkerInv'
  OBVIOUS
<1>1. ASSUME NEW t \in Tokens, StartPass(t) PROVE WorkerInv'
  BY <1>1, StartPassInv
<1>2. ASSUME NEW t \in Tokens, OnClaimed(t) \/ EndClaim(t) PROVE WorkerInv'
  BY <1>2, ClaimInv
<1>3. ASSUME NEW t \in Tokens, EndPass(t) PROVE WorkerInv'
  BY <1>3, EndPassInv
<1>4. ASSUME NEW t \in Tokens, SendBeat(t) PROVE WorkerInv'
  BY <1>4, SendBeatInv
<1>5. ASSUME NEW b \in beats, AnswerBeat(b) PROVE WorkerInv'
  BY <1>5, AnswerBeatInv
<1>6. ASSUME NEW b \in beats, ReceiveAnswer(b) PROVE WorkerInv'
  BY <1>6, ReceiveAnswerInv
<1>7. ASSUME NEW b \in beats, BeatRejects(b) PROVE WorkerInv'
  BY <1>7, BeatRejectsInv
<1>8. CASE Shutdown
  BY <1>8, ShutdownInv
<1>9. CASE ShutdownResolves
  BY <1>9, ShutdownResolvesInv
<1>10. CASE UNCHANGED vars
  <2>1. claimed' \subseteq Tokens /\ owned' \subseteq Tokens /\ beats' \subseteq Beat
    BY <1>10, TypesAre DEF WorkerInv, vars
  <2> QED BY <1>10, <2>1, AsideInv DEF vars
<1> QED
  BY <1>1, <1>2, <1>3, <1>4, <1>5, <1>6, <1>7, <1>8, <1>9, <1>10 DEF Next

LEMMA WorkerInvariant == Spec => []WorkerInv
  BY InitInv, StepInv, PTL DEF Spec

LEMMA NothingLeft ==
  ASSUME WorkerInv, passes = {} PROVE intervals = {}
  BY DEF WorkerInv, NoLeakedInterval

LEMMA StoppedLeavesNothing == WorkerInv => ShutdownIsComplete
<1> SUFFICES ASSUME WorkerInv, stopped PROVE passes = {} /\ intervals = {} /\ ~pollTimer
  BY DEF ShutdownIsComplete
<1>1. stopping /\ inFlight = None
  BY DEF WorkerInv, StoppedForGood
<1>2. passes = {}
  BY <1>1, TypesAre, NoneAssumption DEF WorkerInv, OnePass
<1>3. intervals = {}
  BY <1>2, NothingLeft
<1>4. ~pollTimer
  BY <1>1 DEF WorkerInv, PollBetweenPasses
<1> QED BY <1>2, <1>3, <1>4

\* Every variable of the worker has its type, and a heartbeat always names a
\* claimed work item, for any number of passes and heartbeats.
THEOREM WorkerTypeCorrect == Spec => []TypeOK
<1>1. WorkerInv => TypeOK
  BY DEF WorkerInv
<1> QED BY <1>1, WorkerInvariant, PTL

\* The timers of fake-reservation-request-worker.service.ts: no interval outlives
\* its pass or is forgotten, however late the answers to heartbeats come.
THEOREM IntervalsAreKnown == Spec => []NoLeakedInterval
<1>1. WorkerInv => NoLeakedInterval
  BY DEF WorkerInv
<1> QED BY <1>1, WorkerInvariant, PTL

\* When onApplicationShutdown has resolved, nothing of the worker is left.
THEOREM ShutdownLeavesNothing == Spec => []ShutdownIsComplete
  BY StoppedLeavesNothing, WorkerInvariant, PTL

\* scheduleNextPoll and onApplicationShutdown: no pass starts once a shutdown was
\* requested, and none while another is in flight.
THEOREM PassesAreOneByOne == Spec => NoPassAfterShutdown
<1>1. ASSUME WorkerInv, [Next]_vars
      PROVE  [\A t \in Tokens : t \in passes' \ passes => ~stopping /\ passes = {}]_vars
  <2>1. ASSUME NEW u \in Tokens, StartPass(u), NEW t \in Tokens
        PROVE  ~stopping /\ passes = {}
    <3>1. inFlight = None /\ ~stopping
      BY <1>1, <2>1 DEF WorkerInv, PollBetweenPasses, StartPass
    <3>2. passes = {}
      BY <1>1, <3>1, TypesAre, NoneAssumption DEF WorkerInv, OnePass
    <3> QED BY <3>1, <3>2
  <2>2. \/ \E u \in Tokens : StartPass(u)
        \/ passes' \subseteq passes
        \/ UNCHANGED vars
    BY <1>1 DEF Next, OnClaimed, EndClaim, EndPass, SendBeat, AnswerBeat, ReceiveAnswer,
                BeatRejects, Shutdown, ShutdownResolves
  <2> QED BY <2>1, <2>2
<1> QED BY <1>1, WorkerInvariant, PTL DEF Spec, NoPassAfterShutdown

-----------------------------------------------------------------------------
(* The environments. *)

\* Induction over a set of natural numbers.
LEMMA NaturalsReached ==
  ASSUME NEW S, S \subseteq Nat, 0 \in S, \A n \in S : n + 1 \in S
  PROVE  Nat \subseteq S
<1> SUFFICES ASSUME Nat \ S # {} PROVE FALSE
  OBVIOUS
<1> DEFINE Below == {pair \in Nat \X Nat : pair[1] < pair[2]}
<1>1. IsWellFoundedOn(Below, Nat)
  BY NatLessThanWellFounded DEF OpToRel
<1>2. PICK n \in Nat \ S : \A k \in Nat \ S : <<k, n>> \notin Below
  <2> HIDE DEF Below
  <2> QED BY <1>1, WFMin
<1>3. n # 0 /\ n - 1 \in Nat
  BY <1>2
<1>4. n - 1 \notin S
  BY <1>2, <1>3
<1>5. <<n - 1, n>> \in Below
  BY <1>2, <1>3
<1> QED BY <1>2, <1>3, <1>4, <1>5

\* What every environment is: a value of its class for every variable.
WellFormed(e) ==
  /\ e = [name \in Names |-> e[name]]
  /\ \A name \in Names : e[name] \in Domain[name]

LEMMA ChangeIsWellFormed ==
  ASSUME NEW e, WellFormed(e), NEW name \in Names, NEW value \in Domain[name]
  PROVE  WellFormed([e EXCEPT ![name] = value])
  BY DEF WellFormed

LEMMA DefaultIsWellFormed == WellFormed(Default)
<1>1. Default = [name \in Names |-> Default[name]]
  BY DEF Default, Names, Domain
<1>2. /\ Default["COMPOSITION_PROFILE"] \in Domain["COMPOSITION_PROFILE"]
      /\ Default["NODE_ENV"] \in Domain["NODE_ENV"]
      /\ Default["DATABASE_URL"] \in Domain["DATABASE_URL"]
      /\ Default["DATABASE_POOL_MIN"] \in Domain["DATABASE_POOL_MIN"]
      /\ Default["DATABASE_POOL_MAX"] \in Domain["DATABASE_POOL_MAX"]
      /\ Default["RESERVATION_WORKER_MODE"] \in Domain["RESERVATION_WORKER_MODE"]
      /\ Default["RESERVATION_WORKER_LEASE"] \in Domain["RESERVATION_WORKER_LEASE"]
      /\ Default["RESERVATION_WORKER_HEARTBEAT_INTERVAL"] \in Domain["RESERVATION_WORKER_HEARTBEAT_INTERVAL"]
      /\ Default["RESERVATION_WORKER_MAX_TRANSIENT_FAILURES"] \in Domain["RESERVATION_WORKER_MAX_TRANSIENT_FAILURES"]
      /\ Default["RESERVATION_FAILURE_INJECTION_MODE"] \in Domain["RESERVATION_FAILURE_INJECTION_MODE"]
      /\ Default["RESERVATION_FAILURE_INJECTION_RATE"] \in Domain["RESERVATION_FAILURE_INJECTION_RATE"]
      /\ Default["RESERVATION_FAILURE_INJECTION_SALT"] \in Domain["RESERVATION_FAILURE_INJECTION_SALT"]
      /\ Default["DEMO_AUTH_ENABLED"] \in Domain["DEMO_AUTH_ENABLED"]
      /\ Default["DEMO_AUTH_USERNAME"] \in Domain["DEMO_AUTH_USERNAME"]
      /\ Default["DEMO_AUTH_PASSWORD"] \in Domain["DEMO_AUTH_PASSWORD"]
      /\ Default["AUDIT_PUBLISHER"] \in Domain["AUDIT_PUBLISHER"]
      /\ Default["AUDIT_EVENT_BUS_ARN"] \in Domain["AUDIT_EVENT_BUS_ARN"]
      /\ Default["AUDIT_PUBLISH_TIMEOUT_MS"] \in Domain["AUDIT_PUBLISH_TIMEOUT_MS"]
      /\ Default["AUDIT_STDOUT_COMPARISON_MIRROR"] \in Domain["AUDIT_STDOUT_COMPARISON_MIRROR"]
      /\ Default["ENABLE_GRAPHIQL"] \in Domain["ENABLE_GRAPHIQL"]
  BY DEF Default, Domain, Profiles
<1>3. Names = {"COMPOSITION_PROFILE", "NODE_ENV", "DATABASE_URL", "DATABASE_POOL_MIN", "DATABASE_POOL_MAX", "RESERVATION_WORKER_MODE", "RESERVATION_WORKER_LEASE", "RESERVATION_WORKER_HEARTBEAT_INTERVAL", "RESERVATION_WORKER_MAX_TRANSIENT_FAILURES", "RESERVATION_FAILURE_INJECTION_MODE", "RESERVATION_FAILURE_INJECTION_RATE", "RESERVATION_FAILURE_INJECTION_SALT", "DEMO_AUTH_ENABLED", "DEMO_AUTH_USERNAME", "DEMO_AUTH_PASSWORD", "AUDIT_PUBLISHER", "AUDIT_EVENT_BUS_ARN", "AUDIT_PUBLISH_TIMEOUT_MS", "AUDIT_STDOUT_COMPARISON_MIRROR", "ENABLE_GRAPHIQL"}
  BY DEF Names, Domain
<1>4. \A name \in Names : Default[name] \in Domain[name]
  BY <1>2, <1>3
<1> QED BY <1>1, <1>4 DEF WellFormed

LEMMA DeployedAreWellFormed == WellFormed(Deployed) /\ WellFormed(Production)
<1>1. /\ "eventbridge" \in Domain["AUDIT_PUBLISHER"]
      /\ "arn" \in Domain["AUDIT_EVENT_BUS_ARN"]
      /\ TRUE \in Domain["AUDIT_STDOUT_COMPARISON_MIRROR"]
      /\ "production" \in Domain["NODE_ENV"]
      /\ "url" \in Domain["DATABASE_URL"]
      /\ "production-oidc" \in Domain["COMPOSITION_PROFILE"]
  BY DEF Domain, Profiles
<1>2. {"AUDIT_PUBLISHER", "AUDIT_EVENT_BUS_ARN", "AUDIT_STDOUT_COMPARISON_MIRROR", "NODE_ENV",
       "DATABASE_URL", "COMPOSITION_PROFILE"} \subseteq Names
  BY DEF Names, Domain
<1> DEFINE eventbridge == [Default EXCEPT !["AUDIT_PUBLISHER"] = "eventbridge"]
           arn == [eventbridge EXCEPT !["AUDIT_EVENT_BUS_ARN"] = "arn"]
           oidc == [Default EXCEPT !["NODE_ENV"] = "production"]
           url == [oidc EXCEPT !["DATABASE_URL"] = "url"]
<1>3. WellFormed(eventbridge) /\ WellFormed(oidc)
  BY <1>1, <1>2, DefaultIsWellFormed, ChangeIsWellFormed
<1>4. WellFormed(arn) /\ WellFormed(url)
  <2> HIDE DEF eventbridge, oidc
  <2> QED BY <1>1, <1>2, <1>3, ChangeIsWellFormed
<1>5. Deployed = [arn EXCEPT !["AUDIT_STDOUT_COMPARISON_MIRROR"] = TRUE]
  BY DEF Deployed
<1>6. Production = [url EXCEPT !["COMPOSITION_PROFILE"] = "production-oidc"]
  BY DEF Production
<1> HIDE DEF arn, url
<1> QED BY <1>1, <1>2, <1>4, <1>5, <1>6, ChangeIsWellFormed

LEMMA ChangedOnceIsWellFormed ==
  ASSUME NEW e, WellFormed(e), NEW f \in ChangedOnce(e) PROVE WellFormed(f)
<1>1. PICK name \in Names : \E value \in Domain[name] : f = [e EXCEPT ![name] = value]
  BY DEF ChangedOnce
<1> QED BY <1>1, ChangeIsWellFormed

LEMMA EnvironmentsAreWellFormed == \A e \in Environments : WellFormed(e)
<1> DEFINE Bases == {Default, Deployed, Production}
           Once(E) == UNION {ChangedOnce(e) : e \in E}
           Near(m, f) == f = [n \in 0..m |-> IF n = 0 THEN Bases ELSE Once(f[n - 1])]
           Reach == {m \in Nat : \E f : Near(m, f)}
<1>1. MaxChanges \in Reach
  <2>1. 0 \in Reach
    <3>1. Near(0, [n \in 0..0 |-> Bases])
      OBVIOUS
    <3> HIDE DEF Near
    <3> QED BY <3>1
  <2>2. ASSUME NEW m \in Reach PROVE m + 1 \in Reach
    <3>1. PICK f : Near(m, f)
      OBVIOUS
    <3> DEFINE g == [n \in 0..(m + 1) |-> IF n = m + 1 THEN Once(f[m]) ELSE f[n]]
    <3>2. Near(m + 1, g)
      <4> SUFFICES ASSUME NEW n \in 0..(m + 1)
                   PROVE  g[n] = IF n = 0 THEN Bases ELSE Once(g[n - 1])
        OBVIOUS
      <4> HIDE DEF Once, Bases
      <4> QED BY <3>1
    <3> HIDE DEF Near
    <3> QED BY <3>2
  <2> HIDE DEF Reach
  <2>3. Reach \subseteq Nat
    BY DEF Reach
  <2> QED BY <2>1, <2>2, <2>3, NaturalsReached, MaxChangesAssumption
<1>2. \E f : Near(MaxChanges, f)
  BY <1>1
<1> DEFINE near == CHOOSE f : Near(MaxChanges, f)
<1>3. Near(MaxChanges, near)
  <2> HIDE DEF Near
  <2> QED BY <1>2
<1>4. Environments = near[MaxChanges]
  BY DEF Environments
<1> DEFINE Good == {n \in Nat : n \in 0..MaxChanges => \A e \in near[n] : WellFormed(e)}
<1> HIDE DEF near
<1>5. 0 \in Good
  BY <1>3, DefaultIsWellFormed, DeployedAreWellFormed
<1>6. ASSUME NEW n \in Good PROVE n + 1 \in Good
  <2> SUFFICES ASSUME n + 1 \in 0..MaxChanges, NEW e \in near[n + 1] PROVE WellFormed(e)
    BY MaxChangesAssumption
  <2>1. n \in 0..MaxChanges
    BY MaxChangesAssumption
  <2>2. e \in Once(near[n])
    BY <1>3, MaxChangesAssumption
  <2> QED BY <2>1, <2>2, ChangedOnceIsWellFormed
<1> HIDE DEF Good
<1>7. MaxChanges \in Good
  <2>1. Good \subseteq Nat
    BY DEF Good
  <2> QED BY <1>5, <1>6, <2>1, NaturalsReached, MaxChangesAssumption
<1> QED BY <1>4, <1>7 DEF Good

LEMMA WellFormedValues ==
  ASSUME NEW e, WellFormed(e)
  PROVE  /\ e.DATABASE_POOL_MIN \in Nat /\ e.DATABASE_POOL_MAX \in Nat
         /\ e.RESERVATION_WORKER_LEASE \in Nat
         /\ e.RESERVATION_WORKER_HEARTBEAT_INTERVAL \in Nat
         /\ e.RESERVATION_WORKER_MAX_TRANSIENT_FAILURES \in Nat
         /\ e.DEMO_AUTH_ENABLED \in BOOLEAN
         /\ e.AUDIT_PUBLISHER \in {"stdout", "eventbridge"}
         /\ e.AUDIT_EVENT_BUS_ARN \in {"undefined", "blank", "malformed", "arn"}
         /\ e.RESERVATION_FAILURE_INJECTION_MODE \in {"disabled", "stable-random-unexpected-error"}
<1>1. {"DATABASE_POOL_MIN", "DATABASE_POOL_MAX", "RESERVATION_WORKER_LEASE",
       "RESERVATION_WORKER_HEARTBEAT_INTERVAL", "RESERVATION_WORKER_MAX_TRANSIENT_FAILURES",
       "DEMO_AUTH_ENABLED", "AUDIT_PUBLISHER", "AUDIT_EVENT_BUS_ARN",
       "RESERVATION_FAILURE_INJECTION_MODE"} \subseteq Names
  BY DEF Names, Domain
<1>2. /\ e["DATABASE_POOL_MIN"] \in Domain["DATABASE_POOL_MIN"]
      /\ e["DATABASE_POOL_MAX"] \in Domain["DATABASE_POOL_MAX"]
      /\ e["RESERVATION_WORKER_LEASE"] \in Domain["RESERVATION_WORKER_LEASE"]
      /\ e["RESERVATION_WORKER_HEARTBEAT_INTERVAL"] \in Domain["RESERVATION_WORKER_HEARTBEAT_INTERVAL"]
      /\ e["RESERVATION_WORKER_MAX_TRANSIENT_FAILURES"] \in
           Domain["RESERVATION_WORKER_MAX_TRANSIENT_FAILURES"]
      /\ e["DEMO_AUTH_ENABLED"] \in Domain["DEMO_AUTH_ENABLED"]
      /\ e["AUDIT_PUBLISHER"] \in Domain["AUDIT_PUBLISHER"]
      /\ e["AUDIT_EVENT_BUS_ARN"] \in Domain["AUDIT_EVENT_BUS_ARN"]
      /\ e["RESERVATION_FAILURE_INJECTION_MODE"] \in Domain["RESERVATION_FAILURE_INJECTION_MODE"]
  BY <1>1 DEF WellFormed
<1> QED BY <1>2 DEF Domain

\* Where an issue can be: a schema or a condition of superRefine reports each.
IssuePaths == {"DATABASE_URL", "DATABASE_POOL_MAX", "RESERVATION_WORKER_LEASE",
  "RESERVATION_WORKER_HEARTBEAT_INTERVAL", "RESERVATION_WORKER_MAX_TRANSIENT_FAILURES",
  "RESERVATION_FAILURE_INJECTION_RATE", "RESERVATION_FAILURE_INJECTION_SALT",
  "AUDIT_PUBLISH_TIMEOUT_MS", "DEMO_AUTH_ENABLED", "DEMO_AUTH_USERNAME", "DEMO_AUTH_PASSWORD",
  "AUTH_MODE", "RESERVATION_WORKER_MODE", "AUDIT_EVENT_BUS_ARN"}

LEMMA IssuesHavePaths == \A e : Issues(e) \subseteq IssuePaths
<1>1. \A e : FieldIssues(e) \subseteq IssuePaths
  BY DEF FieldIssues, IssuePaths
<1>2. \A e : RefineIssues(e) \subseteq IssuePaths
  BY DEF RefineIssues, IssuePaths
<1> QED BY <1>1, <1>2 DEF Issues

\* The value that mends what is reported under a path.
Cure(e, path) ==
  CASE path = "DATABASE_URL" -> "url"
    [] path = "DATABASE_POOL_MAX" -> 6
    [] path = "RESERVATION_WORKER_LEASE" -> 3
    [] path = "RESERVATION_WORKER_HEARTBEAT_INTERVAL" -> 1
    [] path = "RESERVATION_WORKER_MAX_TRANSIENT_FAILURES" -> 3
    [] path = "RESERVATION_FAILURE_INJECTION_RATE" ->
         IF e.RESERVATION_FAILURE_INJECTION_MODE = "disabled" THEN 0 ELSE 1
    [] path = "RESERVATION_FAILURE_INJECTION_SALT" -> "salt"
    [] path = "AUDIT_PUBLISH_TIMEOUT_MS" -> 1000
    [] path = "DEMO_AUTH_ENABLED" -> FALSE
    [] path = "DEMO_AUTH_USERNAME" -> "name"
    [] path = "DEMO_AUTH_PASSWORD" -> "password"
    [] path = "AUTH_MODE" -> "production-oidc"
    [] path = "RESERVATION_WORKER_MODE" -> "disabled"
    [] path = "AUDIT_EVENT_BUS_ARN" -> "arn"

LEMMA AcceptedEnvironments ==
  ASSUME NEW e, WellFormed(e), Issues(e) = {}
  PROVE  /\ ~TransformThrows(e) /\ ~DatabaseThrows(e)
         /\ ~LocalAuthIsGuarded(e) /\ ~HeartbeatTooSlow(e)
         /\ e.DATABASE_POOL_MAX >= e.DATABASE_POOL_MIN /\ e.DATABASE_POOL_MAX > 0
         /\ e.RESERVATION_WORKER_HEARTBEAT_INTERVAL > 0
         /\ e.RESERVATION_WORKER_MAX_TRANSIENT_FAILURES > 0
<1>1. FieldIssues(e) = {} /\ RefineIssues(e) = {}
  BY DEF Issues
<1>2. {"DEMO_AUTH_USERNAME", "DEMO_AUTH_PASSWORD", "DATABASE_URL",
       "DATABASE_POOL_MAX", "AUDIT_EVENT_BUS_ARN", "RESERVATION_WORKER_HEARTBEAT_INTERVAL",
       "RESERVATION_WORKER_MAX_TRANSIENT_FAILURES",
       "RESERVATION_FAILURE_INJECTION_SALT"} \subseteq Names
  BY DEF Names, Domain
<1>3. /\ ~(e["DATABASE_POOL_MAX"] < 1)
      /\ ~(e["RESERVATION_WORKER_HEARTBEAT_INTERVAL"] < 1)
      /\ ~(e["RESERVATION_WORKER_MAX_TRANSIENT_FAILURES"] < 1)
  <2>1. \A name \in Names : name \notin FieldIssues(e)
    BY <1>1
  <2>2. ASSUME NEW name \in Names, e[name] < 1,
               name \in {"DATABASE_POOL_MAX", "RESERVATION_WORKER_HEARTBEAT_INTERVAL",
                         "RESERVATION_WORKER_MAX_TRANSIENT_FAILURES"}
        PROVE  name \in FieldIssues(e)
    BY <2>2 DEF FieldIssues
  <2> QED BY <1>2, <2>1, <2>2
<1>4. /\ ~(e.DEMO_AUTH_ENABLED /\ BlankOrUnset(e.DEMO_AUTH_USERNAME))
      /\ ~(e.DEMO_AUTH_ENABLED /\ BlankOrUnset(e.DEMO_AUTH_PASSWORD))
      /\ ~LocalAuthIsGuarded(e)
      /\ ~(PersistenceMode(e) = "postgres" /\ e.DATABASE_URL = "undefined")
      /\ ~(e.DATABASE_POOL_MAX < e.DATABASE_POOL_MIN)
      /\ ~BusIsMissing(e) /\ ~HeartbeatTooSlow(e)
      /\ ~(/\ e.RESERVATION_FAILURE_INJECTION_MODE # "disabled"
           /\ e.RESERVATION_FAILURE_INJECTION_SALT = "undefined")
  BY <1>1, <1>2 DEF RefineIssues
<1>5. ~TransformThrows(e)
  BY <1>4 DEF TransformThrows, BlankOrUnset, BusIsMissing
<1>6. ~DatabaseThrows(e)
  BY <1>4 DEF DatabaseThrows
<1> QED BY <1>3, <1>4, <1>5, <1>6, WellFormedValues

LEMMA IssuesCanBeMended ==
  ASSUME NEW e, WellFormed(e), NEW path \in Issues(e)
  PROVE  \/ path = "RESERVATION_WORKER_HEARTBEAT_INTERVAL" /\ e.RESERVATION_WORKER_LEASE = 1
         \/ \E value \in Domain[SetBy(path)] :
              path \notin Issues([e EXCEPT ![SetBy(path)] = value])
<1> DEFINE name == SetBy(path)
           value == Cure(e, path)
           cured == [e EXCEPT ![name] = value]
<1> SUFFICES ASSUME path = "RESERVATION_WORKER_HEARTBEAT_INTERVAL" => e.RESERVATION_WORKER_LEASE # 1
             PROVE  value \in Domain[name] /\ path \notin Issues(cured)
  OBVIOUS
<1>1. path \in IssuePaths
  BY IssuesHavePaths
<1>2. name \in Names /\ value \in Domain[name]
  <2>1. CASE path = "AUTH_MODE"
    BY <2>1 DEF SetBy, Cure, Names, Domain, Profiles
  <2>2. CASE path # "AUTH_MODE"
    <3>1. name = path
      BY <2>2 DEF SetBy
    <3>2. path \in Names
      BY <1>1, <2>2 DEF IssuePaths, Names, Domain
    <3>3. value \in Domain[path]
      <4>1. CASE path = "DATABASE_URL"
        BY <4>1 DEF Cure, Domain
      <4>2. CASE path = "DATABASE_POOL_MAX"
        BY <4>2 DEF Cure, Domain
      <4>3. CASE path \in {"RESERVATION_WORKER_LEASE", "RESERVATION_WORKER_MAX_TRANSIENT_FAILURES"}
        <5>1. value = 3
          BY <4>3 DEF Cure
        <5>2. 3 \in Domain["RESERVATION_WORKER_LEASE"]
              /\ 3 \in Domain["RESERVATION_WORKER_MAX_TRANSIENT_FAILURES"]
          BY DEF Domain
        <5> QED BY <4>3, <5>1, <5>2
      <4>4. CASE path = "RESERVATION_WORKER_HEARTBEAT_INTERVAL"
        BY <4>4 DEF Cure, Domain
      <4>5. CASE path = "AUDIT_PUBLISH_TIMEOUT_MS"
        BY <4>5 DEF Cure, Domain
      <4>6. CASE path = "RESERVATION_FAILURE_INJECTION_RATE"
        BY <4>6 DEF Cure, Domain
      <4>7. CASE path = "RESERVATION_FAILURE_INJECTION_SALT"
        BY <4>7 DEF Cure, Domain
      <4>8. CASE path = "DEMO_AUTH_USERNAME" \/ path = "DEMO_AUTH_PASSWORD"
        <5>1. CASE path = "DEMO_AUTH_USERNAME"
          BY <5>1 DEF Cure, Domain
        <5>2. CASE path = "DEMO_AUTH_PASSWORD"
          BY <5>2 DEF Cure, Domain
        <5> QED BY <4>8, <5>1, <5>2
      <4>9. CASE path = "RESERVATION_WORKER_MODE"
        BY <4>9 DEF Cure, Domain
      <4>10. CASE path = "AUDIT_EVENT_BUS_ARN"
        BY <4>10 DEF Cure, Domain
      <4>11. CASE path = "DEMO_AUTH_ENABLED"
        BY <4>11 DEF Cure, Domain
      <4> QED BY <1>1, <2>2, <4>1, <4>2, <4>3, <4>4, <4>5, <4>6, <4>7, <4>8, <4>9, <4>10, <4>11
             DEF IssuePaths
    <3> QED BY <3>1, <3>2, <3>3
  <2> QED BY <2>1, <2>2
<1>3. WellFormed(cured) /\ cured[name] = value
      /\ \A other \in Names \ {name} : cured[other] = e[other]
  <2>1. WellFormed(cured)
    BY <1>2, ChangeIsWellFormed
  <2>2. e = [n \in Names |-> e[n]]
    BY DEF WellFormed
  <2> HIDE DEF name, value
  <2>3. cured = [n \in Names |-> IF n = name THEN value ELSE e[n]]
    BY <2>2
  <2> HIDE DEF cured
  <2> QED BY <1>2, <2>1, <2>3
<1> HIDE DEF cured
<1>4. CASE path = "AUTH_MODE"
  <2>1. cured.COMPOSITION_PROFILE = "production-oidc"
    BY <1>3, <1>4 DEF SetBy, Cure
  <2>2. path \notin RefineIssues(cured)
    BY <1>4, <2>1 DEF RefineIssues, LocalAuthIsGuarded, AuthMode
  <2>3. path \notin FieldIssues(cured)
    BY <1>4 DEF FieldIssues
  <2> QED BY <1>2, <2>2, <2>3 DEF Issues
<1>5. CASE path # "AUTH_MODE"
  <2>1. name = path /\ cured[path] = value
    BY <1>3, <1>5 DEF SetBy
  <2> HIDE DEF name
  <2>2. path \notin FieldIssues(cured)
    <3> SUFFICES ASSUME path \in FieldIssues(cured) PROVE FALSE
      OBVIOUS
    <3>1. CASE path = "DATABASE_URL"
      BY <2>1, <3>1 DEF FieldIssues, Cure
    <3>2. CASE path \in {"DATABASE_POOL_MAX", "RESERVATION_WORKER_LEASE",
                        "RESERVATION_WORKER_HEARTBEAT_INTERVAL",
                        "RESERVATION_WORKER_MAX_TRANSIENT_FAILURES"}
      <4>1. value \in {1, 3, 6}
        BY <3>2 DEF Cure
      <4>2. cured[path] < 1
        BY <3>2 DEF FieldIssues
      <4> QED BY <2>1, <4>1, <4>2
    <3>3. CASE path = "RESERVATION_FAILURE_INJECTION_RATE"
      <4>1. value \in {0, 1}
        BY <3>3 DEF Cure
      <4>2. cured[path] > 1
        BY <3>3 DEF FieldIssues
      <4> QED BY <2>1, <4>1, <4>2
    <3>4. CASE path = "RESERVATION_FAILURE_INJECTION_SALT"
      BY <2>1, <3>4 DEF FieldIssues, Cure
    <3>5. CASE path = "AUDIT_PUBLISH_TIMEOUT_MS"
      <4>1. value = 1000
        BY <3>5 DEF Cure
      <4>2. cured[path] \notin 100..5000
        BY <3>5 DEF FieldIssues
      <4> QED BY <2>1, <4>1, <4>2
    <3>6. CASE path \in {"DEMO_AUTH_ENABLED", "DEMO_AUTH_USERNAME", "DEMO_AUTH_PASSWORD",
                        "RESERVATION_WORKER_MODE", "AUDIT_EVENT_BUS_ARN"}
      BY <3>6 DEF FieldIssues
    <3> QED BY <1>1, <1>5, <3>1, <3>2, <3>3, <3>4, <3>5, <3>6 DEF IssuePaths
  <2>3. path \notin RefineIssues(cured)
    <3> SUFFICES ASSUME path \in RefineIssues(cured) PROVE FALSE
      OBVIOUS
    <3>1. CASE path = "DATABASE_URL"
      BY <2>1, <3>1 DEF RefineIssues, Cure
    <3>2. CASE path = "DATABASE_POOL_MAX"
      <4>1. cured.DATABASE_POOL_MAX = 6
        BY <2>1, <3>2 DEF Cure
      <4>2. "DATABASE_POOL_MIN" \in Names /\ Domain["DATABASE_POOL_MIN"] = {0, 6}
        BY DEF Names, Domain
      <4>3. cured.DATABASE_POOL_MIN \in {0, 6}
        BY <1>3, <4>2 DEF WellFormed
      <4>4. cured.DATABASE_POOL_MAX < cured.DATABASE_POOL_MIN
        BY <3>2 DEF RefineIssues
      <4> QED BY <4>1, <4>3, <4>4
    <3>3. CASE path = "RESERVATION_WORKER_HEARTBEAT_INTERVAL"
      <4>1. cured.RESERVATION_WORKER_HEARTBEAT_INTERVAL = 1
        BY <2>1, <3>3 DEF Cure
      <4>2. "RESERVATION_WORKER_LEASE" \in Names \ {name} /\ Domain["RESERVATION_WORKER_LEASE"] = {1, 3}
        BY <2>1, <3>3 DEF Names, Domain
      <4>3. cured.RESERVATION_WORKER_LEASE = e.RESERVATION_WORKER_LEASE
        BY <1>3, <4>2
      <4>4. cured.RESERVATION_WORKER_LEASE = 3
        BY <1>3, <3>3, <4>2, <4>3 DEF WellFormed
      <4>5. HeartbeatTooSlow(cured)
        BY <3>3 DEF RefineIssues
      <4> QED BY <4>1, <4>4, <4>5 DEF HeartbeatTooSlow
    <3>4. CASE path = "RESERVATION_FAILURE_INJECTION_RATE"
      <4>1. "RESERVATION_FAILURE_INJECTION_MODE" \in Names \ {name}
        BY <2>1, <3>4 DEF Names, Domain
      <4>2. cured.RESERVATION_FAILURE_INJECTION_MODE = e.RESERVATION_FAILURE_INJECTION_MODE
        BY <1>3, <4>1
      <4>3. cured.RESERVATION_FAILURE_INJECTION_RATE =
              IF e.RESERVATION_FAILURE_INJECTION_MODE = "disabled" THEN 0 ELSE 1
        BY <2>1, <3>4 DEF Cure
      <4>4. cured.RESERVATION_FAILURE_INJECTION_MODE = "disabled" <=>
              cured.RESERVATION_FAILURE_INJECTION_RATE > 0
        BY <3>4 DEF RefineIssues
      <4> QED BY <4>2, <4>3, <4>4
    <3>5. CASE path = "RESERVATION_FAILURE_INJECTION_SALT"
      BY <2>1, <3>5 DEF RefineIssues, Cure
    <3>6. CASE path \in {"DEMO_AUTH_USERNAME", "DEMO_AUTH_PASSWORD"}
      BY <2>1, <3>6 DEF RefineIssues, Cure, BlankOrUnset
    <3>7. CASE path = "DEMO_AUTH_ENABLED"
      BY <2>1, <3>7 DEF RefineIssues, Cure
    <3>8. CASE path = "RESERVATION_WORKER_MODE"
      BY <2>1, <3>8 DEF RefineIssues, Cure
    <3>9. CASE path = "AUDIT_EVENT_BUS_ARN"
      BY <2>1, <3>9 DEF RefineIssues, Cure, BusIsMissing, BlankOrUnset
    <3>10. CASE path \in {"RESERVATION_WORKER_LEASE", "AUDIT_PUBLISH_TIMEOUT_MS",
                         "RESERVATION_WORKER_MAX_TRANSIENT_FAILURES"}
      BY <3>10 DEF RefineIssues
    <3> QED BY <1>1, <1>5, <3>1, <3>2, <3>3, <3>4, <3>5, <3>6, <3>7, <3>8, <3>9, <3>10 DEF IssuePaths
  <2> QED BY <1>2, <2>2, <2>3 DEF Issues
<1> QED BY <1>4, <1>5

LEMMA StartedEnvironments ==
  ASSUME NEW e, Starts(e)
  PROVE  Issues(e) = {} /\ ~AuthenticationThrows(e) /\ Started(e) = Composed(e)
  BY DEF Starts, Started, Refused, Thrown

LEMMA EnvironmentsAreSoundWhenRead ==
  ASSUME env # NotRead => WellFormed(env) PROVE EnvironmentsAreSound
<1>1. ParserNeverThrows
  <2> SUFFICES ASSUME WellFormed(env), ~Starts(env)
               PROVE  \/ Started(env).kind = "refused"
                      \/ Started(env).kind = "thrown" /\ Started(env).by \in {"audit", "authentication"}
    BY DEF ParserNeverThrows, Composing
  <2>1. CASE Issues(env) # {}
    BY <2>1 DEF Started, Refused
  <2>2. CASE Issues(env) = {}
    BY <2>2, AcceptedEnvironments DEF Starts, Started, Thrown, Composed
  <2> QED BY <2>1, <2>2
<1>5. RefusalsCanBeMended
  BY IssuesCanBeMended DEF RefusalsCanBeMended, Composing
<1>2. StartsOnlyInDevelopment
  <2> SUFFICES ASSUME WellFormed(env), Starts(env)
               PROVE  ~Guarded(env) /\ Started(env).auth # "oidc"
    BY DEF StartsOnlyInDevelopment, Composing
  <2>1. Issues(env) = {} /\ AuthMode(env) # "oidc" /\ Started(env) = Composed(env)
    BY StartedEnvironments DEF AuthenticationThrows
  <2> QED BY <2>1, AcceptedEnvironments DEF LocalAuthIsGuarded, Composed
<1>3. RollbackIsOneSwitch
  <2> SUFFICES ASSUME WellFormed(env), Starts(env), env.AUDIT_PUBLISHER = "eventbridge"
               PROVE  Started([env EXCEPT !.AUDIT_PUBLISHER = "stdout"]) =
                        [Started(env) EXCEPT !.publishers =
                           <<[publisher |-> "stdout", role |-> "primary"]>>]
    BY DEF RollbackIsOneSwitch, Composing
  <2> DEFINE back == [env EXCEPT !.AUDIT_PUBLISHER = "stdout"]
  <2>1. "AUDIT_PUBLISHER" \in Names /\ "stdout" \in Domain["AUDIT_PUBLISHER"]
    BY DEF Names, Domain
  <2>2. WellFormed(back)
    BY <2>1, ChangeIsWellFormed
  <2>3. back["AUDIT_PUBLISHER"] = "stdout" /\ \A name \in Names \ {"AUDIT_PUBLISHER"} : back[name] = env[name]
    BY <2>1 DEF WellFormed
  <2>4. {"COMPOSITION_PROFILE", "NODE_ENV", "DATABASE_URL", "DATABASE_POOL_MIN", "DATABASE_POOL_MAX",
         "RESERVATION_WORKER_MODE", "RESERVATION_WORKER_LEASE",
         "RESERVATION_WORKER_HEARTBEAT_INTERVAL", "RESERVATION_FAILURE_INJECTION_MODE",
         "RESERVATION_FAILURE_INJECTION_RATE", "RESERVATION_FAILURE_INJECTION_SALT",
         "DEMO_AUTH_ENABLED", "DEMO_AUTH_USERNAME", "DEMO_AUTH_PASSWORD",
         "AUDIT_EVENT_BUS_ARN", "ENABLE_GRAPHIQL"} \subseteq Names \ {"AUDIT_PUBLISHER"}
    BY DEF Names, Domain
  <2>5. /\ back.COMPOSITION_PROFILE = env.COMPOSITION_PROFILE /\ back.NODE_ENV = env.NODE_ENV
        /\ back.DATABASE_URL = env.DATABASE_URL
        /\ back.DATABASE_POOL_MIN = env.DATABASE_POOL_MIN
        /\ back.DATABASE_POOL_MAX = env.DATABASE_POOL_MAX
        /\ back.RESERVATION_WORKER_MODE = env.RESERVATION_WORKER_MODE
        /\ back.RESERVATION_WORKER_LEASE = env.RESERVATION_WORKER_LEASE
        /\ back.RESERVATION_WORKER_HEARTBEAT_INTERVAL = env.RESERVATION_WORKER_HEARTBEAT_INTERVAL
        /\ back.RESERVATION_FAILURE_INJECTION_MODE = env.RESERVATION_FAILURE_INJECTION_MODE
        /\ back.RESERVATION_FAILURE_INJECTION_RATE = env.RESERVATION_FAILURE_INJECTION_RATE
        /\ back.RESERVATION_FAILURE_INJECTION_SALT = env.RESERVATION_FAILURE_INJECTION_SALT
        /\ back.DEMO_AUTH_ENABLED = env.DEMO_AUTH_ENABLED
        /\ back.DEMO_AUTH_USERNAME = env.DEMO_AUTH_USERNAME
        /\ back.DEMO_AUTH_PASSWORD = env.DEMO_AUTH_PASSWORD
        /\ back.ENABLE_GRAPHIQL = env.ENABLE_GRAPHIQL
        /\ back.AUDIT_PUBLISHER = "stdout"
    BY <2>3, <2>4
  <2> HIDE DEF back
  <2>6. /\ AuthMode(back) = AuthMode(env) /\ PersistenceMode(back) = PersistenceMode(env)
        /\ Guarded(back) = Guarded(env)
    BY <2>5 DEF AuthMode, PersistenceMode, Guarded
  <2>7. FieldIssues(env) = {} /\ RefineIssues(env) = {} /\ ~AuthenticationThrows(env)
        /\ Started(env) = Composed(env)
    BY StartedEnvironments DEF Issues
  <2>8. FieldIssues(back) = {}
    <3>1. ASSUME NEW name \in Names, name \in FieldIssues(back) PROVE name # "AUDIT_PUBLISHER"
      BY <3>1 DEF FieldIssues
    <3>2. ASSUME NEW name \in Names, name \in FieldIssues(back) PROVE name \in FieldIssues(env)
      <4>1. back[name] = env[name]
        BY <2>3, <3>1, <3>2
      <4> QED BY <3>2, <4>1 DEF FieldIssues
    <3>3. FieldIssues(back) \subseteq Names
      BY DEF FieldIssues
    <3> QED BY <2>7, <3>2, <3>3
  <2>9. RefineIssues(back) = {}
    <3>1. LocalAuthIsGuarded(back) = LocalAuthIsGuarded(env)
      BY <2>6 DEF LocalAuthIsGuarded
    <3>2. HeartbeatTooSlow(back) = HeartbeatTooSlow(env)
      BY <2>5 DEF HeartbeatTooSlow
    <3>3. ~BusIsMissing(back)
      BY <2>5 DEF BusIsMissing
    <3> QED BY <2>3, <2>5, <2>6, <2>7, <3>1, <3>2, <3>3 DEF RefineIssues
  <2>10. Issues(back) = {}
    BY <2>8, <2>9 DEF Issues
  <2>11. ~AuditThrows(back) /\ ~AuthenticationThrows(back)
    BY <2>5, <2>6, <2>7 DEF AuditThrows, AuthenticationThrows
  <2>12. Started(back) = Composed(back)
    BY <2>2, <2>10, <2>11, AcceptedEnvironments DEF Started
  <2>13. Composed(back) = [Composed(env) EXCEPT !.publishers =
                             <<[publisher |-> "stdout", role |-> "primary"]>>]
    BY <2>5, <2>6 DEF Composed, Publishers, FailureRate, Graphiql
  <2> QED BY <2>7, <2>12, <2>13 DEF back
<1>4. ClaimsCanBeKept
  BY StartedEnvironments, AcceptedEnvironments, WellFormedValues
  DEF ClaimsCanBeKept, Composing, HeartbeatTooSlow
<1> QED BY <1>1, <1>2, <1>3, <1>4, <1>5 DEF EnvironmentsAreSound

-----------------------------------------------------------------------------
(* Telemetry. *)

Switches == enabled \in BOOLEAN /\ hooks \in BOOLEAN

OtherTypes ==
  /\ telemetry \in {"unloaded", "off", "failed", "on"}
  /\ listens \in SUBSET Signals
  /\ stage \in {"import", "creating", "created", "listening"}
  /\ closing \in SUBSET Signals
  /\ \A s, t \in closing : s = t
  /\ race \in {"none", "racing", "timeout", "completed", "rejection"}
  /\ sdkShutdown \in {"not-called", "pending", "completed", "rejected"}
  /\ sdkCalls \in Nat
  /\ emitted \in Seq(Telemetry!Diagnostics)
  /\ process \in {"running", "startup-failed", "signal", "unhandled-rejection"}
  /\ sent \in 0..MaxSignals

\* The one shutdown of the SDK: what the race, the SDK and the listeners say of it.
OneShutdown ==
  /\ race = "none" => sdkShutdown = "not-called" /\ sdkCalls = 0
  /\ race # "none" => sdkShutdown # "not-called" /\ sdkCalls = 1
  /\ race = "racing" => sdkShutdown = "pending"
  /\ race = "completed" => sdkShutdown = "completed"
  /\ race = "rejection" => sdkShutdown = "rejected"
  /\ telemetry # "on" => listens = {}
  /\ telemetry \in {"unloaded", "off"} => race = "none"

Reported ==
  /\ telemetry = "failed" => emitted = <<"bootstrap-exception">>
  /\ telemetry = "on" /\ race = "timeout" => emitted = <<"shutdown-timeout">>
  /\ telemetry = "on" /\ race = "rejection" => emitted = <<"shutdown-rejection">>
  /\ telemetry # "failed" /\ ~(telemetry = "on" /\ race \in {"timeout", "rejection"}) =>
       emitted = << >>

TelemetryInv == Switches /\ OtherTypes /\ OneShutdown /\ Reported

LEMMA TelemetryInvShows == TelemetryInv => Telemetry!TypeOK /\ ShutdownReportIsTrue
<1> SUFFICES ASSUME TelemetryInv PROVE Telemetry!TypeOK /\ ShutdownReportIsTrue
  OBVIOUS
<1>1. Telemetry!TypeOK
  BY Zenon DEF TelemetryInv, Switches, OtherTypes, Telemetry!TypeOK
<1>2. sdkCalls <= 1
  BY DEF TelemetryInv, OneShutdown
<1>3. race \in {"none", "completed", "rejection"} =>
        sdkShutdown = CASE race = "none" -> "not-called"
                        [] race = "completed" -> "completed"
                        [] race = "rejection" -> "rejected"
  BY DEF TelemetryInv, OneShutdown
<1>4. emitted = CASE telemetry = "failed" -> <<"bootstrap-exception">>
                  [] telemetry = "on" /\ race = "timeout" -> <<"shutdown-timeout">>
                  [] telemetry = "on" /\ race = "rejection" -> <<"shutdown-rejection">>
                  [] OTHER -> << >>
  BY DEF TelemetryInv, Reported
<1> QED BY <1>1, <1>2, <1>3, <1>4 DEF ShutdownReportIsTrue, Telemetry!ShutdownReportIsTrue

LEMMA FirstDiagnostic ==
  /\ << >> \in Seq(Telemetry!Diagnostics)
  /\ \A d \in Telemetry!Diagnostics : Append(<< >>, d) = <<d>> /\ <<d>> \in Seq(Telemetry!Diagnostics)
  OBVIOUS

LEMMA AreDiagnostics ==
  {"bootstrap-exception", "shutdown-timeout", "shutdown-rejection"} \subseteq Telemetry!Diagnostics
  BY DEF Telemetry!Diagnostics

LEMMA TelemetryInitInv == Telemetry!Init => TelemetryInv
<1> SUFFICES ASSUME Telemetry!Init PROVE TelemetryInv
  OBVIOUS
<1>1. Switches
  BY Zenon DEF Telemetry!Init, Switches
<1>2. OtherTypes
  BY MaxSignalsAssumption DEF Telemetry!Init, OtherTypes
<1>3. OneShutdown /\ Reported
  BY DEF Telemetry!Init, OneShutdown, Reported
<1> QED BY <1>1, <1>2, <1>3 DEF TelemetryInv

LEMMA LoadTelemetryInv == ASSUME TelemetryInv, Telemetry!LoadTelemetry PROVE TelemetryInv'
<1>1. telemetry = "unloaded" /\ race = "none" /\ emitted = << >> /\ sdkCalls = 0
      /\ listens = {} /\ sdkShutdown = "not-called"
  BY DEF Telemetry!LoadTelemetry, Telemetry!TelemetryIsOff, Telemetry!TelemetryStarts,
         Telemetry!TelemetryFails, TelemetryInv, OneShutdown, Reported
<1>2. UNCHANGED <<enabled, stage, hooks, closing, process, sent>>
  BY DEF Telemetry!LoadTelemetry, Telemetry!TelemetryIsOff, Telemetry!TelemetryStarts,
         Telemetry!TelemetryFails, Telemetry!appVars, Telemetry!SinkFailureIsCaught
<1>3. Switches'
  BY <1>2, Zenon DEF TelemetryInv, Switches
<1>4. \/ /\ telemetry' \in {"off", "on"} /\ emitted' = emitted
         /\ listens' = IF telemetry' = "on" THEN Signals ELSE {}
         /\ UNCHANGED <<race, sdkShutdown, sdkCalls>>
      \/ /\ telemetry' = "failed" /\ emitted' = Append(emitted, "bootstrap-exception")
         /\ listens' = listens
         /\ \/ race' = "racing" /\ sdkShutdown' = "pending" /\ sdkCalls' = sdkCalls + 1
            \/ UNCHANGED <<race, sdkShutdown, sdkCalls>>
  BY <1>1 DEF Telemetry!LoadTelemetry, Telemetry!TelemetryIsOff, Telemetry!TelemetryStarts,
         Telemetry!TelemetryFails, Telemetry!BeginShutdown, Telemetry!raceVars
<1>5. \/ telemetry' \in {"off", "on"} /\ emitted' = << >>
      \/ telemetry' = "failed" /\ emitted' = <<"bootstrap-exception">>
  BY <1>1, <1>4
<1>6. OtherTypes'
  <2>1. emitted' \in Seq(Telemetry!Diagnostics)
    BY <1>5, FirstDiagnostic, AreDiagnostics
  <2> QED BY <1>1, <1>2, <1>4, <2>1 DEF TelemetryInv, OtherTypes
<1>7. OneShutdown' /\ Reported'
  BY <1>1, <1>4, <1>5 DEF OneShutdown, Reported
<1> QED BY <1>3, <1>6, <1>7 DEF TelemetryInv

LEMMA TelemetrySettlesInv ==
  ASSUME TelemetryInv, Telemetry!TelemetrySettles PROVE TelemetryInv'
<1>1. /\ UNCHANGED <<enabled, telemetry, listens, stage, hooks, closing, sdkCalls, process, sent>>
      /\ \/ /\ race = "racing" /\ race' = "timeout" /\ sdkShutdown' = sdkShutdown
            /\ Telemetry!Emit("shutdown-timeout")
         \/ /\ sdkShutdown = "pending" /\ sdkShutdown' = "completed" /\ emitted' = emitted
            /\ race' = IF race = "racing" THEN "completed" ELSE race
         \/ /\ sdkShutdown = "pending" /\ sdkShutdown' = "rejected"
            /\ race' = IF race = "racing" THEN "rejection" ELSE race
            /\ Telemetry!ReportedInTime
  BY DEF Telemetry!TelemetrySettles, Telemetry!TimerFires, Telemetry!SdkCompletes,
         Telemetry!SdkRejects, Telemetry!TimerIsArmed, Telemetry!SinkFailureIsCaught,
         Telemetry!startVars, Telemetry!appVars
<1>2. race = "racing" /\ telemetry = "on" => emitted = << >>
  BY DEF TelemetryInv, Reported
<1>3. \/ emitted' = emitted
      \/ race = "racing" /\ telemetry = "on" /\ race' = "timeout" /\ emitted' = <<"shutdown-timeout">>
      \/ race = "racing" /\ telemetry = "on" /\ race' = "rejection" /\ emitted' = <<"shutdown-rejection">>
  BY <1>1, <1>2, FirstDiagnostic, AreDiagnostics DEF Telemetry!Emit, Telemetry!ReportedInTime
<1>4. Switches'
  BY <1>1, Zenon DEF TelemetryInv, Switches
<1>5. OtherTypes'
  <2>1. emitted' \in Seq(Telemetry!Diagnostics)
    BY <1>3, FirstDiagnostic, AreDiagnostics DEF TelemetryInv, OtherTypes
  <2>2. /\ race' \in {"none", "racing", "timeout", "completed", "rejection"}
        /\ sdkShutdown' \in {"not-called", "pending", "completed", "rejected"}
    BY <1>1 DEF TelemetryInv, OtherTypes
  <2> QED BY <1>1, <2>1, <2>2 DEF TelemetryInv, OtherTypes
<1>6. OneShutdown'
  BY <1>1 DEF TelemetryInv, OneShutdown
<1>7. Reported'
  BY <1>1, <1>2, <1>3 DEF TelemetryInv, OneShutdown, Reported, Telemetry!Emit,
                          Telemetry!ReportedInTime
<1> QED BY <1>4, <1>5, <1>6, <1>7 DEF TelemetryInv

\* Only how far the application is, and whether the process runs, has changed.
LEMMA ApplicationInv ==
  ASSUME TelemetryInv, Switches', OtherTypes',
         UNCHANGED <<telemetry, listens, race, sdkShutdown, sdkCalls, emitted>>
  PROVE  TelemetryInv'
  BY DEF TelemetryInv, OneShutdown, Reported

\* A signal that telemetry hears begins the shutdown if nothing has begun it.
LEMMA HearingInv ==
  ASSUME TelemetryInv, NEW signal \in Signals, Telemetry!TelemetryHears(signal),
         UNCHANGED <<telemetry, emitted, enabled, stage>>,
         hooks' \in BOOLEAN, closing' \in SUBSET Signals, \A s, t \in closing' : s = t,
         process' \in {"running", "signal"}, sent' \in 0..MaxSignals
  PROVE  TelemetryInv'
<1>1. Switches'
  BY Zenon DEF TelemetryInv, Switches
<1>2. CASE race = "none" /\ signal \in listens
  <2>1. race' = "racing" /\ sdkShutdown' = "pending" /\ sdkCalls' = sdkCalls + 1
        /\ listens' \subseteq listens
    BY <1>2 DEF Telemetry!TelemetryHears, Telemetry!ShutDown, Telemetry!BeginShutdown,
                Telemetry!ListensAfter
  <2>2. telemetry = "on" /\ sdkCalls = 0 /\ emitted = << >>
    BY <1>2 DEF TelemetryInv, OneShutdown, OtherTypes, Reported
  <2>3. OtherTypes'
    BY <2>1, <2>2 DEF TelemetryInv, OtherTypes
  <2>4. OneShutdown' /\ Reported'
    BY <2>1, <2>2 DEF TelemetryInv, OneShutdown, Reported
  <2> QED BY <1>1, <2>3, <2>4 DEF TelemetryInv
<1>3. CASE ~(race = "none" /\ signal \in listens)
  <2>1. UNCHANGED <<race, sdkShutdown, sdkCalls>> /\ listens' \subseteq listens
    BY <1>3 DEF Telemetry!TelemetryHears, Telemetry!ShutDown, Telemetry!raceVars,
                Telemetry!ListensAfter
  <2>2. OtherTypes'
    BY <2>1 DEF TelemetryInv, OtherTypes
  <2>3. OneShutdown' /\ Reported'
    BY <2>1 DEF TelemetryInv, OneShutdown, Reported
  <2> QED BY <1>1, <2>2, <2>3 DEF TelemetryInv
<1> QED BY <1>2, <1>3

-----------------------------------------------------------------------------
(* The process. *)

\* A worker there is only with the application, and it is idle until its bootstrap.
WorkerWithApp ==
  /\ worker \in {"none", "composed", "bootstrapped"}
  /\ worker # "none" => stage \in {"created", "listening"}
  /\ worker # "bootstrapped" => passes = {} /\ ~pollTimer

\* The hooks are registered with the application, and taken away when they have ended.
HooksWithApp ==
  /\ hooks => stage \in {"created", "listening"}
  /\ ~hooks /\ stage \in {"created", "listening"} => HooksHaveEnded

EnvironmentWhileCreating ==
  /\ env # NotRead <=> stage = "creating"
  /\ env # NotRead => WellFormed(env)

CrashEndsTheProcess == crashed <=> process = "unhandled-rejection"

\* What relates the parts of the process to one another.
Together ==
  /\ WorkerWithApp /\ HooksWithApp /\ EnvironmentWhileCreating
  /\ CrashEndsTheProcess /\ EndsBetweenPasses

ProcessInv == WorkerInv /\ TelemetryInv /\ Together

LEMMA ReadIsNotWellFormed == ~WellFormed(NotRead)
<1>1. "NODE_ENV" \in Names
  BY DEF Names, Domain
<1> QED BY <1>1 DEF WellFormed, NotRead

LEMMA ProcessInitInv == ProcessInit => ProcessInv
<1> SUFFICES ASSUME ProcessInit PROVE ProcessInv
  OBVIOUS
<1>1. WorkerInv
  <2>1. Booleans
    BY Zenon DEF ProcessInit, Booleans
  <2>2. TypeOK
    BY <2>1, TypesAre DEF ProcessInit
  <2>3. OnePass /\ NoLeakedInterval /\ PollBetweenPasses /\ StoppedForGood
    BY NoneAssumption
    DEF ProcessInit, OnePass, NoLeakedInterval, PollBetweenPasses, StoppedForGood
  <2> QED BY <2>2, <2>3 DEF WorkerInv
<1>2. TelemetryInv
  BY TelemetryInitInv DEF ProcessInit
<1>3. /\ stage = "import" /\ process = "running" /\ ~hooks /\ ~crashed /\ ~pollTimer
      /\ passes = {} /\ worker = "none" /\ env = NotRead
  BY DEF ProcessInit, Telemetry!Init
<1>4. Together
  BY <1>3 DEF Together, WorkerWithApp, HooksWithApp, EnvironmentWhileCreating,
              CrashEndsTheProcess, EndsBetweenPasses
<1> QED BY <1>1, <1>2, <1>4 DEF ProcessInv

\* What the worker does leaves the application, telemetry and the signals alone.
LEMMA WorkerStays == ASSUME WorkerInv, UNCHANGED workerVars PROVE WorkerInv'
  BY StepInv DEF workerVars

LEMMA TogetherStays ==
  ASSUME Together, UNCHANGED <<passes, intervals, pollTimer, stopped, crashed>>,
         UNCHANGED <<env, worker, stage, hooks, process>>
  PROVE  Together'
  BY DEF Together, WorkerWithApp, HooksWithApp, HooksHaveEnded, EnvironmentWhileCreating,
         CrashEndsTheProcess, EndsBetweenPasses

LEMMA LoadTelemetryProcess == ASSUME ProcessInv, LoadTelemetry PROVE ProcessInv'
<1>1. WorkerInv' /\ TelemetryInv'
  BY WorkerStays, LoadTelemetryInv DEF ProcessInv, LoadTelemetry
<1>2. UNCHANGED <<workerVars, compositionVars, stage, hooks, process>>
  BY DEF LoadTelemetry, Telemetry!LoadTelemetry, Telemetry!TelemetryIsOff,
         Telemetry!TelemetryStarts, Telemetry!TelemetryFails, Telemetry!appVars,
         Telemetry!SinkFailureIsCaught
<1>3. Together'
  BY <1>2, TogetherStays DEF ProcessInv, workerVars, vars, compositionVars
<1> QED BY <1>1, <1>3 DEF ProcessInv

LEMMA TelemetrySettlesProcess == ASSUME ProcessInv, TelemetrySettles PROVE ProcessInv'
<1>1. WorkerInv' /\ TelemetryInv'
  BY WorkerStays, TelemetrySettlesInv DEF ProcessInv, TelemetrySettles
<1>2. UNCHANGED <<workerVars, compositionVars, stage, hooks, process>>
  BY DEF TelemetrySettles, Telemetry!TelemetrySettles, Telemetry!TimerFires,
         Telemetry!SdkCompletes, Telemetry!SdkRejects, Telemetry!appVars,
         Telemetry!SinkFailureIsCaught
<1>3. Together'
  BY <1>2, TogetherStays DEF ProcessInv, workerVars, vars, compositionVars
<1> QED BY <1>1, <1>3 DEF ProcessInv

\* The start of the application: no step of it touches telemetry.
LEMMA StartKeepsTelemetry ==
  ASSUME TelemetryInv, hooks' \in BOOLEAN,
         stage' \in {"import", "creating", "created", "listening"},
         process' \in {"running", "startup-failed", "signal", "unhandled-rejection"},
         UNCHANGED <<enabled, telemetry, listens, closing, race, sdkShutdown, sdkCalls, emitted, sent>>
  PROVE  TelemetryInv'
<1>1. Switches'
  BY Zenon DEF TelemetryInv, Switches
<1>2. OtherTypes'
  BY DEF TelemetryInv, OtherTypes
<1> QED BY <1>1, <1>2, ApplicationInv

LEMMA ReadEnvironmentProcess == ASSUME ProcessInv, ReadEnvironment PROVE ProcessInv'
<1>1. /\ stage = "import" /\ stage' = "creating" /\ env' \in Environments
      /\ UNCHANGED <<workerVars, worker, enabled, telemetry, listens, hooks, closing, race,
                     sdkShutdown, sdkCalls, emitted, process, sent>>
  BY DEF ReadEnvironment, Telemetry!ImportApp, Telemetry!startVars, Telemetry!raceVars
<1>2. WellFormed(env') /\ env' # NotRead
  BY <1>1, EnvironmentsAreWellFormed, ReadIsNotWellFormed
<1>3. WorkerInv'
  BY <1>1, WorkerStays DEF ProcessInv
<1>4. TelemetryInv'
  <2>1. hooks' \in BOOLEAN
    BY <1>1, Zenon DEF ProcessInv, TelemetryInv, Switches
  <2>2. process' \in {"running", "startup-failed", "signal", "unhandled-rejection"}
    BY <1>1 DEF ProcessInv, TelemetryInv, OtherTypes
  <2> QED BY <1>1, <2>1, <2>2, StartKeepsTelemetry DEF ProcessInv
<1>5. EnvironmentWhileCreating'
  BY <1>1, <1>2 DEF EnvironmentWhileCreating
<1>6. Together'
  BY <1>1, <1>5 DEF ProcessInv, Together, WorkerWithApp, HooksWithApp, HooksHaveEnded,
                    CrashEndsTheProcess, EndsBetweenPasses, workerVars, vars
<1> QED BY <1>3, <1>4, <1>6 DEF ProcessInv

LEMMA CreateAppProcess == ASSUME ProcessInv, CreateApp PROVE ProcessInv'
<1>1. /\ stage = "creating" /\ stage' = "created" /\ hooks' = TRUE /\ env' = NotRead
      /\ worker' \in {"composed", "none"}
      /\ UNCHANGED <<workerVars, enabled, telemetry, listens, closing, race,
                     sdkShutdown, sdkCalls, emitted, process, sent>>
  BY DEF CreateApp, Telemetry!CreateApp, Telemetry!startVars, Telemetry!raceVars
<1>2. passes = {} /\ ~pollTimer
  BY <1>1 DEF ProcessInv, Together, WorkerWithApp
<1>3. WorkerInv'
  BY <1>1, WorkerStays DEF ProcessInv
<1>4. TelemetryInv'
  <2>1. process' \in {"running", "startup-failed", "signal", "unhandled-rejection"}
    BY <1>1 DEF ProcessInv, TelemetryInv, OtherTypes
  <2> QED BY <1>1, <2>1, StartKeepsTelemetry DEF ProcessInv
<1>5. Together'
  BY <1>1, <1>2 DEF ProcessInv, Together, WorkerWithApp, HooksWithApp, HooksHaveEnded,
     EnvironmentWhileCreating, CrashEndsTheProcess, EndsBetweenPasses, workerVars, vars
<1> QED BY <1>3, <1>4, <1>5 DEF ProcessInv

LEMMA ListenProcess == ASSUME ProcessInv, Listen PROVE ProcessInv'
<1>1. /\ stage = "created" /\ stage' = "listening"
      /\ UNCHANGED <<workerVars, compositionVars, enabled, telemetry, listens, hooks, closing, race,
                     sdkShutdown, sdkCalls, emitted, process, sent>>
  BY DEF Listen, Telemetry!Listen, Telemetry!startVars, Telemetry!raceVars
<1>2. WorkerInv'
  BY <1>1, WorkerStays DEF ProcessInv
<1>3. TelemetryInv'
  <2>1. hooks' \in BOOLEAN
    BY <1>1, Zenon DEF ProcessInv, TelemetryInv, Switches
  <2>2. process' \in {"running", "startup-failed", "signal", "unhandled-rejection"}
    BY <1>1 DEF ProcessInv, TelemetryInv, OtherTypes
  <2> QED BY <1>1, <2>1, <2>2, StartKeepsTelemetry DEF ProcessInv
<1>4. Together'
  BY <1>1 DEF ProcessInv, Together, WorkerWithApp, HooksWithApp, HooksHaveEnded,
     EnvironmentWhileCreating, CrashEndsTheProcess, EndsBetweenPasses, workerVars, vars,
     compositionVars
<1> QED BY <1>2, <1>3, <1>4 DEF ProcessInv

\* The start fails: the environment is refused, a module cannot be composed or the
\* port is taken.
LEMMA FailedStartProcess == ASSUME ProcessInv, CompositionFails \/ PortIsTaken PROVE ProcessInv'
<1>1. /\ process = "running" /\ process' = "startup-failed"
      /\ UNCHANGED <<workerVars, compositionVars, enabled, telemetry, listens, stage, hooks,
                     closing, race, sdkShutdown, sdkCalls, emitted, sent>>
  BY DEF CompositionFails, PortIsTaken, Telemetry!StartupFails, Telemetry!startVars,
         Telemetry!raceVars, Telemetry!appVars, Telemetry!Running
<1>2. WorkerInv'
  BY <1>1, WorkerStays DEF ProcessInv
<1>3. TelemetryInv'
  <2>1. hooks' \in BOOLEAN
    BY <1>1, Zenon DEF ProcessInv, TelemetryInv, Switches
  <2>2. stage' \in {"import", "creating", "created", "listening"}
    BY <1>1 DEF ProcessInv, TelemetryInv, OtherTypes
  <2> QED BY <1>1, <2>1, <2>2, StartKeepsTelemetry DEF ProcessInv
<1>4. Together'
  BY <1>1 DEF ProcessInv, Together, WorkerWithApp, HooksWithApp, HooksHaveEnded,
     EnvironmentWhileCreating, CrashEndsTheProcess, EndsBetweenPasses, workerVars, vars,
     compositionVars
<1> QED BY <1>2, <1>3, <1>4 DEF ProcessInv

LEMMA LifecycleStays ==
  ASSUME TelemetryInv, UNCHANGED otherLifecycleVars,
         process' \in {"running", "startup-failed", "signal", "unhandled-rejection"}
  PROVE  TelemetryInv'
<1>1. hooks' \in BOOLEAN
  BY Zenon DEF TelemetryInv, Switches, otherLifecycleVars
<1>2. stage' \in {"import", "creating", "created", "listening"}
  BY DEF TelemetryInv, OtherTypes, otherLifecycleVars
<1> QED BY <1>1, <1>2, StartKeepsTelemetry DEF otherLifecycleVars

LEMMA LifecycleStaysRunning ==
  ASSUME TelemetryInv, UNCHANGED lifecycleVars PROVE TelemetryInv'
<1>1. process' \in {"running", "startup-failed", "signal", "unhandled-rejection"}
  BY DEF TelemetryInv, OtherTypes, lifecycleVars
<1> QED BY <1>1, LifecycleStays DEF lifecycleVars

LEMMA BootstrapProcess == ASSUME ProcessInv, Bootstrap PROVE ProcessInv'
<1>1. /\ process = "running" /\ stage = "created" /\ worker = "composed"
      /\ worker' = "bootstrapped" /\ pollTimer' = (pollTimer \/ ~stopping)
      /\ UNCHANGED <<heartbeatTimer, intervals, passes, inFlight, claimed, owned, beats,
                     stopping, stopped, crashed, env, lifecycleVars>>
  BY DEF Bootstrap, ScheduleNextPoll, Running
<1>2. passes = {} /\ ~pollTimer
  BY <1>1 DEF ProcessInv, Together, WorkerWithApp
<1>3. inFlight = None
  BY <1>2, TypesAre DEF ProcessInv, WorkerInv, OnePass
<1>4. WorkerInv'
  <2>1. Booleans'
    BY <1>1, TypesAre, Zenon DEF ProcessInv, WorkerInv, Booleans
  <2>2. TypeOK'
    BY <1>1, <2>1, TypesAre, TypesAreNext DEF ProcessInv, WorkerInv
  <2>3. OnePass' /\ NoLeakedInterval' /\ StoppedForGood'
    BY <1>1 DEF ProcessInv, WorkerInv, OnePass, NoLeakedInterval, StoppedForGood
  <2>4. PollBetweenPasses'
    BY <1>1, <1>2, <1>3 DEF PollBetweenPasses
  <2> QED BY <2>2, <2>3, <2>4 DEF WorkerInv
<1>5. TelemetryInv'
  BY <1>1, LifecycleStaysRunning DEF ProcessInv
<1>6. Together'
  BY <1>1 DEF ProcessInv, Together, WorkerWithApp, HooksWithApp, HooksHaveEnded,
     EnvironmentWhileCreating, CrashEndsTheProcess, EndsBetweenPasses, lifecycleVars,
     otherLifecycleVars
<1> QED BY <1>4, <1>5, <1>6 DEF ProcessInv

LEMMA WorkerRunsProcess == ASSUME ProcessInv, WorkerRuns PROVE ProcessInv'
<1>1. Next /\ process = "running" /\ UNCHANGED <<compositionVars, lifecycleVars>>
  BY DEF WorkerRuns, PassStep, BeatIsAnswered, Next, Running
<1>2. WorkerInv'
  BY <1>1, StepInv DEF ProcessInv
<1>3. TelemetryInv'
  BY <1>1, LifecycleStaysRunning DEF ProcessInv
<1>4. UNCHANGED <<stopped, crashed>> /\ (passes = {} /\ ~pollTimer => passes' = {} /\ ~pollTimer')
  BY DEF WorkerRuns, PassStep, BeatIsAnswered, StartPass, OnClaimed, EndClaim, EndPass,
         SendBeat, AnswerBeat, ReceiveAnswer
<1>5. Together'
  BY <1>1, <1>4 DEF ProcessInv, Together, WorkerWithApp, HooksWithApp, HooksHaveEnded,
     EnvironmentWhileCreating, CrashEndsTheProcess, EndsBetweenPasses, lifecycleVars,
     otherLifecycleVars, compositionVars
<1> QED BY <1>2, <1>3, <1>5 DEF ProcessInv

LEMMA WorkerCrashesProcess == ASSUME ProcessInv, WorkerCrashes PROVE ProcessInv'
<1>1. /\ Next /\ process' = "unhandled-rejection"
      /\ UNCHANGED <<compositionVars, otherLifecycleVars>>
  BY DEF WorkerCrashes, Next
<1>2. WorkerInv'
  BY <1>1, StepInv DEF ProcessInv
<1>3. TelemetryInv'
  BY <1>1, LifecycleStays DEF ProcessInv
<1>4. crashed' = TRUE /\ stopped' = stopped /\ passes' = {} /\ ~pollTimer'
  BY DEF WorkerCrashes, BeatRejects
<1>5. Together'
  BY <1>1, <1>4 DEF ProcessInv, Together, WorkerWithApp, HooksWithApp, HooksHaveEnded,
     EnvironmentWhileCreating, CrashEndsTheProcess, EndsBetweenPasses,
     otherLifecycleVars, compositionVars
<1> QED BY <1>2, <1>3, <1>5 DEF ProcessInv

LEMMA ShutDownWorkerProcess == ASSUME ProcessInv, ShutDownWorker PROVE ProcessInv'
<1>1. Next /\ process = "running" /\ UNCHANGED <<compositionVars, lifecycleVars>>
  BY DEF ShutDownWorker, Next, Running
<1>2. WorkerInv'
  BY <1>1, StepInv DEF ProcessInv
<1>3. TelemetryInv'
  BY <1>1, LifecycleStaysRunning DEF ProcessInv
<1>4. /\ crashed' = crashed /\ (stopped => stopped')
      /\ passes = {} /\ ~pollTimer => passes' = {} /\ ~pollTimer'
  BY DEF ShutDownWorker, Shutdown, ShutdownResolves
<1>5. Together'
  BY <1>1, <1>4 DEF ProcessInv, Together, WorkerWithApp, HooksWithApp, HooksHaveEnded,
     EnvironmentWhileCreating, CrashEndsTheProcess, EndsBetweenPasses, lifecycleVars,
     otherLifecycleVars, compositionVars
<1> QED BY <1>2, <1>3, <1>5 DEF ProcessInv

\* Without hooks there is no worker at work: it does not exist yet or has stopped.
LEMMA NoHooksNoWork ==
  ASSUME ProcessInv, ~hooks \/ HooksHaveEnded
  PROVE  passes = {} /\ intervals = {} /\ ~pollTimer
<1>1. worker = "none" \/ stopped
  BY DEF ProcessInv, Together, WorkerWithApp, HooksWithApp, HooksHaveEnded, TelemetryInv,
         OtherTypes
<1>2. CASE worker = "none"
  BY <1>2, NothingLeft DEF ProcessInv, Together, WorkerWithApp
<1>3. CASE stopped
  BY <1>3, StoppedLeavesNothing DEF ProcessInv, ShutdownIsComplete
<1> QED BY <1>1, <1>2, <1>3

LEMMA SignalProcess == ASSUME ProcessInv, NEW signal \in Signals, Signal(signal) PROVE ProcessInv'
<1>1. /\ process = "running" /\ sent < MaxSignals /\ sent' = sent + 1
      /\ Telemetry!TelemetryHears(signal)
      /\ closing' \in {{signal}, closing}
      /\ process' \in {"running", "signal"} /\ (process' = "signal" => ~hooks)
      /\ UNCHANGED <<workerVars, compositionVars, enabled, telemetry, stage, hooks, emitted>>
  BY DEF Signal, Telemetry!Signal, Telemetry!Running, Telemetry!startVars, Telemetry!appVars
<1>2. WorkerInv'
  BY <1>1, WorkerStays DEF ProcessInv
<1>3. TelemetryInv'
  <2>1. hooks' \in BOOLEAN
    BY <1>1, Zenon DEF ProcessInv, TelemetryInv, Switches
  <2>2. /\ closing' \in SUBSET Signals /\ \A s, t \in closing' : s = t
        /\ sent' \in 0..MaxSignals
    BY <1>1, MaxSignalsAssumption DEF ProcessInv, TelemetryInv, OtherTypes
  <2> QED BY <1>1, <2>1, <2>2, HearingInv DEF ProcessInv
<1>4. process' = "signal" => passes = {} /\ intervals = {} /\ ~pollTimer
  BY <1>1, NoHooksNoWork DEF ProcessInv
<1>5. Together'
  BY <1>1, <1>4 DEF ProcessInv, Together, WorkerWithApp, HooksWithApp, HooksHaveEnded,
     EnvironmentWhileCreating, CrashEndsTheProcess, EndsBetweenPasses, workerVars, vars,
     compositionVars
<1> QED BY <1>2, <1>3, <1>5 DEF ProcessInv

LEMMA CloseAppProcess == ASSUME ProcessInv, NEW signal \in Signals, CloseApp(signal) PROVE ProcessInv'
<1>1. /\ process = "running" /\ HooksHaveEnded /\ hooks /\ hooks' = FALSE
      /\ Telemetry!TelemetryHears(signal)
      /\ process' \in {"running", "signal"}
      /\ UNCHANGED <<workerVars, compositionVars, enabled, telemetry, stage, closing, emitted, sent>>
  BY DEF CloseApp, Telemetry!AppIsClosed, Telemetry!Running, Telemetry!startVars
<1>2. WorkerInv'
  BY <1>1, WorkerStays DEF ProcessInv
<1>3. TelemetryInv'
  <2>1. /\ closing' \in SUBSET Signals /\ \A s, t \in closing' : s = t
        /\ sent' \in 0..MaxSignals
    BY <1>1 DEF ProcessInv, TelemetryInv, OtherTypes
  <2> QED BY <1>1, <2>1, HearingInv DEF ProcessInv
<1>4. passes = {} /\ intervals = {} /\ ~pollTimer
  BY <1>1, NoHooksNoWork DEF ProcessInv
<1>5. Together'
  BY <1>1, <1>4 DEF ProcessInv, Together, WorkerWithApp, HooksWithApp, HooksHaveEnded,
     EnvironmentWhileCreating, CrashEndsTheProcess, EndsBetweenPasses, workerVars, vars,
     compositionVars
<1> QED BY <1>2, <1>3, <1>5 DEF ProcessInv

LEMMA ProcessStepInv == ProcessInv /\ [ProcessNext]_processVars => ProcessInv'
<1> SUFFICES ASSUME ProcessInv, [ProcessNext]_processVars PROVE ProcessInv'
  OBVIOUS
<1>1. CASE LoadTelemetry
  BY <1>1, LoadTelemetryProcess
<1>2. CASE Startup
  BY <1>2, ReadEnvironmentProcess, CreateAppProcess, FailedStartProcess, BootstrapProcess,
     ListenProcess DEF Startup
<1>3. CASE PortIsTaken
  BY <1>3, FailedStartProcess
<1>4. CASE WorkerRuns
  BY <1>4, WorkerRunsProcess
<1>5. CASE WorkerCrashes
  BY <1>5, WorkerCrashesProcess
<1>6. ASSUME NEW signal \in Signals, Signal(signal) PROVE ProcessInv'
  BY <1>6, SignalProcess
<1>7. CASE TelemetrySettles
  BY <1>7, TelemetrySettlesProcess
<1>8. CASE Close
  BY <1>8, ShutDownWorkerProcess, CloseAppProcess DEF Close
<1>9. CASE UNCHANGED processVars
  <2>1. UNCHANGED workerVars /\ UNCHANGED compositionVars /\ UNCHANGED lifecycleVars
    BY <1>9 DEF processVars
  <2>2. WorkerInv' /\ TelemetryInv'
    BY <2>1, WorkerStays, LifecycleStaysRunning DEF ProcessInv
  <2>3. Together'
    BY <2>1, TogetherStays DEF ProcessInv, workerVars, vars, compositionVars, lifecycleVars,
                               otherLifecycleVars
  <2> QED BY <2>2, <2>3 DEF ProcessInv
<1> QED
  BY <1>1, <1>2, <1>3, <1>4, <1>5, <1>6, <1>7, <1>8, <1>9 DEF ProcessNext

LEMMA ProcessInvariant == ProcessSpec => []ProcessInv
  BY ProcessInitInv, ProcessStepInv, PTL DEF ProcessSpec

\* config.ts, app.module.ts and the lifecycle modules: the state of the process has
\* its type, its environment is only kept while the application is composed, and no
\* exception of telemetry ends it.
THEOREM ProcessTypeCorrect == ProcessSpec => []ProcessTypeOK
<1>1. ProcessInv => ProcessTypeOK
  <2> SUFFICES ASSUME ProcessInv PROVE ProcessTypeOK
    OBVIOUS
  <2>1. Telemetry!TypeOK
    BY TelemetryInvShows DEF ProcessInv
  <2>2. (env # NotRead <=> stage = "creating") /\ (env # NotRead => WellFormed(env))
    BY DEF ProcessInv, Together, EnvironmentWhileCreating
  <2>3. env # NotRead => \A name \in Names : env[name] \in Domain[name]
    BY <2>2 DEF WellFormed
  <2>4. /\ worker \in {"none", "composed", "bootstrapped"}
        /\ worker # "none" => stage \in {"created", "listening"}
        /\ crashed <=> process = "unhandled-rejection"
    BY DEF ProcessInv, Together, WorkerWithApp, CrashEndsTheProcess
  <2> QED BY <2>1, <2>2, <2>3, <2>4 DEF ProcessTypeOK
<1> QED BY <1>1, ProcessInvariant, PTL

\* otel-lifecycle.ts: sdk.shutdown() is called at most once, and what is reported is
\* how it ended for those who waited for it, for any number of signals.
THEOREM ShutdownIsReportedTruly == ProcessSpec => []ShutdownReportIsTrue
<1>1. ProcessInv => ShutdownReportIsTrue
  BY TelemetryInvShows DEF ProcessInv
<1> QED BY <1>1, ProcessInvariant, PTL

\* A signal ends the process only between two passes of its worker, with no
\* interval and no poll left: the hooks of app.ts outlast the worker's shutdown.
THEOREM SignalsEndBetweenPasses == ProcessSpec => []EndsBetweenPasses
<1>1. ProcessInv => EndsBetweenPasses
  BY DEF ProcessInv, Together
<1> QED BY <1>1, ProcessInvariant, PTL

\* config.ts and the modules it composes: every environment, however many variables
\* were changed, starts a service that may run there and can work, or is refused, and
\* each item that the refusal reports can be mended by changing one variable.
THEOREM EnvironmentsStaySound == ProcessSpec => []EnvironmentsAreSound
<1>1. ProcessInv => EnvironmentsAreSound
  BY EnvironmentsAreSoundWhenRead DEF ProcessInv, Together, EnvironmentWhileCreating
<1> QED BY <1>1, ProcessInvariant, PTL
=============================================================================
