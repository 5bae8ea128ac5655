-------------------------- MODULE ServiceComposition --------------------------
(***************************************************************************)
(* From an environment to a service: what config.ts accepts, what it makes *)
(* of it, and what app.module.ts composes from that, or why the service    *)
(* does not start.                                                         *)
(*                                                                         *)
(* A value stands for a class of strings that config.ts treats alike; a    *)
(* variable that is unset and has a default has the default's value here.  *)
(***************************************************************************)
EXTENDS Naturals, Sequences

CONSTANTS
  MaxChanges   \* bound: variables by which an environment differs from a deployed one

ASSUME MaxChangesAssumption == MaxChanges \in Nat

\* What a variable may hold.
Profiles == {"local-fixed-user", "local-jwt", "local-postgres", "production-oidc"}
Domain == [
  COMPOSITION_PROFILE |-> Profiles,
  NODE_ENV |-> {"development", "test", "staging", "production"},
  DATABASE_URL |-> {"undefined", "url", "malformed"},
  DATABASE_POOL_MIN |-> {0, 6},
  DATABASE_POOL_MAX |-> {0, 5, 6},
  RESERVATION_WORKER_MODE |-> {"disabled", "fake-in-process"},
  RESERVATION_WORKER_LEASE |-> {1, 3},
  RESERVATION_WORKER_HEARTBEAT_INTERVAL |-> {0, 1},
  RESERVATION_WORKER_MAX_TRANSIENT_FAILURES |-> {0, 3},
  RESERVATION_FAILURE_INJECTION_MODE |-> {"disabled", "stable-random-unexpected-error"},
  RESERVATION_FAILURE_INJECTION_RATE |-> {0, 1, 2},
  RESERVATION_FAILURE_INJECTION_SALT |-> {"undefined", "empty", "salt"},
  DEMO_AUTH_ENABLED |-> BOOLEAN,
  DEMO_AUTH_USERNAME |-> {"undefined", "blank", "name"},
  DEMO_AUTH_PASSWORD |-> {"undefined", "blank", "password"},
  AUDIT_PUBLISHER |-> {"stdout", "eventbridge"},
  AUDIT_EVENT_BUS_ARN |-> {"undefined", "blank", "malformed", "arn"},
  AUDIT_PUBLISH_TIMEOUT_MS |-> {99, 1000, 5001},
  AUDIT_STDOUT_COMPARISON_MIRROR |-> BOOLEAN,
  ENABLE_GRAPHIQL |-> {"undefined", "true", "false"}
]
Names == DOMAIN Domain

Default == [
  COMPOSITION_PROFILE |-> "local-fixed-user", NODE_ENV |-> "development",
  DATABASE_URL |-> "undefined", DATABASE_POOL_MIN |-> 0, DATABASE_POOL_MAX |-> 5,
  RESERVATION_WORKER_MODE |-> "disabled", RESERVATION_WORKER_LEASE |-> 3,
  RESERVATION_WORKER_HEARTBEAT_INTERVAL |-> 1,
  RESERVATION_WORKER_MAX_TRANSIENT_FAILURES |-> 3,
  RESERVATION_FAILURE_INJECTION_MODE |-> "disabled",
  RESERVATION_FAILURE_INJECTION_RATE |-> 0, RESERVATION_FAILURE_INJECTION_SALT |-> "undefined",
  DEMO_AUTH_ENABLED |-> FALSE, DEMO_AUTH_USERNAME |-> "undefined",
  DEMO_AUTH_PASSWORD |-> "undefined",
  AUDIT_PUBLISHER |-> "stdout", AUDIT_EVENT_BUS_ARN |-> "undefined",
  AUDIT_PUBLISH_TIMEOUT_MS |-> 1000, AUDIT_STDOUT_COMPARISON_MIRROR |-> FALSE,
  ENABLE_GRAPHIQL |-> "undefined"
]

\* The environments deployments start from: unset, and the two that infrastructure
\* and the production template describe.
Deployed == [Default EXCEPT !.AUDIT_PUBLISHER = "eventbridge", !.AUDIT_EVENT_BUS_ARN = "arn",
                            !.AUDIT_STDOUT_COMPARISON_MIRROR = TRUE]
Production == [Default EXCEPT !.NODE_ENV = "production", !.DATABASE_URL = "url",
                              !.COMPOSITION_PROFILE = "production-oidc"]

ChangedOnce(e) ==
  UNION {{[e EXCEPT ![name] = value] : value \in Domain[name]} : name \in Names}

\* The environments a service may be started in.
Environments ==
  LET near[n \in 0..MaxChanges] ==
        IF n = 0 THEN {Default, Deployed, Production}
        ELSE UNION {ChangedOnce(e) : e \in near[n - 1]}
  IN near[MaxChanges]

-----------------------------------------------------------------------------
(* parseConfig. *)

\* What the schema of a single variable refuses.
FieldIssues(e) ==
  {name \in Names :
     \/ name = "DATABASE_URL" /\ e[name] = "malformed"
     \/ name = "DATABASE_POOL_MAX" /\ e[name] < 1
     \/ name = "RESERVATION_WORKER_LEASE" /\ e[name] < 1
     \/ name = "RESERVATION_WORKER_HEARTBEAT_INTERVAL" /\ e[name] < 1
     \/ name = "RESERVATION_WORKER_MAX_TRANSIENT_FAILURES" /\ e[name] < 1
     \/ name = "RESERVATION_FAILURE_INJECTION_RATE" /\ e[name] > 1
     \/ name = "RESERVATION_FAILURE_INJECTION_SALT" /\ e[name] = "empty"
     \/ name = "AUDIT_PUBLISH_TIMEOUT_MS" /\ e[name] \notin 100..5000}

AuthMode(e) ==
  CASE e.COMPOSITION_PROFILE = "local-jwt" -> "local-jwt"
    [] e.COMPOSITION_PROFILE = "production-oidc" -> "oidc"
    [] OTHER -> "local-fixed-user"

PersistenceMode(e) ==
  IF e.COMPOSITION_PROFILE \in {"local-postgres", "production-oidc"} THEN "postgres" ELSE "in-memory"

Guarded(e) == e.NODE_ENV \in {"staging", "production"}

\* Mutant: the local modes are only refused where there is a database.
LocalAuthWithDatabase(e) ==
  AuthMode(e) # "oidc" /\ Guarded(e) /\ PersistenceMode(e) = "postgres"

LocalAuthIsGuarded(e) == AuthMode(e) # "oidc" /\ Guarded(e)

BlankOrUnset(value) == value \in {"undefined", "blank"}

BusIsMissing(e) == e.AUDIT_PUBLISHER = "eventbridge" /\ BlankOrUnset(e.AUDIT_EVENT_BUS_ARN)

HeartbeatTooSlow(e) == e.RESERVATION_WORKER_HEARTBEAT_INTERVAL >= e.RESERVATION_WORKER_LEASE

\* What superRefine refuses, once every variable is well-formed: the paths of its
\* issues.  AUTH_MODE is none of the variables: it is derived from the profile.
RefineIssues(e) ==
  {name \in Names \cup {"AUTH_MODE"} :
     \/ name = "DEMO_AUTH_ENABLED" /\ e.DEMO_AUTH_ENABLED /\ Guarded(e)
     \/ /\ name \in {"DEMO_AUTH_USERNAME", "DEMO_AUTH_PASSWORD"}
        /\ e.DEMO_AUTH_ENABLED /\ BlankOrUnset(e[name])
     \/ name = "AUTH_MODE" /\ LocalAuthIsGuarded(e)
     \/ /\ name = "RESERVATION_WORKER_MODE"
        /\ e.RESERVATION_WORKER_MODE = "fake-in-process" /\ Guarded(e)
     \/ /\ name = "DATABASE_URL"
        /\ PersistenceMode(e) = "postgres" /\ e.DATABASE_URL = "undefined"
     \/ name = "DATABASE_POOL_MAX" /\ e.DATABASE_POOL_MAX < e.DATABASE_POOL_MIN
     \/ name = "AUDIT_EVENT_BUS_ARN" /\ BusIsMissing(e)
     \/ name = "RESERVATION_WORKER_HEARTBEAT_INTERVAL" /\ HeartbeatTooSlow(e)
     \/ /\ name = "RESERVATION_FAILURE_INJECTION_RATE"
        /\ e.RESERVATION_FAILURE_INJECTION_MODE = "disabled" <=>
             e.RESERVATION_FAILURE_INJECTION_RATE > 0
     \/ /\ name = "RESERVATION_FAILURE_INJECTION_SALT"
        /\ e.RESERVATION_FAILURE_INJECTION_MODE # "disabled"
        /\ e.RESERVATION_FAILURE_INJECTION_SALT = "undefined"}

Issues(e) == IF FieldIssues(e) # {} THEN FieldIssues(e) ELSE RefineIssues(e)

\* The last transform throws for what it cannot do without.
TransformThrows(e) ==
  \/ e.DEMO_AUTH_ENABLED /\ "undefined" \in {e.DEMO_AUTH_USERNAME, e.DEMO_AUTH_PASSWORD}
  \/ e.AUDIT_PUBLISHER = "eventbridge" /\ e.AUDIT_EVENT_BUS_ARN = "undefined"
  \/ /\ e.RESERVATION_FAILURE_INJECTION_MODE # "disabled"
     /\ e.RESERVATION_FAILURE_INJECTION_SALT = "undefined"

-----------------------------------------------------------------------------
(* What the modules compose. *)

Publishers(e) ==
  IF e.AUDIT_PUBLISHER = "stdout" THEN <<[publisher |-> "stdout", role |-> "primary"]>>
  ELSE <<[publisher |-> "eventbridge", role |-> "primary"]>> \o
       IF e.AUDIT_STDOUT_COMPARISON_MIRROR
       THEN <<[publisher |-> "stdout", role |-> "comparison"]>> ELSE <<>>

FailureRate(e) ==
  IF e.RESERVATION_FAILURE_INJECTION_MODE = "disabled" THEN 0
  ELSE e.RESERVATION_FAILURE_INJECTION_RATE

Graphiql(e) ==
  IF e.ENABLE_GRAPHIQL = "undefined" THEN ~Guarded(e) ELSE e.ENABLE_GRAPHIQL = "true"

Composed(e) == [
  kind |-> "running",
  auth |-> AuthMode(e),
  persistence |-> PersistenceMode(e),
  worker |-> e.RESERVATION_WORKER_MODE = "fake-in-process",
  failureRate |-> FailureRate(e),
  publishers |-> Publishers(e),
  demoAuth |-> e.DEMO_AUTH_ENABLED,
  graphiql |-> Graphiql(e)
]

Refused(issues) == [kind |-> "refused", issues |-> issues]
Thrown(by) == [kind |-> "thrown", by |-> by]

\* In the order in which the modules are composed.
AuditThrows(e) == e.AUDIT_PUBLISHER = "eventbridge" /\ e.AUDIT_EVENT_BUS_ARN # "arn"
AuthenticationThrows(e) == AuthMode(e) = "oidc"
DatabaseThrows(e) == PersistenceMode(e) = "postgres" /\ e.DATABASE_URL = "undefined"

Started(e) ==
  IF Issues(e) # {} THEN Refused(Issues(e))
  ELSE IF TransformThrows(e) THEN Thrown("config")
  ELSE IF AuditThrows(e) THEN Thrown("audit")
  ELSE IF AuthenticationThrows(e) THEN Thrown("authentication")
  ELSE IF DatabaseThrows(e) THEN Thrown("database")
  ELSE Composed(e)

Starts(e) == Started(e).kind = "running"
=============================================================================
