----------------------- MODULE AuditedAuthentication -----------------------
(***************************************************************************)
(* What authentication and its audit trail promise together, with no       *)
(* publisher, timeout or output buffer in sight.                           *)
(*                                                                         *)
(* A request presents credentials and is granted or refused by them alone: *)
(* the audit trail never changes the decision (demo-login.service.ts,      *)
(* graphql-authentication.middleware.ts).  The trail may accept the event  *)
(* of a request before or after the answer, or never; but an answer that   *)
(* carries an audit receipt is given only when it has accepted it.         *)
(***************************************************************************)

CONSTANTS
  Calls,  \* the requests
  None

VARIABLES
  credentials,  \* what each request has presented: None, genuine or false
  recorded,     \* requests whose event the audit trail has accepted
  reply         \* the decision and the receipt each request was answered with

auditVars == <<credentials, recorded, reply>>

Reply == [granted : BOOLEAN, receipt : BOOLEAN]

Init ==
  /\ credentials = [r \in Calls |-> None]
  /\ recorded = {}
  /\ reply = [r \in Calls |-> None]

Present(r, kind) ==
  /\ credentials[r] = None
  /\ credentials' = [credentials EXCEPT ![r] = kind]
  /\ UNCHANGED <<recorded, reply>>

Record(r) ==
  /\ credentials[r] # None
  /\ r \notin recorded
  /\ recorded' = recorded \cup {r}
  /\ UNCHANGED <<credentials, reply>>

Answer(r, receipt) ==
  /\ credentials[r] # None /\ reply[r] = None
  /\ receipt => r \in recorded
  /\ reply' = [reply EXCEPT ![r] = [granted |-> credentials[r] = "genuine", receipt |-> receipt]]
  /\ UNCHANGED <<credentials, recorded>>

Next ==
  \E r \in Calls :
    \/ \E kind \in {"genuine", "false"} : Present(r, kind)
    \/ Record(r)
    \/ \E receipt \in BOOLEAN : Answer(r, receipt)

Spec == Init /\ [][Next]_auditVars
=============================================================================
