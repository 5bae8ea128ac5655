----------------------------- MODULE AtomicConfirm -----------------------------
(***************************************************************************)
(* What confirmClaimedReservationRequest promises of the seats it writes:  *)
(* a request gets all of its seats in one step, or learns of a reservation *)
(* that holds one of them.  The same two steps, together with the claim    *)
(* and the status, are Confirm and ConfirmFindsSeatTaken of                *)
(* ReservationWork.                                                        *)
(***************************************************************************)
CONSTANTS Requests, Seats

VARIABLES
  wanted,   \* the seats of each claimed request
  outcome   \* what the confirm of a request has come to

vars == <<wanted, outcome>>

Init ==
  /\ wanted \in [Requests -> (SUBSET Seats) \ {{}}]
  /\ outcome = [r \in Requests |-> "open"]

Holds(q, s) == outcome[q] = "confirmed" /\ s \in wanted[q]

Confirm(r) ==
  /\ outcome[r] = "open"
  /\ \A s \in wanted[r], q \in Requests : ~Holds(q, s)
  /\ outcome' = [outcome EXCEPT ![r] = "confirmed"]
  /\ UNCHANGED wanted

Conflict(r) ==
  /\ outcome[r] = "open"
  /\ \E s \in wanted[r], q \in Requests : Holds(q, s)
  /\ outcome' = [outcome EXCEPT ![r] = "conflicted"]
  /\ UNCHANGED wanted

Next == \E r \in Requests : Confirm(r) \/ Conflict(r)

Spec == Init /\ [][Next]_vars
=============================================================================
