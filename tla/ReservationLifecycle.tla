------------------------ MODULE ReservationLifecycle ------------------------
(***************************************************************************)
(* What a user of the movie reservation service is promised about a        *)
(* reservation request, with no worker, claim, lease or table in sight.    *)
(*                                                                         *)
(* A request asks for a set of seats and is answered later: it is either   *)
(* CONFIRMED, REJECTED because of a confirmed request for one of its       *)
(* seats, or FAILED.  The transitions are those of the domain              *)
(* (reservation-request-transitions.ts), plus the one the worker port adds:*)
(* a PROCESSING request may be released to REQUESTED for another try.      *)
(*                                                                         *)
(* A seat stands for one (screening, seat) pair: two requests compete only *)
(* when they name the same seat of the same screening.                     *)
(***************************************************************************)

CONSTANTS
  Requests,   \* the reservation requests users may submit
  Seats       \* the (screening, seat) pairs

VARIABLES
  status,     \* [Requests -> RequestStatus]; ABSENT before the request is saved
  seats       \* [Requests -> SUBSET Seats]; the seats a saved request asks for

lifecycleVars == <<status, seats>>

RequestStatus == {"ABSENT", "REQUESTED", "PROCESSING", "CONFIRMED", "REJECTED", "FAILED"}
TerminalStatus == {"CONFIRMED", "REJECTED", "FAILED"}

Init ==
  /\ status = [r \in Requests |-> "ABSENT"]
  /\ seats = [r \in Requests |-> {}]

Confirmed == {r \in Requests : status[r] = "CONFIRMED"}
Overlaps(r) == {q \in Confirmed : seats[q] \cap seats[r] # {}}

Moves(r, from, to) ==
  /\ status[r] = from
  /\ status' = [status EXCEPT ![r] = to]

\* A user asks for seats; the request is saved and will be answered later.
Submit(r, wanted) ==
  /\ Moves(r, "ABSENT", "REQUESTED")
  /\ wanted # {}
  /\ seats' = [seats EXCEPT ![r] = wanted]

StartProcessing(r) == Moves(r, "REQUESTED", "PROCESSING") /\ UNCHANGED seats
ReleaseForRetry(r) == Moves(r, "PROCESSING", "REQUESTED") /\ UNCHANGED seats
Confirm(r) == Overlaps(r) = {} /\ Moves(r, "PROCESSING", "CONFIRMED") /\ UNCHANGED seats
Reject(r)  == Overlaps(r) # {} /\ Moves(r, "PROCESSING", "REJECTED") /\ UNCHANGED seats
Fail(r)    == Moves(r, "PROCESSING", "FAILED") /\ UNCHANGED seats

Step(r) ==
  \/ \E wanted \in SUBSET Seats : Submit(r, wanted)
  \/ StartProcessing(r)
  \/ ReleaseForRetry(r)
  \/ Confirm(r)
  \/ Reject(r)
  \/ Fail(r)

Next == \E r \in Requests : Step(r)

Spec == Init /\ [][Next]_lifecycleVars
=============================================================================
