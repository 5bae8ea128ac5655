---------------------------- MODULE MCRequestIntake ----------------------------
(* Small instances of RequestIntake: one request over every catalogue, and two *)
(* requests with two polls at once over one hall.                              *)
EXTENDS RequestIntake, TLC

CONSTANTS aurora, nebula, ann, root, eve, hall1, hall2, late, early, a1, a2

\* ann is a customer of aurora, root its administrator, eve a customer of nebula.
MCProviderOf == [a \in Actors |-> IF a = eve THEN nebula ELSE aurora]

MCSeatLists == {<<>>} \cup {<<s>> : s \in Seats} \cup {<<s, t>> : s, t \in Seats}

\* The hall of a1 may be called hall1.
AnyCatalogue ==
  {[catalog |-> catalogue, requests |-> {r}, actors |-> Actors, calls |-> {},
    asked |-> Screenings \X MCSeatLists] :
     catalogue \in {c \in Catalog : c.place[a1] = hall1}, r \in Requests}

\* Lists that pass every check, and overlap.
OneHall ==
  [catalog |-> [owner |-> hall1 :> aurora @@ hall2 :> nebula,
                hall  |-> [sc \in Screenings |-> hall1],
                place |-> a1 :> hall1 @@ a2 :> hall1],
   requests |-> Requests, actors |-> {ann, root}, calls |-> Calls,
   asked |-> {early} \X {<<a1>>, <<a2, a1>>}]

MCScenarios == AnyCatalogue \cup {OneHall}

Symmetry == Permutations(Requests) \cup Permutations(Calls)
=============================================================================
