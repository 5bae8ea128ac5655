----------------------------- MODULE RequestIntake -----------------------------
(***************************************************************************)
(* The side of the service its users talk to: requestReservation, the two  *)
(* polls, and the availability of a screening, over either adapter, while  *)
(* workers move the saved requests along their lifecycle (which            *)
(* ReservationWork and InMemoryWork implement).                            *)
(*                                                                         *)
(* In PostgreSQL a poll is two statements outside a transaction, the row   *)
(* and then its seats; in memory it is one turn.  The fields of a document *)
(* are resolved concurrently, so an actor may have several calls open.     *)
(*                                                                         *)
(* The catalogue does not change while the service runs, so its queries    *)
(* are evaluated where their result is used.  Composite foreign keys give  *)
(* a screening and a seat the provider of their auditorium.  An actor      *)
(* stands for a user; profile data, times and the order of lists are left  *)
(* out.                                                                    *)
(***************************************************************************)
EXTENDS Integers, Sequences, FiniteSets

CONSTANTS
  Requests, Screenings, Seats, Auditoriums, Providers,
  Actors,
  ProviderOf,      \* actor.movieProviderId
  TenantWide,      \* actors with role TENANT_ADMIN or reservations:read:tenant
  SeatLists,       \* what clients may send as seatIds
  Calls,           \* reads that may be open at the same time
  Scenarios,       \* bound: who may ask for what, over which catalogue
  None

Catalog == [owner : [Auditoriums -> Providers],
            hall  : [Screenings -> Auditoriums],
            place : [Seats -> Auditoriums]]

ASSUME ScenarioAssumption ==
  /\ SeatLists \subseteq Seq(Seats)
  /\ Scenarios \subseteq [catalog : Catalog, requests : SUBSET Requests,
                          actors : SUBSET Actors, calls : SUBSET Calls,
                          asked : SUBSET (Screenings \X SeatLists)]
ASSUME ActorAssumption == ProviderOf \in [Actors -> Providers] /\ TenantWide \subseteq Actors
ASSUME SeatsAssumption == IsFiniteSet(Seats)
ASSUME NoneAssumption == None \notin Actors

VARIABLES
  adapter,       \* the persistence profile
  scenario,
  status,        \* of the rows of reservation_requests
  seats,         \* the (screening, seat) pairs of a saved request
  requestedBy,   \* the actor it was saved for
  call,          \* reads between their statements
  told,          \* history: the final statuses each actor has been shown
  answer         \* the last answer given

tableVars == <<status, seats, requestedBy>>
vars == <<adapter, scenario, tableVars, call, told, answer>>

Lifecycle == INSTANCE ReservationLifecycle WITH Seats <- Screenings \X Seats

Fact == [request : Requests, status : Lifecycle!TerminalStatus]
NoCall == [op |-> "none", actor |-> None, subject |-> None, status |-> "null", before |-> {}]

Init ==
  /\ adapter \in {"postgres", "in-memory"}
  /\ scenario \in Scenarios
  /\ Lifecycle!Init
  /\ requestedBy = [r \in Requests |-> None]
  /\ call = [c \in Calls |-> NoCall]
  /\ told = [a \in Actors |-> {}]
  /\ answer = None

-----------------------------------------------------------------------------
(* The catalogue. *)

catalog == scenario.catalog

\* findScreeningForProvider
Owns(p, sc) == catalog.owner[catalog.hall[sc]] = p

SeatOf(p, s) == catalog.owner[catalog.place[s]] = p

\* findSeatsByScreeningId
SeatsByScreening(p, sc) ==
  {s \in Seats : Owns(p, sc) /\ SeatOf(p, s) /\ catalog.place[s] = catalog.hall[sc]}

\* Mutant: the seats of all halls are handed to every screening.
SeatsUngrouped(p, ids) ==
  LET found == {sc \in ids : Owns(p, sc)}
      halls == {catalog.hall[sc] : sc \in found}
  IN [sc \in found |-> {s \in Seats : SeatOf(p, s) /\ catalog.place[s] \in halls}]

\* findSeatsByScreeningIds: in PostgreSQL the screenings, then the seats of all
\* their halls, regrouped by hall; in memory one query per screening.  A screening
\* of another provider has an empty entry in memory and none in PostgreSQL.
SeatsByScreenings(p, ids) ==
  IF adapter = "in-memory" THEN [sc \in ids |-> SeatsByScreening(p, sc)]
  ELSE LET found == {sc \in ids : Owns(p, sc)}
           halls == {catalog.hall[sc] : sc \in found}
           rows  == {s \in Seats : SeatOf(p, s) /\ catalog.place[s] \in halls}
           seatsByAuditorium == [h \in {catalog.place[s] : s \in rows} |->
                                   {s \in rows : catalog.place[s] = h}]
       IN [sc \in found |-> IF catalog.hall[sc] \in DOMAIN seatsByAuditorium
                            THEN seatsByAuditorium[catalog.hall[sc]] ELSE {}]

\* The resolver of screenings shows no seats for a screening without an entry.
ShownSeats(p, ids, sc) ==
  LET batch == SeatsByScreenings(p, ids)
  IN IF sc \in DOMAIN batch THEN batch[sc] ELSE {}

\* findSeatsByIdsForScreening in PostgreSQL joins seats and screenings on the hall
\* and its provider ...
JoinedSeatsByIds(p, sc, ids) ==
  {s \in ids : /\ catalog.place[s] = catalog.hall[sc]
               /\ catalog.owner[catalog.place[s]] = catalog.owner[catalog.hall[sc]]
               /\ Owns(p, sc)}

\* ... and in memory filters the seats of the screening's hall.
StoredSeatsByIds(p, sc, ids) ==
  IF Owns(p, sc) THEN {s \in ids : SeatOf(p, s) /\ catalog.place[s] = catalog.hall[sc]} ELSE {}

SeatsByIds(p, sc, ids) ==
  IF adapter = "postgres" THEN JoinedSeatsByIds(p, sc, ids) ELSE StoredSeatsByIds(p, sc, ids)

-----------------------------------------------------------------------------
(* requestReservation. *)

\* before is what the actor knew when it asked.
Give(op, a, subject, before, shown) ==
  answer' = [op |-> op, actor |-> a, subject |-> subject, before |-> before, status |-> shown,
             occupied |-> {}, rows |-> 0]

Named(seatIds) == {seatIds[i] : i \in 1..Len(seatIds)}

\* Mutant: one seat of the screening is enough.
SomeSeatBelongs(a, sc, seatIds) ==
  SeatsByIds(ProviderOf[a], sc, Named(seatIds)) # {} \/ seatIds = <<>>

\* assertSeatsBelongToScreening
SeatsBelong(a, sc, seatIds) ==
  \A s \in Named(seatIds) : s \in SeatsByIds(ProviderOf[a], sc, Named(seatIds))

\* createReservationRequest: at least one seat, and none twice.
WellFormed(seatIds) == seatIds # <<>> /\ Cardinality(Named(seatIds)) = Len(seatIds)

Accepts(a, sc, seatIds) ==
  Owns(ProviderOf[a], sc) /\ SeatsBelong(a, sc, seatIds) /\ WellFormed(seatIds)

\* Mutant: the row is written without its user.
RequestAnonymously(a, r, sc, seatIds) ==
  /\ Accepts(a, sc, seatIds)
  /\ Lifecycle!Submit(r, {sc} \X Named(seatIds))
  /\ answer' = None
  /\ UNCHANGED <<adapter, scenario, requestedBy, call, told>>

\* The request and its seats are written together; r is the generated id.
RequestReservation(a, r, sc, seatIds) ==
  /\ Accepts(a, sc, seatIds)
  /\ Lifecycle!Submit(r, {sc} \X Named(seatIds))
  /\ requestedBy' = [requestedBy EXCEPT ![r] = a]
  /\ answer' = None
  /\ UNCHANGED <<adapter, scenario, call, told>>

\* A check fails, the generated id exists already, or a statement of the database
\* fails; nothing is written.  Where only the acknowledgement of the save is lost, the
\* request is there: that step is RequestReservation, whose answer is not recorded.
RefuseRequest(a, r, sc, seatIds) ==
  /\ ~Accepts(a, sc, seatIds) \/ status[r] # "ABSENT" \/ adapter = "postgres"
  /\ Give("request", a, sc, told[a], "error")
  /\ UNCHANGED <<adapter, scenario, tableVars, call, told>>

-----------------------------------------------------------------------------
(* Reads. *)

SameProvider(a, r) == ProviderOf[a] = ProviderOf[requestedBy[r]]

CanReadReservationRequest(a, r) ==
  SameProvider(a, r) /\ (a \in TenantWide \/ a = requestedBy[r])

\* Mutant: the scope that opens requests to an actor does not open reservations.
CanReadOwnReservation(a, r) == SameProvider(a, r) /\ a = requestedBy[r]

\* Decided on the reservation row, which carries provider and user of the request.
CanReadReservation(a, r) ==
  SameProvider(a, r) /\ (a \in TenantWide \/ a = requestedBy[r])

Visible(op, a, r) ==
  IF op = "status" THEN CanReadReservationRequest(a, r) ELSE CanReadReservation(a, r)

\* The reservation is written in the commit that makes its request CONFIRMED.
RowExists(op, r) ==
  IF op = "status" THEN status[r] # "ABSENT" ELSE status[r] = "CONFIRMED"

Learn(a, r, shown) ==
  told' = IF shown \in Lifecycle!TerminalStatus
          THEN [told EXCEPT ![a] = @ \cup {[request |-> r, status |-> shown]}]
          ELSE told

\* The first statement of findReservationRequestById, or of
\* findReservationByReservationRequestId, finds a row.
ReadRow(c, op, a, r) ==
  /\ adapter = "postgres" /\ call[c] = NoCall
  /\ RowExists(op, r)
  /\ call' = [call EXCEPT ![c] = [op |-> op, actor |-> a, subject |-> r,
                                  status |-> status[r], before |-> told[a]]]
  /\ answer' = None
  /\ UNCHANGED <<adapter, scenario, tableVars, told>>

FindNoRow(op, a, r) ==
  /\ ~RowExists(op, r)
  /\ Give(op, a, r, told[a], "null")
  /\ UNCHANGED <<adapter, scenario, tableVars, call, told>>

\* The second statement; a reservation without seats would be refused by
\* createReservation.  Who may not see it is told null.
ReadSeats(c) ==
  LET k == call[c]
      shown == CASE k.op = "result" /\ seats[k.subject] = {} -> "error"
                 [] ~Visible(k.op, k.actor, k.subject) -> "null"
                 [] OTHER -> k.status
  IN /\ k # NoCall
     /\ Give(k.op, k.actor, k.subject, k.before, shown)
     /\ Learn(k.actor, k.subject, shown)
     /\ call' = [call EXCEPT ![c] = NoCall]
     /\ UNCHANGED <<adapter, scenario, tableVars>>

\* A statement fails.
ReadFails(c) ==
  /\ call[c] # NoCall
  /\ call' = [call EXCEPT ![c] = NoCall]
  /\ answer' = None
  /\ UNCHANGED <<adapter, scenario, tableVars, told>>

\* The in-memory repository finds and copies in one turn.
ReadAtOnce(op, a, r) ==
  /\ adapter = "in-memory"
  /\ RowExists(op, r)
  /\ LET shown == IF Visible(op, a, r) THEN status[r] ELSE "null"
     IN Give(op, a, r, told[a], shown) /\ Learn(a, r, shown)
  /\ UNCHANGED <<adapter, scenario, tableVars, call>>

\* The seats of confirmed reservations; a queued request is no hold.
SeatsTaken == UNION {seats[r] : r \in {q \in Requests : status[q] = "CONFIRMED"}}

\* The left join of a screening, its seats and reservation_seats, in one statement:
\* a row per seat and reservation that holds it, one row for a free seat.
ReadAvailability(a, sc) ==
  LET listed == SeatsByScreening(ProviderOf[a], sc)
      holders(s) == {r \in Requests : status[r] = "CONFIRMED" /\ <<sc, s>> \in seats[r]}
      joined == UNION {IF holders(s) = {} THEN {<<s, None>>} ELSE {s} \X holders(s) : s \in listed}
  IN /\ Owns(ProviderOf[a], sc)
     /\ answer' = [op |-> "availability", actor |-> a, subject |-> sc, before |-> told[a],
                   status |-> "null",
                   occupied |-> {s \in listed : <<sc, s>> \in SeatsTaken},
                   rows |-> IF adapter = "postgres" THEN Cardinality(joined) ELSE Cardinality(listed)]
     /\ UNCHANGED <<adapter, scenario, tableVars, call, told>>

\* A screening that is missing or belongs to another provider has no rows.
FindNoScreening(a, sc) ==
  /\ ~Owns(ProviderOf[a], sc)
  /\ Give("availability", a, sc, told[a], "null")
  /\ UNCHANGED <<adapter, scenario, tableVars, call, told>>

-----------------------------------------------------------------------------
Work(r) ==
  /\ \/ Lifecycle!StartProcessing(r)
     \/ Lifecycle!ReleaseForRetry(r)
     \/ Lifecycle!Confirm(r)
     \/ Lifecycle!Reject(r)
     \/ Lifecycle!Fail(r)
  /\ answer' = None
  /\ UNCHANGED <<adapter, scenario, requestedBy, call, told>>

Next ==
  \/ \E a \in scenario.actors, r \in scenario.requests, ask \in scenario.asked :
       RequestReservation(a, r, ask[1], ask[2]) \/ RefuseRequest(a, r, ask[1], ask[2])
  \/ \E a \in scenario.actors, r \in scenario.requests, op \in {"status", "result"} :
       \/ FindNoRow(op, a, r)
       \/ ReadAtOnce(op, a, r)
       \/ \E c \in scenario.calls : ReadRow(c, op, a, r)
  \/ \E c \in Calls : ReadSeats(c) \/ ReadFails(c)
  \/ \E a \in scenario.actors, sc \in {ask[1] : ask \in scenario.asked} :
       ReadAvailability(a, sc) \/ FindNoScreening(a, sc)
  \/ \E r \in Requests : Work(r)

Spec == Init /\ [][Next]_vars

-----------------------------------------------------------------------------
(* Properties. *)

\* Every variable has its type, and exactly the saved requests have a user.
TypeOK ==
  /\ scenario \in Scenarios
  /\ status \in [Requests -> Lifecycle!RequestStatus]
  /\ seats \in [Requests -> SUBSET (Screenings \X Seats)]
  /\ requestedBy \in [Requests -> Actors \cup {None}]
  /\ \A r \in Requests : status[r] = "ABSENT" <=> requestedBy[r] = None
  /\ told \in [Actors -> SUBSET Fact]
  /\ \A c \in Calls : call[c] # NoCall => /\ call[c].actor \in Actors
                                         /\ call[c].subject \in Requests
                                         /\ status[call[c].subject] # "ABSENT"

\* What a worker finds in a saved request: seats, all of one screening and in the
\* hall of that screening, of the provider the user belongs to.
SavedRequestsAreServable ==
  \A r \in Requests : status[r] # "ABSENT" =>
    \E sc \in Screenings :
      /\ seats[r] # {} /\ seats[r] \subseteq {sc} \X Seats
      /\ catalog.owner[catalog.hall[sc]] = ProviderOf[requestedBy[r]]
      /\ \A s \in Seats : <<sc, s>> \in seats[r] => catalog.place[s] = catalog.hall[sc]

\* The queries for seats agree, whichever adapter answers, whatever is asked for and
\* whoever it belongs to: the batch shows the seats that asking for each screening
\* would show, and the intake check accepts exactly those.  The catalogue does not
\* change, so it is enough to ask before the first request.
SeatQueriesAgree ==
  (\A r \in Requests : status[r] = "ABSENT") =>
  \A p \in Providers, ids \in SUBSET Screenings : \A sc \in ids :
    /\ ShownSeats(p, ids, sc) = SeatsByScreening(p, sc)
    /\ \A named \in SUBSET Seats : SeatsByIds(p, sc, named) = SeatsByScreening(p, sc) \cap named

\* Nothing an actor has been shown is taken back by a read it starts afterwards: a
\* final status is shown again, a confirmed request has its reservation, and its
\* seats are occupied.
ReadsNeverGoBack ==
  answer # None =>
    \A fact \in answer.before :
      /\ answer.op = "status" /\ answer.subject = fact.request => answer.status = fact.status
      /\ fact.status = "CONFIRMED" =>
           /\ answer.op = "result" /\ answer.subject = fact.request =>
                answer.status = "CONFIRMED"
           /\ answer.op = "availability" =>
                \A s \in Seats : <<answer.subject, s>> \in seats[fact.request] =>
                  s \in answer.occupied

\* The availability of a screening lists each of its seats in one row, and calls
\* occupied only what was confirmed: a pending request is not a hold.
AvailabilityIsExact ==
  answer # None /\ answer.op = "availability" =>
    /\ answer.rows = Cardinality(SeatsByScreening(ProviderOf[answer.actor], answer.subject))
    /\ \A s \in answer.occupied :
         \E r \in Requests : status[r] = "CONFIRMED" /\ <<answer.subject, s>> \in seats[r]

\* What an actor is shown is true when it is shown, and stays true.
AnswersAreTrue == ReadsNeverGoBack /\ AvailabilityIsExact
=============================================================================
