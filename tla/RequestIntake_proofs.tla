-------------------------- MODULE RequestIntake_proofs --------------------------
(***************************************************************************)
(* Proofs about RequestIntake, over any catalogue, for any actors, calls   *)
(* and requests.  The seat queries agree whatever is asked.  What an actor *)
(* is shown stays true because a final status is never left and because    *)
(* what an open call has read is still so when it answers: CallsAreTrue    *)
(* says that of the row a call holds between its two statements, and       *)
(* ToldIsTrue of what the actors were shown before.                        *)
(***************************************************************************)
EXTENDS RequestIntake, FunctionTheorems, FiniteSetTheorems, TLAPS

OpenCall ==
  [op : {"status", "result"}, actor : Actors, subject : Requests,
   status : Lifecycle!RequestStatus, before : SUBSET Fact]

CallTypes == call \in [Calls -> OpenCall \cup {NoCall}]

\* One seat is confirmed for one request.
NoDoubleBooking ==
  \A r, q \in Requests :
    /\ status[r] = "CONFIRMED" /\ status[q] = "CONFIRMED" /\ seats[r] \cap seats[q] # {}
    => r = q

CanRead(a, r) == SameProvider(a, r) /\ (a \in TenantWide \/ a = requestedBy[r])

\* Who was shown a final status may see the request, which still has that status.
ToldIsTrue ==
  \A a \in Actors : \A fact \in told[a] :
    status[fact.request] = fact.status /\ CanRead(a, fact.request)

\* An open call knows no more than its actor, a row it read as final is so now, and
\* what the actor knew of the row is what the call has read.
CallsAreTrue ==
  \A c \in Calls : call[c] # NoCall =>
    /\ status[call[c].subject] # "ABSENT"
    /\ call[c].before \subseteq told[call[c].actor]
    /\ call[c].status \in Lifecycle!TerminalStatus => status[call[c].subject] = call[c].status
    /\ call[c].op = "result" => call[c].status = "CONFIRMED"
    /\ \A fact \in call[c].before :
         fact.request = call[c].subject => call[c].status = fact.status

StoreTypes ==
  /\ scenario \in Scenarios
  /\ status \in [Requests -> Lifecycle!RequestStatus]
  /\ seats \in [Requests -> SUBSET (Screenings \X Seats)]
  /\ requestedBy \in [Requests -> Actors \cup {None}]
  /\ \A r \in Requests : status[r] = "ABSENT" <=> requestedBy[r] = None

ToldTypes == told \in [Actors -> SUBSET Fact]

StoreInv == StoreTypes /\ SavedRequestsAreServable /\ NoDoubleBooking

IntakeInv == StoreInv /\ ToldTypes /\ CallTypes /\ ToldIsTrue /\ CallsAreTrue

-----------------------------------------------------------------------------
(* The catalogue. *)

LEMMA CatalogueTypes ==
  ASSUME scenario \in Scenarios
  PROVE  /\ catalog \in Catalog
         /\ scenario.requests \subseteq Requests /\ scenario.actors \subseteq Actors
         /\ scenario.calls \subseteq Calls
         /\ scenario.asked \subseteq Screenings \X SeatLists
  BY ScenarioAssumption DEF catalog

\* The regrouping of findSeatsByScreeningIds gives each screening the seats that
\* findSeatsByScreeningId gives it.
LEMMA BatchShowsTheSameSeats ==
  ASSUME NEW p \in Providers, NEW ids \in SUBSET Screenings, NEW sc \in ids
  PROVE  ShownSeats(p, ids, sc) = SeatsByScreening(p, sc)
<1>1. CASE adapter = "in-memory"
  BY <1>1 DEF ShownSeats, SeatsByScreenings
<1>2. CASE adapter # "in-memory"
  <2> DEFINE found == {x \in ids : Owns(p, x)}
             halls == {catalog.hall[x] : x \in found}
             rows == {s \in Seats : SeatOf(p, s) /\ catalog.place[s] \in halls}
             byHall == [h \in {catalog.place[s] : s \in rows} |-> {s \in rows : catalog.place[s] = h}]
             batch == [x \in found |-> IF catalog.hall[x] \in DOMAIN byHall
                                       THEN byHall[catalog.hall[x]] ELSE {}]
  <2>1. SeatsByScreenings(p, ids) = batch
    BY <1>2 DEF SeatsByScreenings
  <2>2. CASE ~Owns(p, sc)
    <3>1. SeatsByScreening(p, sc) = {}
      BY <2>2 DEF SeatsByScreening
    <3>2. sc \notin DOMAIN batch
      BY <2>2
    <3> QED BY <2>1, <3>1, <3>2 DEF ShownSeats
  <2>3. CASE Owns(p, sc)
    <3>1. sc \in DOMAIN batch /\ catalog.hall[sc] \in halls
      BY <2>3
    <3>2. SeatsByScreening(p, sc) = {s \in rows : catalog.place[s] = catalog.hall[sc]}
      BY <2>3, <3>1 DEF SeatsByScreening
    <3>3. batch[sc] = {s \in rows : catalog.place[s] = catalog.hall[sc]}
      <4>1. CASE catalog.hall[sc] \in DOMAIN byHall
        BY <3>1, <4>1
      <4>2. CASE catalog.hall[sc] \notin DOMAIN byHall
        BY <3>1, <4>2
      <4> QED BY <4>1, <4>2
    <3> HIDE DEF batch
    <3> QED BY <2>1, <3>1, <3>2, <3>3 DEF ShownSeats
  <2> QED BY <2>2, <2>3
<1> QED BY <1>1, <1>2

\* The intake check finds the seats of the screening among those named, in either
\* adapter.
LEMMA IntakeFindsTheSameSeats ==
  ASSUME NEW p, NEW sc, NEW named \in SUBSET Seats
  PROVE  SeatsByIds(p, sc, named) = SeatsByScreening(p, sc) \cap named
<1>1. CASE adapter = "postgres"
  BY <1>1 DEF SeatsByIds, JoinedSeatsByIds, SeatsByScreening, Owns, SeatOf
<1>2. CASE adapter # "postgres"
  BY <1>2 DEF SeatsByIds, StoredSeatsByIds, SeatsByScreening
<1> QED BY <1>1, <1>2

LEMMA QueriesAgree == SeatQueriesAgree
  BY BatchShowsTheSameSeats, IntakeFindsTheSameSeats DEF SeatQueriesAgree

-----------------------------------------------------------------------------
(* The store. *)

LEMMA InitInv == Init => IntakeInv
<1> SUFFICES ASSUME Init PROVE IntakeInv
  OBVIOUS
<1> USE DEF Init, Lifecycle!Init
<1>1. StoreTypes
  BY DEF StoreTypes, Lifecycle!RequestStatus
<1>2. SavedRequestsAreServable /\ NoDoubleBooking
  BY DEF SavedRequestsAreServable, NoDoubleBooking
<1>3. ToldTypes /\ CallTypes
  BY DEF ToldTypes, CallTypes
<1>4. ToldIsTrue /\ CallsAreTrue
  BY DEF ToldIsTrue, CallsAreTrue
<1> QED BY <1>1, <1>2, <1>3, <1>4 DEF IntakeInv, StoreInv

\* What no step does to a saved request.
Kept ==
  \A r \in Requests : status[r] # "ABSENT" =>
    /\ status'[r] # "ABSENT"
    /\ requestedBy'[r] = requestedBy[r]
    /\ seats'[r] = seats[r]
    /\ status[r] \in Lifecycle!TerminalStatus => status'[r] = status[r]

LEMMA RequestIsStored ==
  ASSUME StoreInv, NEW a \in scenario.actors, NEW r \in scenario.requests,
         NEW ask \in scenario.asked, RequestReservation(a, r, ask[1], ask[2])
  PROVE  StoreInv' /\ Kept
<1> DEFINE sc == ask[1]
           named == Named(ask[2])
<1>1. /\ a \in Actors /\ r \in Requests /\ sc \in Screenings /\ named \subseteq Seats
      /\ catalog \in Catalog
  <2>1. ask[2] \in Seq(Seats) /\ sc \in Screenings
    BY CatalogueTypes, ScenarioAssumption DEF StoreInv, StoreTypes
  <2> QED BY <2>1, CatalogueTypes DEF Named, StoreInv, StoreTypes
<1>2. /\ status[r] = "ABSENT" /\ status' = [status EXCEPT ![r] = "REQUESTED"]
      /\ {sc} \X named # {} /\ seats' = [seats EXCEPT ![r] = {sc} \X named]
      /\ requestedBy' = [requestedBy EXCEPT ![r] = a] /\ scenario' = scenario
      /\ Accepts(a, sc, ask[2])
  BY DEF RequestReservation, Lifecycle!Submit, Lifecycle!Moves
<1> HIDE DEF sc, named
<1>3. catalog.owner[catalog.hall[sc]] = ProviderOf[a]
  BY <1>2 DEF Accepts, Owns
<1>4. \A s \in named : catalog.place[s] = catalog.hall[sc]
  <2>1. \A s \in named : s \in SeatsByIds(ProviderOf[a], sc, named)
    BY <1>2 DEF Accepts, SeatsBelong, named
  <2> QED BY <1>1, <2>1, IntakeFindsTheSameSeats DEF SeatsByScreening
<1>5. StoreTypes'
  BY <1>1, <1>2, NoneAssumption DEF StoreInv, StoreTypes, Lifecycle!RequestStatus
<1>6. SavedRequestsAreServable'
  <2> SUFFICES ASSUME NEW q \in Requests, status'[q] # "ABSENT"
               PROVE  \E x \in Screenings :
                        /\ seats'[q] # {} /\ seats'[q] \subseteq {x} \X Seats
                        /\ catalog'.owner[catalog'.hall[x]] = ProviderOf[requestedBy'[q]]
                        /\ \A s \in Seats : <<x, s>> \in seats'[q] => catalog'.place[s] = catalog'.hall[x]
    BY DEF SavedRequestsAreServable
  <2>1. catalog' = catalog
    BY <1>2 DEF catalog
  <2>2. CASE q = r
    <3>1. seats'[q] = {sc} \X named /\ requestedBy'[q] = a
      BY <1>1, <1>2, <2>2 DEF StoreInv, StoreTypes
    <3> QED BY <1>1, <1>2, <1>3, <1>4, <2>1, <3>1
  <2>3. CASE q # r
    <3>1. seats'[q] = seats[q] /\ requestedBy'[q] = requestedBy[q] /\ status'[q] = status[q]
      BY <1>1, <1>2, <2>3 DEF StoreInv, StoreTypes
    <3> QED BY <2>1, <3>1 DEF StoreInv, SavedRequestsAreServable
  <2> QED BY <2>2, <2>3
<1>7. Kept
  BY <1>1, <1>2 DEF Kept, StoreInv, StoreTypes
<1>8. NoDoubleBooking'
  BY <1>1, <1>2 DEF StoreInv, StoreTypes, NoDoubleBooking
<1> QED BY <1>5, <1>6, <1>7, <1>8 DEF StoreInv

LEMMA WorkIsStored ==
  ASSUME StoreInv, NEW r \in Requests, Work(r) PROVE StoreInv' /\ Kept
<1>1. PICK to \in {"PROCESSING", "REQUESTED", "CONFIRMED", "REJECTED", "FAILED"} :
        /\ status[r] \in {"REQUESTED", "PROCESSING"}
        /\ status' = [status EXCEPT ![r] = to]
        /\ to = "CONFIRMED" => Lifecycle!Overlaps(r) = {}
        /\ UNCHANGED <<seats, requestedBy, scenario>>
  BY DEF Work, Lifecycle!StartProcessing, Lifecycle!ReleaseForRetry, Lifecycle!Confirm,
         Lifecycle!Reject, Lifecycle!Fail, Lifecycle!Moves
<1>2. StoreTypes'
  BY <1>1 DEF StoreInv, StoreTypes, Lifecycle!RequestStatus
<1>3. SavedRequestsAreServable'
  BY <1>1 DEF StoreInv, StoreTypes, SavedRequestsAreServable, catalog
<1>4. NoDoubleBooking'
  <2> SUFFICES ASSUME NEW p \in Requests, NEW q \in Requests,
                      status'[p] = "CONFIRMED", status'[q] = "CONFIRMED",
                      seats[p] \cap seats[q] # {}, p # q
               PROVE  FALSE
    BY <1>1 DEF NoDoubleBooking
  <2>1. CASE p # r /\ q # r
    BY <1>1, <2>1 DEF StoreInv, StoreTypes, NoDoubleBooking
  <2>2. ASSUME NEW x \in Requests, x # r, status'[x] = "CONFIRMED", status'[r] = "CONFIRMED"
        PROVE  seats[x] \cap seats[r] = {}
    <3>1. status[x] = "CONFIRMED" /\ to = "CONFIRMED"
      BY <1>1, <2>2 DEF StoreInv, StoreTypes
    <3> QED BY <1>1, <3>1 DEF Lifecycle!Overlaps, Lifecycle!Confirmed
  <2> QED BY <2>1, <2>2
<1>5. Kept
  BY <1>1 DEF Kept, StoreInv, StoreTypes, Lifecycle!TerminalStatus
<1> QED BY <1>2, <1>3, <1>4, <1>5 DEF StoreInv

LEMMA StoreStays ==
  ASSUME StoreInv, UNCHANGED <<scenario, tableVars>> PROVE StoreInv' /\ Kept
<1>1. UNCHANGED <<scenario, status, seats, requestedBy, catalog>>
  BY DEF tableVars, catalog
<1>2. StoreTypes'
  BY <1>1 DEF StoreInv, StoreTypes
<1>3. SavedRequestsAreServable' /\ NoDoubleBooking'
  BY <1>1 DEF StoreInv, SavedRequestsAreServable, NoDoubleBooking
<1>4. Kept
  BY <1>1 DEF Kept
<1> QED BY <1>2, <1>3, <1>4 DEF StoreInv

-----------------------------------------------------------------------------
(* What actors were shown. *)

LEMMA FactTypes ==
  ASSUME ToldTypes, NEW a \in Actors, NEW fact \in told[a]
  PROVE  fact.request \in Requests /\ fact.status \in Lifecycle!TerminalStatus
  BY DEF ToldTypes, Fact

LEMMA CallIsTyped ==
  ASSUME CallTypes, NEW c \in Calls, call[c] # NoCall
  PROVE  call[c] \in OpenCall
  BY DEF CallTypes

\* A fact stays true, and visible to those who were shown it.
LEMMA FactsStay ==
  ASSUME ToldTypes, ToldIsTrue, Kept, NEW a \in Actors, NEW fact \in told[a]
  PROVE  status'[fact.request] = fact.status /\ CanRead(a, fact.request)'
<1>1. /\ fact.request \in Requests /\ fact.status \in Lifecycle!TerminalStatus
      /\ status[fact.request] = fact.status /\ CanRead(a, fact.request)
  BY FactTypes DEF ToldIsTrue
<1>2. status[fact.request] # "ABSENT"
  BY <1>1 DEF Lifecycle!TerminalStatus
<1>3. status'[fact.request] = fact.status /\ requestedBy'[fact.request] = requestedBy[fact.request]
  BY <1>1, <1>2 DEF Kept
<1> QED BY <1>1, <1>3 DEF CanRead, SameProvider

\* Nobody is told anything, and no call is opened: requests, work and failed reads.
LEMMA KnowledgeStays ==
  ASSUME IntakeInv, StoreInv', Kept, UNCHANGED told,
         call' \in [Calls -> OpenCall \cup {NoCall}],
         \A c \in Calls : call'[c] \in {call[c], NoCall}
  PROVE  IntakeInv'
<1>1. ToldTypes' /\ CallTypes'
  BY DEF IntakeInv, ToldTypes, CallTypes
<1>2. ToldIsTrue'
  BY FactsStay DEF IntakeInv, ToldIsTrue
<1>3. CallsAreTrue'
  <2> SUFFICES ASSUME NEW c \in Calls, call'[c] # NoCall
               PROVE  /\ status'[call'[c].subject] # "ABSENT"
                      /\ call'[c].before \subseteq told'[call'[c].actor]
                      /\ call'[c].status \in Lifecycle!TerminalStatus =>
                           status'[call'[c].subject] = call'[c].status
                      /\ call'[c].op = "result" => call'[c].status = "CONFIRMED"
                      /\ \A fact \in call'[c].before :
                           fact.request = call'[c].subject => call'[c].status = fact.status
    BY DEF CallsAreTrue
  <2>1. call'[c] = call[c] /\ call[c] # NoCall /\ call[c].subject \in Requests
    BY CallIsTyped DEF IntakeInv, OpenCall
  <2>2. /\ status[call[c].subject] # "ABSENT"
        /\ call[c].before \subseteq told[call[c].actor]
        /\ call[c].status \in Lifecycle!TerminalStatus => status[call[c].subject] = call[c].status
        /\ call[c].op = "result" => call[c].status = "CONFIRMED"
        /\ \A fact \in call[c].before :
             fact.request = call[c].subject => call[c].status = fact.status
    BY <2>1 DEF IntakeInv, CallsAreTrue
  <2>3. status'[call[c].subject] # "ABSENT"
        /\ (call[c].status \in Lifecycle!TerminalStatus =>
              status'[call[c].subject] = call[c].status)
    BY <2>1, <2>2 DEF Kept
  <2> QED BY <2>1, <2>2, <2>3
<1> QED BY <1>1, <1>2, <1>3 DEF IntakeInv

\* An actor is shown a final status that is true, of a request it may see.
LEMMA LearnInv ==
  ASSUME IntakeInv, NEW a \in Actors, NEW r \in Requests, NEW shown, Learn(a, r, shown),
         shown \in Lifecycle!TerminalStatus => status[r] = shown /\ CanRead(a, r),
         UNCHANGED <<scenario, tableVars>>,
         call' \in [Calls -> OpenCall \cup {NoCall}],
         \A c \in Calls : call'[c] \in {call[c], NoCall}
  PROVE  IntakeInv'
<1>1. StoreInv' /\ Kept
  BY StoreStays DEF IntakeInv
<1>2. CASE shown \notin Lifecycle!TerminalStatus
  BY <1>1, <1>2, KnowledgeStays DEF Learn
<1>3. CASE shown \in Lifecycle!TerminalStatus
  <2> DEFINE new == [request |-> r, status |-> shown]
  <2>1. told' = [told EXCEPT ![a] = @ \cup {new}] /\ new \in Fact
    BY <1>3 DEF Learn, Fact
  <2>2. UNCHANGED <<status, requestedBy>>
    BY DEF tableVars
  <2>3. \A b \in Actors : told[b] \subseteq told'[b]
    BY <2>1 DEF IntakeInv, ToldTypes
  <2>4. ToldTypes' /\ CallTypes'
    BY <2>1 DEF IntakeInv, ToldTypes, CallTypes, Fact
  <2>5. ToldIsTrue'
    <3> SUFFICES ASSUME NEW b \in Actors, NEW fact \in told'[b]
                 PROVE  status[fact.request] = fact.status /\ CanRead(b, fact.request)
      BY <2>2 DEF ToldIsTrue, CanRead, SameProvider
    <3>1. fact \in told[b] \/ (b = a /\ fact = new)
      BY <2>1 DEF IntakeInv, ToldTypes
    <3> QED BY <1>3, <3>1 DEF IntakeInv, ToldIsTrue
  <2>6. CallsAreTrue'
    <3> SUFFICES ASSUME NEW c \in Calls, call'[c] # NoCall
                 PROVE  /\ status'[call'[c].subject] # "ABSENT"
                        /\ call'[c].before \subseteq told'[call'[c].actor]
                        /\ call'[c].status \in Lifecycle!TerminalStatus =>
                             status'[call'[c].subject] = call'[c].status
                        /\ call'[c].op = "result" => call'[c].status = "CONFIRMED"
                        /\ \A fact \in call'[c].before :
                             fact.request = call'[c].subject => call'[c].status = fact.status
      BY DEF CallsAreTrue
    <3>1. call'[c] = call[c] /\ call[c] # NoCall /\ call[c].actor \in Actors
      BY CallIsTyped DEF IntakeInv, OpenCall
    <3> QED BY <2>2, <2>3, <3>1 DEF IntakeInv, CallsAreTrue
  <2> QED BY <1>1, <2>4, <2>5, <2>6 DEF IntakeInv
<1> QED BY <1>2, <1>3

-----------------------------------------------------------------------------
(* The steps. *)

LEMMA CallsStay ==
  ASSUME IntakeInv, call' = call
  PROVE  /\ call' \in [Calls -> OpenCall \cup {NoCall}]
         /\ \A c \in Calls : call'[c] \in {call[c], NoCall}
  BY DEF IntakeInv, CallTypes

\* A step that only gives an answer.
LEMMA AnswerInv ==
  ASSUME IntakeInv, UNCHANGED <<scenario, tableVars, call, told>> PROVE IntakeInv'
<1>1. StoreInv' /\ Kept
  BY StoreStays DEF IntakeInv
<1> QED BY <1>1, CallsStay, KnowledgeStays

LEMMA RequestReservationInv ==
  ASSUME IntakeInv, NEW a \in scenario.actors, NEW r \in scenario.requests,
         NEW ask \in scenario.asked, RequestReservation(a, r, ask[1], ask[2])
  PROVE  IntakeInv'
<1>1. StoreInv' /\ Kept
  BY RequestIsStored DEF IntakeInv
<1>2. UNCHANGED <<call, told>>
  BY DEF RequestReservation
<1> QED BY <1>1, <1>2, CallsStay, KnowledgeStays

LEMMA WorkInv == ASSUME IntakeInv, NEW r \in Requests, Work(r) PROVE IntakeInv'
<1>1. StoreInv' /\ Kept
  BY WorkIsStored DEF IntakeInv
<1>2. UNCHANGED <<call, told>>
  BY DEF Work
<1> QED BY <1>1, <1>2, CallsStay, KnowledgeStays

LEMMA ReadRowInv ==
  ASSUME IntakeInv, NEW c \in Calls, NEW op \in {"status", "result"}, NEW a \in Actors,
         NEW r \in Requests, ReadRow(c, op, a, r)
  PROVE  IntakeInv'
<1> DEFINE new == [op |-> op, actor |-> a, subject |-> r, status |-> status[r], before |-> told[a]]
<1>1. /\ call' = [call EXCEPT ![c] = new] /\ UNCHANGED <<scenario, tableVars, told>>
      /\ RowExists(op, r)
  BY DEF ReadRow
<1>2. StoreInv' /\ Kept /\ UNCHANGED status
  BY <1>1, StoreStays DEF IntakeInv, tableVars
<1>3. new \in OpenCall
  BY DEF OpenCall, IntakeInv, StoreInv, StoreTypes, ToldTypes
<1>4. status[r] # "ABSENT" /\ (op = "result" => status[r] = "CONFIRMED")
  BY <1>1 DEF RowExists
<1>5. ToldTypes' /\ CallTypes'
  BY <1>1, <1>3 DEF IntakeInv, ToldTypes, CallTypes
<1>6. ToldIsTrue'
  BY <1>1, <1>2, FactsStay DEF IntakeInv, ToldIsTrue
<1>7. CallsAreTrue'
  <2> SUFFICES ASSUME NEW d \in Calls, call'[d] # NoCall
               PROVE  /\ status[call'[d].subject] # "ABSENT"
                      /\ call'[d].before \subseteq told[call'[d].actor]
                      /\ call'[d].status \in Lifecycle!TerminalStatus =>
                           status[call'[d].subject] = call'[d].status
                      /\ call'[d].op = "result" => call'[d].status = "CONFIRMED"
                      /\ \A fact \in call'[d].before :
                           fact.request = call'[d].subject => call'[d].status = fact.status
    BY <1>1, <1>2 DEF CallsAreTrue
  <2>1. CASE d # c
    <3>1. call'[d] = call[d]
      BY <1>1, <2>1 DEF IntakeInv, CallTypes
    <3> QED BY <3>1 DEF IntakeInv, CallsAreTrue
  <2>2. CASE d = c
    <3>1. call'[d] = new
      BY <1>1, <2>2 DEF IntakeInv, CallTypes
    <3>2. \A fact \in told[a] : fact.request = r => status[r] = fact.status
      BY DEF IntakeInv, ToldIsTrue
    <3> QED BY <1>4, <3>1, <3>2
  <2> QED BY <2>1, <2>2
<1> QED BY <1>2, <1>5, <1>6, <1>7 DEF IntakeInv

\* What the second statement shows: the reservation of a confirmed request has seats.
LEMMA ShownBySeats ==
  ASSUME IntakeInv, NEW c \in Calls, call[c] # NoCall
  PROVE  LET k == call[c] IN
         /\ k \in OpenCall
         /\ ~(k.op = "result" /\ seats[k.subject] = {})
         /\ Visible(k.op, k.actor, k.subject) = CanRead(k.actor, k.subject)
<1> DEFINE k == call[c]
<1>1. k \in OpenCall
  BY CallIsTyped DEF IntakeInv
<1>2. status[k.subject] # "ABSENT" /\ k.subject \in Requests
  BY <1>1 DEF IntakeInv, CallsAreTrue, OpenCall
<1>3. seats[k.subject] # {}
  BY <1>2 DEF IntakeInv, StoreInv, SavedRequestsAreServable
<1>4. Visible(k.op, k.actor, k.subject) = CanRead(k.actor, k.subject)
  BY DEF Visible, CanReadReservationRequest, CanReadReservation, CanRead
<1> QED BY <1>1, <1>3, <1>4

LEMMA ReadSeatsInv == ASSUME IntakeInv, NEW c \in Calls, ReadSeats(c) PROVE IntakeInv'
<1> DEFINE k == call[c]
           shown == IF CanRead(k.actor, k.subject) THEN k.status ELSE "null"
<1>1. /\ k # NoCall
      /\ call' = [call EXCEPT ![c] = NoCall] /\ UNCHANGED <<scenario, tableVars>>
  BY DEF ReadSeats
<1>2. k \in OpenCall
  BY <1>1, ShownBySeats
<1>3. Learn(k.actor, k.subject, shown)
  BY <1>1, ShownBySeats DEF ReadSeats
<1>4. shown \in Lifecycle!TerminalStatus => status[k.subject] = shown /\ CanRead(k.actor, k.subject)
  BY <1>1 DEF IntakeInv, CallsAreTrue, Lifecycle!TerminalStatus
<1>5. /\ call' \in [Calls -> OpenCall \cup {NoCall}]
      /\ \A d \in Calls : call'[d] \in {call[d], NoCall}
  BY <1>1 DEF IntakeInv, CallTypes
<1>6. k.actor \in Actors /\ k.subject \in Requests
  BY <1>2 DEF OpenCall
<1> HIDE DEF shown
<1> QED BY <1>1, <1>3, <1>4, <1>5, <1>6, LearnInv

LEMMA ReadFailsInv == ASSUME IntakeInv, NEW c \in Calls, ReadFails(c) PROVE IntakeInv'
<1>1. /\ call' = [call EXCEPT ![c] = NoCall] /\ UNCHANGED <<scenario, tableVars, told>>
  BY DEF ReadFails
<1>2. StoreInv' /\ Kept
  BY <1>1, StoreStays DEF IntakeInv
<1>3. /\ call' \in [Calls -> OpenCall \cup {NoCall}]
      /\ \A d \in Calls : call'[d] \in {call[d], NoCall}
  BY <1>1 DEF IntakeInv, CallTypes
<1> QED BY <1>1, <1>2, <1>3, KnowledgeStays

LEMMA ReadAtOnceInv ==
  ASSUME IntakeInv, NEW op \in {"status", "result"}, NEW a \in Actors, NEW r \in Requests,
         ReadAtOnce(op, a, r)
  PROVE  IntakeInv'
<1> DEFINE shown == IF CanRead(a, r) THEN status[r] ELSE "null"
<1>1. Learn(a, r, shown) /\ UNCHANGED <<scenario, tableVars, call>>
  BY DEF ReadAtOnce, Visible, CanReadReservationRequest, CanReadReservation, CanRead
<1>2. shown \in Lifecycle!TerminalStatus => status[r] = shown /\ CanRead(a, r)
  BY DEF Lifecycle!TerminalStatus
<1> HIDE DEF shown
<1> QED BY <1>1, <1>2, CallsStay, LearnInv

LEMMA StepInv == IntakeInv /\ [Next]_vars => IntakeInv'
<1> SUFFICES ASSUME IntakeInv, [Next]_vars PROVE IntakeInv'
  OBVIOUS
<1>0. scenario.actors \subseteq Actors /\ scenario.requests \subseteq Requests
      /\ scenario.calls \subseteq Calls
  BY CatalogueTypes DEF IntakeInv, StoreInv, StoreTypes
<1>1. ASSUME NEW a \in scenario.actors, NEW r \in scenario.requests, NEW ask \in scenario.asked,
             RequestReservation(a, r, ask[1], ask[2]) \/ RefuseRequest(a, r, ask[1], ask[2])
      PROVE  IntakeInv'
  BY <1>1, RequestReservationInv, AnswerInv DEF RefuseRequest
<1>2. ASSUME NEW a \in scenario.actors, NEW r \in scenario.requests, NEW op \in {"status", "result"},
             FindNoRow(op, a, r) \/ ReadAtOnce(op, a, r) \/ \E c \in scenario.calls : ReadRow(c, op, a, r)
      PROVE  IntakeInv'
  BY <1>0, <1>2, AnswerInv, ReadAtOnceInv, ReadRowInv DEF FindNoRow
<1>3. ASSUME NEW c \in Calls, ReadSeats(c) \/ ReadFails(c) PROVE IntakeInv'
  BY <1>3, ReadSeatsInv, ReadFailsInv
<1>4. ASSUME NEW a, NEW sc, ReadAvailability(a, sc) \/ FindNoScreening(a, sc) PROVE IntakeInv'
  BY <1>4, AnswerInv DEF ReadAvailability, FindNoScreening
<1>5. ASSUME NEW r \in Requests, Work(r) PROVE IntakeInv'
  BY <1>5, WorkInv
<1>6. CASE UNCHANGED vars
  BY <1>6, AnswerInv DEF vars
<1> QED BY <1>1, <1>2, <1>3, <1>4, <1>5, <1>6 DEF Next

LEMMA Invariant == Spec => []IntakeInv
  BY InitInv, StepInv, PTL DEF Spec

\* Every variable of the intake has its type, exactly the saved requests have a user,
\* and an open read is of a saved request.
THEOREM IntakeTypeCorrect == Spec => []TypeOK
<1>1. IntakeInv => TypeOK
  <2> SUFFICES ASSUME IntakeInv PROVE TypeOK
    OBVIOUS
  <2>1. \A c \in Calls : call[c] # NoCall => /\ call[c].actor \in Actors
                                             /\ call[c].subject \in Requests
                                             /\ status[call[c].subject] # "ABSENT"
    BY CallIsTyped DEF IntakeInv, OpenCall, CallsAreTrue
  <2> QED BY <2>1 DEF TypeOK, IntakeInv, StoreInv, StoreTypes, ToldTypes
<1> QED BY <1>1, Invariant, PTL

\* request-reservation.usecase.ts: whatever clients send, a saved request names
\* seats of one screening, in its hall and of the user's provider.
THEOREM RequestsStayServable == Spec => []SavedRequestsAreServable
<1>1. IntakeInv => SavedRequestsAreServable
  BY DEF IntakeInv, StoreInv
<1> QED BY <1>1, Invariant, PTL

\* The batch query, the single query and the intake check find the same seats in
\* either adapter, over any catalogue.
THEOREM SeatQueriesAlwaysAgree == Spec => []SeatQueriesAgree
  BY QueriesAgree, PTL

-----------------------------------------------------------------------------
(* The answers. *)

\* The left join of a screening with its reservations has one row for each seat: a
\* seat has at most one confirmed holder.
LEMMA OneRowForEachSeat ==
  ASSUME IntakeInv, NEW p, NEW sc
  PROVE  LET listed == SeatsByScreening(p, sc)
             holders(s) == {r \in Requests : status[r] = "CONFIRMED" /\ <<sc, s>> \in seats[r]}
             joined == UNION {IF holders(s) = {} THEN {<<s, None>>} ELSE {s} \X holders(s) : s \in listed}
         IN  Cardinality(joined) = Cardinality(listed)
<1> DEFINE listed == SeatsByScreening(p, sc)
           holders(s) == {r \in Requests : status[r] = "CONFIRMED" /\ <<sc, s>> \in seats[r]}
           rowsOf(s) == IF holders(s) = {} THEN {<<s, None>>} ELSE {s} \X holders(s)
           joined == UNION {rowsOf(s) : s \in listed}
           holder(s) == IF holders(s) = {} THEN None ELSE CHOOSE r : r \in holders(s)
           row == [s \in listed |-> <<s, holder(s)>>]
<1>1. \A s \in listed : rowsOf(s) = {<<s, holder(s)>>}
  <2> SUFFICES ASSUME NEW s \in listed PROVE rowsOf(s) = {<<s, holder(s)>>}
    OBVIOUS
  <2>1. CASE holders(s) = {}
    BY <2>1
  <2>2. CASE holders(s) # {}
    <3>1. holder(s) \in holders(s)
      BY <2>2
    <3>2. \A r, q \in holders(s) : r = q
      BY DEF IntakeInv, StoreInv, NoDoubleBooking
    <3>3. holders(s) = {holder(s)}
      <4> HIDE DEF holders, holder
      <4> QED BY <3>1, <3>2
    <3> HIDE DEF holders, holder
    <3> QED BY <2>2, <3>3
  <2> QED BY <2>1, <2>2
<1>2. IsFiniteSet(listed)
  <2>1. listed \subseteq Seats
    BY DEF SeatsByScreening
  <2> HIDE DEF listed
  <2> QED BY <2>1, SeatsAssumption, FS_Subset
<1> HIDE DEF holder, listed, rowsOf
<1>3. \A x : x \in joined <=> \E s \in listed : x = <<s, holder(s)>>
  BY <1>1
<1>4. row \in [listed -> joined]
  BY <1>3
<1>5. \A s, t \in listed : row[s] = row[t] => s = t
  OBVIOUS
<1>6. \A x \in joined : \E s \in listed : row[s] = x
  BY <1>3
<1>7. row \in Bijection(listed, joined)
  <2> HIDE DEF joined, row
  <2>1. row \in Injection(listed, joined) /\ row \in Surjection(listed, joined)
    BY <1>4, <1>5, <1>6 DEF Injection, IsInjective, Surjection
  <2> QED BY <2>1 DEF Bijection
<1>8. ExistsBijection(listed, joined)
  <2> HIDE DEF joined, row
  <2> QED BY <1>7 DEF ExistsBijection
<1>9. Cardinality(joined) = Cardinality(listed)
  <2> HIDE DEF joined
  <2> QED BY <1>2, <1>8, FS_Bijection
<1> QED BY <1>9 DEF rowsOf, listed

\* What is given of a request or a reservation agrees with what the actor knew.
LEMMA GivenIsTrue ==
  ASSUME NEW op \in {"request", "status", "result"}, NEW a, NEW subject, NEW before, NEW shown,
         Give(op, a, subject, before, shown),
         \A fact \in before : op = "status" /\ subject = fact.request => shown = fact.status,
         \A fact \in before : fact.status = "CONFIRMED" /\ op = "result" /\ subject = fact.request
           => shown = "CONFIRMED"
  PROVE  AnswersAreTrue'
<1>1. answer'.op = op /\ answer'.subject = subject /\ answer'.before = before
      /\ answer'.status = shown
  BY DEF Give
<1> QED BY <1>1 DEF AnswersAreTrue, ReadsNeverGoBack, AvailabilityIsExact

LEMMA NoAnswerIsTrue == ASSUME answer' = None PROVE AnswersAreTrue'
  BY DEF AnswersAreTrue, ReadsNeverGoBack, AvailabilityIsExact

LEMMA FindNoRowIsTrue ==
  ASSUME IntakeInv, NEW op \in {"status", "result"}, NEW a \in Actors, NEW r, FindNoRow(op, a, r)
  PROVE  AnswersAreTrue'
<1>1. Give(op, a, r, told[a], "null") /\ ~RowExists(op, r)
  BY DEF FindNoRow
<1>2. \A fact \in told[a] : status[fact.request] = fact.status
                            /\ fact.status \in Lifecycle!TerminalStatus
  BY FactTypes DEF IntakeInv, ToldIsTrue
<1>3. \A fact \in told[a] :
        r = fact.request => op = "result" /\ fact.status # "CONFIRMED"
  BY <1>1, <1>2 DEF RowExists, Lifecycle!TerminalStatus
<1> QED BY <1>1, <1>3, GivenIsTrue

LEMMA ReadAtOnceIsTrue ==
  ASSUME IntakeInv, NEW op \in {"status", "result"}, NEW a \in Actors, NEW r, ReadAtOnce(op, a, r)
  PROVE  AnswersAreTrue'
<1> DEFINE shown == IF CanRead(a, r) THEN status[r] ELSE "null"
<1>1. Give(op, a, r, told[a], shown)
  BY DEF ReadAtOnce, Visible, CanReadReservationRequest, CanReadReservation, CanRead
<1>2. \A fact \in told[a] : r = fact.request => shown = fact.status
  BY DEF IntakeInv, ToldIsTrue
<1> HIDE DEF shown
<1> QED BY <1>1, <1>2, GivenIsTrue

LEMMA ReadSeatsIsTrue ==
  ASSUME IntakeInv, NEW c \in Calls, ReadSeats(c) PROVE AnswersAreTrue'
<1> DEFINE k == call[c]
           shown == IF CanRead(k.actor, k.subject) THEN k.status ELSE "null"
<1>1. k # NoCall
  BY DEF ReadSeats
<1>2. k \in OpenCall
  BY <1>1, ShownBySeats
<1>3. Give(k.op, k.actor, k.subject, k.before, shown)
  BY <1>1, ShownBySeats DEF ReadSeats
<1>4. k.op \in {"status", "result"} /\ k.actor \in Actors
  BY <1>2 DEF OpenCall
<1>5. \A fact \in k.before : k.subject = fact.request => shown = fact.status
  <2> SUFFICES ASSUME NEW fact \in k.before, k.subject = fact.request PROVE shown = fact.status
    OBVIOUS
  <2>1. fact \in told[k.actor] /\ k.status = fact.status
    BY <1>1 DEF IntakeInv, CallsAreTrue
  <2>2. CanRead(k.actor, k.subject)
    BY <1>4, <2>1 DEF IntakeInv, ToldIsTrue
  <2> QED BY <2>1, <2>2
<1> HIDE DEF shown, k
<1> QED BY <1>3, <1>4, <1>5, GivenIsTrue

\* A seat of a confirmed request is listed for every screening of its provider.
LEMMA ConfirmedSeatsAreListed ==
  ASSUME IntakeInv, NEW a \in Actors, NEW sc, NEW fact \in told[a], fact.status = "CONFIRMED",
         NEW s \in Seats, <<sc, s>> \in seats[fact.request]
  PROVE  Owns(ProviderOf[a], sc) /\ s \in SeatsByScreening(ProviderOf[a], sc) /\ <<sc, s>> \in SeatsTaken
<1> DEFINE r == fact.request
<1>1. r \in Requests /\ status[r] = "CONFIRMED" /\ SameProvider(a, r)
  BY FactTypes DEF IntakeInv, ToldIsTrue, CanRead
<1>2. PICK x \in Screenings :
        /\ seats[r] \subseteq {x} \X Seats
        /\ catalog.owner[catalog.hall[x]] = ProviderOf[requestedBy[r]]
        /\ \A y \in Seats : <<x, y>> \in seats[r] => catalog.place[y] = catalog.hall[x]
  BY <1>1 DEF IntakeInv, StoreInv, SavedRequestsAreServable
<1>3. x = sc
  BY <1>2
<1>4. catalog.place[s] = catalog.hall[sc] /\ catalog.owner[catalog.hall[sc]] = ProviderOf[a]
  BY <1>1, <1>2, <1>3 DEF SameProvider
<1>5. <<sc, s>> \in SeatsTaken
  BY <1>1 DEF SeatsTaken
<1> QED BY <1>4, <1>5 DEF Owns, SeatsByScreening, SeatOf

LEMMA ReadAvailabilityIsTrue ==
  ASSUME IntakeInv, NEW a \in Actors, NEW sc, ReadAvailability(a, sc) PROVE AnswersAreTrue'
<1> DEFINE listed == SeatsByScreening(ProviderOf[a], sc)
<1>1. /\ answer'.op = "availability" /\ answer'.subject = sc /\ answer'.actor = a
      /\ answer'.before = told[a]
      /\ answer'.occupied = {s \in listed : <<sc, s>> \in SeatsTaken}
      /\ answer'.rows = Cardinality(listed)
  <2>1. Cardinality(listed) = answer'.rows
    BY OneRowForEachSeat DEF ReadAvailability
  <2> QED BY <2>1 DEF ReadAvailability
<1>2. UNCHANGED <<status, seats, catalog>>
  BY DEF ReadAvailability, tableVars, catalog
<1>3. ReadsNeverGoBack'
  BY <1>1, <1>2, ConfirmedSeatsAreListed DEF ReadsNeverGoBack
<1>4. SeatsByScreening(ProviderOf[a], sc)' = listed
  BY <1>2 DEF SeatsByScreening, Owns, SeatOf
<1>5. AvailabilityIsExact'
  <2>1. \A s \in answer'.occupied :
          \E r \in Requests : status[r] = "CONFIRMED" /\ <<sc, s>> \in seats[r]
    BY <1>1 DEF SeatsTaken
  <2> QED BY <1>1, <1>2, <1>4, <2>1 DEF AvailabilityIsExact
<1> QED BY <1>3, <1>5 DEF AnswersAreTrue

LEMMA FindNoScreeningIsTrue ==
  ASSUME IntakeInv, NEW a \in Actors, NEW sc, FindNoScreening(a, sc) PROVE AnswersAreTrue'
<1>1. /\ answer'.op = "availability" /\ answer'.subject = sc /\ answer'.actor = a
      /\ answer'.before = told[a] /\ answer'.occupied = {} /\ answer'.rows = 0
      /\ ~Owns(ProviderOf[a], sc)
  BY DEF FindNoScreening, Give
<1>2. UNCHANGED <<status, seats, catalog>>
  BY DEF FindNoScreening, tableVars, catalog
<1>3. ReadsNeverGoBack'
  BY <1>1, <1>2, ConfirmedSeatsAreListed DEF ReadsNeverGoBack
<1>4. SeatsByScreening(ProviderOf[a], sc)' = {}
  BY <1>1, <1>2 DEF SeatsByScreening, Owns
<1>5. AvailabilityIsExact'
  BY <1>1, <1>4, FS_EmptySet DEF AvailabilityIsExact
<1> QED BY <1>3, <1>5 DEF AnswersAreTrue

AnswersInv == IntakeInv /\ AnswersAreTrue

LEMMA AnswersStepInv == AnswersInv /\ [Next]_vars => AnswersInv'
<1> SUFFICES ASSUME AnswersInv, [Next]_vars PROVE AnswersAreTrue'
  BY StepInv DEF AnswersInv
<1>0. scenario.actors \subseteq Actors
  BY CatalogueTypes DEF AnswersInv, IntakeInv, StoreInv, StoreTypes
<1>1. ASSUME NEW a \in scenario.actors, NEW r \in scenario.requests, NEW ask \in scenario.asked,
             RequestReservation(a, r, ask[1], ask[2]) \/ RefuseRequest(a, r, ask[1], ask[2])
      PROVE  AnswersAreTrue'
  <2>1. CASE RequestReservation(a, r, ask[1], ask[2])
    BY <2>1, NoAnswerIsTrue DEF RequestReservation
  <2>2. CASE RefuseRequest(a, r, ask[1], ask[2])
    <3>1. Give("request", a, ask[1], told[a], "error")
      BY <2>2 DEF RefuseRequest
    <3> QED BY <3>1, GivenIsTrue
  <2> QED BY <1>1, <2>1, <2>2
<1>2. ASSUME NEW a \in scenario.actors, NEW r \in scenario.requests, NEW op \in {"status", "result"},
             FindNoRow(op, a, r) \/ ReadAtOnce(op, a, r) \/ \E c \in scenario.calls : ReadRow(c, op, a, r)
      PROVE  AnswersAreTrue'
  <2>1. CASE \E c \in scenario.calls : ReadRow(c, op, a, r)
    BY <2>1, NoAnswerIsTrue DEF ReadRow
  <2> QED BY <1>0, <1>2, <2>1, FindNoRowIsTrue, ReadAtOnceIsTrue DEF AnswersInv
<1>3. ASSUME NEW c \in Calls, ReadSeats(c) \/ ReadFails(c) PROVE AnswersAreTrue'
  <2>1. CASE ReadFails(c)
    BY <2>1, NoAnswerIsTrue DEF ReadFails
  <2> QED BY <1>3, <2>1, ReadSeatsIsTrue DEF AnswersInv
<1>4. ASSUME NEW a \in scenario.actors, NEW sc, ReadAvailability(a, sc) \/ FindNoScreening(a, sc)
      PROVE  AnswersAreTrue'
  BY <1>0, <1>4, ReadAvailabilityIsTrue, FindNoScreeningIsTrue DEF AnswersInv
<1>5. ASSUME NEW r \in Requests, Work(r) PROVE AnswersAreTrue'
  BY <1>5, NoAnswerIsTrue DEF Work
<1>6. CASE UNCHANGED vars
  <2>1. UNCHANGED <<answer, status, seats, catalog>>
    BY <1>6 DEF vars, tableVars, catalog
  <2>2. ReadsNeverGoBack'
    BY <2>1 DEF AnswersInv, AnswersAreTrue, ReadsNeverGoBack
  <2>3. AvailabilityIsExact'
    BY <2>1 DEF AnswersInv, AnswersAreTrue, AvailabilityIsExact, SeatsByScreening, Owns, SeatOf
  <2> QED BY <2>2, <2>3 DEF AnswersAreTrue
<1> QED BY <1>1, <1>2, <1>3, <1>4, <1>5, <1>6 DEF Next

\* The reads of movie-reservations.service.ts and screening-availability.service.ts:
\* however polls, workers and other users' requests are interleaved, a final status
\* or an occupied seat that an actor was shown is never taken back by a later read,
\* and a screening lists each of its seats once.
THEOREM AnswersStayTrue == Spec => []AnswersAreTrue
<1>1. Init => AnswersAreTrue
  BY DEF Init, AnswersAreTrue, ReadsNeverGoBack, AvailabilityIsExact
<1>2. Init => AnswersInv
  BY <1>1, InitInv DEF AnswersInv
<1>3. AnswersInv => AnswersAreTrue
  BY DEF AnswersInv
<1> QED BY <1>2, <1>3, AnswersStepInv, PTL DEF Spec
=================================================================================
