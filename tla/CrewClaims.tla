----------------------------- MODULE CrewClaims -----------------------------
(***************************************************************************)
(* Who may use a driver and the vehicles, and when: booking a trip,        *)
(* starting it, arranging a handover of it and completing one all claim    *)
(* crew (orchestration/trips/availability.py, trips/creation.py,           *)
(* phases/scheduling.py, substitutions/eligibility.py and service.py).     *)
(*                                                                         *)
(* Each claim is one database transaction that locks rows one at a time,   *)
(* in the order trip, drivers, vehicles, then reads what the other trips   *)
(* hold, and writes at its commit.  Between any two of those steps other   *)
(* transactions and the clock run.  The handlers that lock only the trip   *)
(* (override, later phases, cancelling a handover, ending the trip) are    *)
(* one step each while nobody holds that lock.                             *)
(***************************************************************************)
EXTENDS Integers, FiniteSets

CONSTANTS
  Trips,         \* the trips dispatchers book, by id
  Drivers,       \* by id: the lock order needs one
  Vehicles,      \* horses and trailers, by id
  BookedDriver,  \* trips.driver_id: the driver a trip is booked for
  VehiclesOf,    \* the horse and the trailers of a trip
  Start,         \* its planned departure
  End,           \* its planned end: the arrival, or the last timed stop
  OnStops,       \* trips whose end is known from their stops only
  Workers,       \* transactions that may be open at once
  Exchanges,     \* exchange times dispatchers agree on
  Formats,       \* handover request formats in use
  NoOffer,       \* no pending handover
  NoClaim,       \* no transaction open
  DayLength,     \* time units in a day
  UtcOffset,     \* the operator's offset from UTC
  Forever,       \* "until it is closed or cancelled"
  MaxTime        \* bound: when the clock stops

Time == 0 .. MaxTime

ASSUME CrewAssumption ==
  /\ Trips \subseteq Nat /\ Drivers \subseteq Nat /\ Vehicles \subseteq Nat
  /\ BookedDriver \in [Trips -> Drivers]
  /\ VehiclesOf \in [Trips -> SUBSET Vehicles]

ASSUME TimeAssumption ==
  /\ MaxTime \in Nat /\ Forever \in Nat /\ MaxTime < Forever
  /\ Start \in [Trips -> Nat] /\ End \in [Trips -> Nat]
  /\ \A t \in Trips : Start[t] < End[t] /\ End[t] < Forever
  /\ Exchanges \subseteq Nat \ {0} /\ \A x \in Exchanges : x < Forever
  /\ DayLength \in Nat \ {0} /\ UtcOffset \in Nat
  /\ Formats \subseteq {"planned_v1", "immediate_v2"}
  /\ OnStops \subseteq Trips

\* The database serves a bounded number of connections.
ASSUME WorkersAssumption == IsFiniteSet(Workers)

VARIABLES
  status,    \* trips.status; "none" before creation, "over" once terminal
  progress,  \* the activation row, and "moved on" after an overridden one
  holder,    \* the driver who holds the trip now
  offer,     \* the pending handover of the trip
  now,       \* the clock
  stage,     \* how far each transaction is
  claim,     \* what each transaction is about
  wants,     \* rows it has yet to lock
  holds      \* row locks it holds until it commits or rolls back

trips == <<status, progress, holder, offer>>
work == <<stage, claim, wants, holds>>
vars == <<trips, now, work>>

\* Row identities, ordered by table first: the lock order of spec D8.
TripRow(t) == <<0, t>>
DriverRow(d) == <<1, d>>
VehicleRow(v) == <<2, v>>

Rows == {TripRow(t) : t \in Trips} \union {DriverRow(d) : d \in Drivers}
          \union {VehicleRow(v) : v \in Vehicles}

Before(r, s) == r[1] < s[1] \/ (r[1] = s[1] /\ r[2] < s[2])

CrewRows(t, ds) ==
  {DriverRow(d) : d \in ds} \union {VehicleRow(v) : v \in VehiclesOf[t]}

Offers == [incoming : Drivers, from : 0 .. Forever - 1, format : Formats]

Ops == {"create", "activate", "arrange", "replace", "complete"}

Claims == [op : Ops, trip : Trips, offer : Offers \union {NoOffer}, seen : Time]

ASSUME NothingAssumption == NoOffer \notin Offers /\ NoClaim \notin Claims

Live(t) == status[t] = "active"
Occupying(t) == status[t] \in {"created", "active"}

Free(r) == \A w \in Workers : r \notin holds[w]

Day(x) == (x + UtcOffset) \div DayLength
-----------------------------------------------------------------------------
(* Plausible slips, for the mutation check of the runs.                    *)

AnyRow(S) == S

HeldAsPlanned(t, n) ==
  [from |-> Start[t], until |-> IF Live(t) /\ End[t] <= n THEN Forever ELSE End[t]]

NoReservations(d, x, n) == {}

LocksOutlive(w) ==
  /\ stage' = [stage EXCEPT ![w] = "idle"]
  /\ claim' = [claim EXCEPT ![w] = NoClaim]
  /\ UNCHANGED <<wants, holds>>

DriverNotLocked(t) == {VehicleRow(v) : v \in VehiclesOf[t]}
-----------------------------------------------------------------------------
(* The one rule for who is busy when: half-open windows.                   *)

Overlap(a, b) == a.from < b.until /\ b.from < a.until

Planned(t) == [from |-> Start[t], until |-> End[t]]

\* A live trip holds its crew from now if it began early, and until it is
\* closed once it has overrun.
HeldWindow(t, n) ==
  [from |-> IF Live(t) /\ Start[t] > n THEN n ELSE Start[t],
   until |-> IF Live(t) /\ End[t] <= n THEN Forever ELSE End[t]]

ReservedWindow(o, end, n) ==
  [from |-> o.from,
   until |-> IF \/ o.format = "immediate_v2"
                \/ o.from <= n \/ end = Forever \/ end <= n \/ end <= o.from
             THEN Forever ELSE end]

\* trips.planned_arrival_at, the only end the handover rules look at
Arrival(t) == IF t \in OnStops THEN Forever ELSE End[t]

TakeoverWindow(t, n) ==
  [from |-> n, until |-> IF Arrival(t) > n THEN Arrival(t) ELSE Forever]

\* trips that hold driver d, or have it reserved, at some point of window x
HoldingDriver(d, x, n) ==
  {t \in Trips : Occupying(t) /\ holder[t] = d /\ Overlap(HeldWindow(t, n), x)}

ReservingDriver(d, x, n) ==
  {t \in Trips : /\ Occupying(t) /\ offer[t] # NoOffer
                 /\ offer[t].incoming = d /\ holder[t] # d
                 /\ Overlap(ReservedWindow(offer[t], End[t], n), x)}

HoldingVehicles(vs, x, n) ==
  {t \in Trips : /\ Occupying(t) /\ VehiclesOf[t] \intersect vs # {}
                 /\ Overlap(HeldWindow(t, n), x)}

\* The driver is committed to no other trip at any point of window x.
DriverFree(d, x, n, t) ==
  HoldingDriver(d, x, n) \union ReservingDriver(d, x, n) \subseteq {t}
-----------------------------------------------------------------------------
(* Opening a transaction and locking its rows.                             *)

Init ==
  /\ status = [t \in Trips |-> "none"]
  /\ progress = [t \in Trips |-> "pending"]
  /\ holder = BookedDriver
  /\ offer = [t \in Trips |-> NoOffer]
  /\ now = 0
  /\ stage = [w \in Workers |-> "idle"]
  /\ claim = [w \in Workers |-> NoClaim]
  /\ wants = [w \in Workers |-> {}]
  /\ holds = [w \in Workers |-> {}]

\* The transaction ends, with a commit or a rollback, and its locks with it.
Finish(w) ==
  /\ stage' = [stage EXCEPT ![w] = "idle"]
  /\ claim' = [claim EXCEPT ![w] = NoClaim]
  /\ wants' = [wants EXCEPT ![w] = {}]
  /\ holds' = [holds EXCEPT ![w] = {}]

\* create_trip locks the crew it was asked for, and no trip.
BookingRows(t) == CrewRows(t, {BookedDriver[t]})

Book(w, t) ==
  /\ stage[w] = "idle" /\ status[t] = "none"
  /\ \A v \in Workers : claim[v] # NoClaim => ~(claim[v].op = "create" /\ claim[v].trip = t)
  /\ stage' = [stage EXCEPT ![w] = "crew"]
  /\ claim' = [claim EXCEPT ![w] = [op |-> "create", trip |-> t, offer |-> NoOffer, seen |-> 0]]
  /\ wants' = [wants EXCEPT ![w] = BookingRows(t)]
  /\ UNCHANGED <<trips, now, holds>>

\* What each handler requires of the trip once it holds the trip's lock.
MayProceed(op, t, o) ==
  CASE op = "activate" -> /\ Occupying(t) /\ progress[t] = "pending"
                          /\ Day(now) >= Day(Start[t])
    [] op = "arrange"  -> Live(t) /\ offer[t] = NoOffer /\ o.incoming # holder[t]
    [] op = "replace"  -> Live(t) /\ offer[t] # NoOffer /\ o.incoming # holder[t]
    [] op = "complete" -> Live(t) /\ offer[t] = o

\* The handovers a claim may be about: what a dispatcher asks for, an
\* immediate one dated by the server; or the pending one.
OffersFor(op, t) ==
  CASE op = "activate" -> {NoOffer}
    [] op = "complete" -> {offer[t]} \ {NoOffer}
    [] op \in {"arrange", "replace"} ->
         {o \in [incoming : Drivers, from : Exchanges \union {now}, format : Formats] :
            IF o.format = "immediate_v2" THEN o.from = now ELSE o.from \in Exchanges}

ClaimedDrivers(t, o) == {holder[t]} \union IF o = NoOffer THEN {} ELSE {o.incoming}

\* The trip's lock, the checks under it, and what there is to lock next.  A
\* request that waits for the lock is one that has not been made yet, and
\* one that is turned away changes nothing.
LockTrip(w, op, t, o) ==
  /\ stage[w] = "idle" /\ Free(TripRow(t)) /\ MayProceed(op, t, o)
  /\ stage' = [stage EXCEPT ![w] = "crew"]
  /\ claim' = [claim EXCEPT ![w] = [op |-> op, trip |-> t, offer |-> o,
                                    seen |-> IF op \in {"arrange", "replace"} THEN now ELSE 0]]
  /\ wants' = [wants EXCEPT ![w] = CrewRows(t, ClaimedDrivers(t, o))]
  /\ holds' = [holds EXCEPT ![w] = {TripRow(t)}]
  /\ UNCHANGED <<trips, now>>

\* lock_crew_set: drivers by id, then vehicles by id
Foremost(S) == {r \in S : \A s \in S \ {r} : Before(r, s)}

LockCrew(w) == \E r \in Foremost(wants[w]) :
  /\ stage[w] = "crew" /\ Free(r)
  /\ wants' = [wants EXCEPT ![w] = @ \ {r}]
  /\ holds' = [holds EXCEPT ![w] = @ \union {r}]
  /\ UNCHANGED <<trips, now, stage, claim>>
-----------------------------------------------------------------------------
(* Deciding with the locks held, and committing.                           *)

Underway(t) == {o \in Trips \ {t} : Live(o) /\
  (holder[o] = holder[t] \/ VehiclesOf[o] \intersect VehiclesOf[t] # {})}

EarlierToday(t) == {o \in Trips \ {t} :
  /\ status[o] = "created" /\ holder[o] = holder[t]
  /\ Day(Start[o]) = Day(Start[t]) /\ Start[o] < Start[t]}

Grantable(c) == LET t == c.trip IN
  CASE c.op = "create" ->
         /\ DriverFree(BookedDriver[t], Planned(t), now, t)
         /\ HoldingVehicles(VehiclesOf[t], Planned(t), now) = {}
    [] c.op = "activate" -> Underway(t) = {} /\ EarlierToday(t) = {}
    [] c.op = "complete" -> DriverFree(c.offer.incoming, TakeoverWindow(t, now), now, t)
    [] c.op \in {"arrange", "replace"} ->
         DriverFree(c.offer.incoming, ReservedWindow(c.offer, Arrival(t), c.seen), c.seen, t)

Check(w) ==
  /\ stage[w] = "crew" /\ wants[w] = {} /\ Grantable(claim[w])
  /\ stage' = [stage EXCEPT ![w] = "checked"]
  /\ UNCHANGED <<trips, now, claim, wants, holds>>

Refuse(w) ==
  /\ stage[w] = "crew" /\ wants[w] = {} /\ ~Grantable(claim[w])
  /\ Finish(w)
  /\ UNCHANGED <<trips, now>>

CommitBooking(w) == LET t == claim[w].trip IN
  /\ stage[w] = "checked" /\ claim[w].op = "create"
  /\ status' = [status EXCEPT ![t] = "created"]
  /\ Finish(w)
  /\ UNCHANGED <<progress, holder, offer, now>>

CommitActivation(w) == LET t == claim[w].trip IN
  /\ stage[w] = "checked" /\ claim[w].op = "activate"
  /\ status' = [status EXCEPT ![t] = "active"]
  /\ progress' = [progress EXCEPT ![t] = "completed"]
  /\ Finish(w)
  /\ UNCHANGED <<holder, offer, now>>

\* A replacement cancels the old request and adds the new one at once.
CommitOffer(w) == LET c == claim[w] IN
  /\ stage[w] = "checked" /\ c.op \in {"arrange", "replace"}
  /\ offer' = [offer EXCEPT ![c.trip] = c.offer]
  /\ Finish(w)
  /\ UNCHANGED <<status, progress, holder, now>>

CommitHandover(w) == LET c == claim[w] IN
  /\ stage[w] = "checked" /\ c.op = "complete"
  /\ holder' = [holder EXCEPT ![c.trip] = c.offer.incoming]
  /\ offer' = [offer EXCEPT ![c.trip] = NoOffer]
  /\ Finish(w)
  /\ UNCHANGED <<status, progress, now>>

\* A write fails, the anchor is unreachable or the server stops.
Rollback(w) ==
  /\ stage[w] = "checked"
  /\ Finish(w)
  /\ UNCHANGED <<trips, now>>
-----------------------------------------------------------------------------
(* Handlers that lock the trip alone, and the clock.                       *)

OverrideActivation(t) ==
  /\ Free(TripRow(t)) /\ Occupying(t) /\ progress[t] = "pending"
  /\ progress' = [progress EXCEPT ![t] = "overridden"]
  /\ UNCHANGED <<status, holder, offer, now, work>>

\* The driver completes a later phase; the gate admits a created trip.
MoveOn(t) ==
  /\ Free(TripRow(t)) /\ Occupying(t) /\ progress[t] = "overridden"
  /\ progress' = [progress EXCEPT ![t] = "moved on"]
  /\ UNCHANGED <<status, holder, offer, now, work>>

CancelOffer(t) ==
  /\ Free(TripRow(t)) /\ offer[t] # NoOffer
  /\ offer' = [offer EXCEPT ![t] = NoOffer]
  /\ UNCHANGED <<status, progress, holder, now, work>>

\* Closed by its last phase, or cancelled; a pending handover ends with it.
EndTrip(t) ==
  /\ Free(TripRow(t)) /\ Occupying(t)
  /\ status' = [status EXCEPT ![t] = "over"]
  /\ offer' = [offer EXCEPT ![t] = NoOffer]
  /\ UNCHANGED <<progress, holder, now, work>>

Tick ==
  /\ now < MaxTime
  /\ now' = now + 1
  /\ UNCHANGED <<trips, work>>

Transaction(w) ==
  \/ LockCrew(w) \/ Check(w) \/ Refuse(w)
  \/ CommitBooking(w) \/ CommitActivation(w) \/ CommitOffer(w) \/ CommitHandover(w)

Next ==
  \/ \E w \in Workers, t \in Trips : Book(w, t)
  \/ \E w \in Workers, t \in Trips, op \in Ops \ {"create"} :
       \E o \in OffersFor(op, t) : LockTrip(w, op, t, o)
  \/ \E w \in Workers : Transaction(w) \/ Rollback(w)
  \/ \E t \in Trips : OverrideActivation(t) \/ MoveOn(t) \/ CancelOffer(t) \/ EndTrip(t)
  \/ Tick

Spec == Init /\ [][Next]_vars
-----------------------------------------------------------------------------
(* Properties.                                                             *)

\* Every variable has its type, and a transaction that is not open holds
\* nothing.
TypeOK ==
  /\ status \in [Trips -> {"none", "created", "active", "over"}]
  /\ progress \in [Trips -> {"pending", "completed", "overridden", "moved on"}]
  /\ holder \in [Trips -> Drivers]
  /\ offer \in [Trips -> Offers \union {NoOffer}]
  /\ now \in Time
  /\ stage \in [Workers -> {"idle", "crew", "checked"}]
  /\ claim \in [Workers -> Claims \union {NoClaim}]
  /\ \A w \in Workers : IF stage[w] = "idle" THEN holds[w] = {} /\ wants[w] = {}
                                             ELSE claim[w] \in Claims
  /\ wants \in [Workers -> SUBSET Rows]
  /\ holds \in [Workers -> SUBSET Rows]

\* No two trips that were both started by their driver share the driver who
\* holds them now, the horse or a trailer, whatever activations, handovers
\* and endings ran between (scheduling.py _claim_crew_for_activation,
\* eligibility.py first_completion_blocker).
OneTripAtATime ==
  \A t, o \in Trips : t # o /\ Live(t) /\ Live(o) =>
    holder[t] # holder[o] /\ VehiclesOf[t] \intersect VehiclesOf[o] = {}

\* No driver and no vehicle is committed twice for the same part of what is
\* left of the plan: by the trips they are on, and by the rest of a trip
\* that a pending handover reserves them for (creation.py _claim_crew,
\* eligibility.py require_arrangeable and first_completion_blocker).
CommittedFrom(t, r) ==
  IF ~Occupying(t) THEN {} ELSE
    {x \in {Start[t]} : r \in CrewRows(t, {holder[t]})} \union
    {o.from : o \in {p \in {offer[t]} \ {NoOffer} : r = DriverRow(p.incoming)}}

NoDoubleBooking ==
  \A t, o \in Trips, r \in Rows : t # o =>
    \A a \in CommittedFrom(t, r), b \in CommittedFrom(o, r) :
      \E x \in {a, b, now} : End[t] <= x \/ End[o] <= x

\* Every row w may lock next is held in S.
Blocked(w, S) ==
  /\ wants[w] # {}
  /\ \A r \in Foremost(wants[w]) : \E v \in S : r \in holds[v]

\* Bookings, activations and handovers never wait for each other in a circle
\* (availability.py lock_crew_set, spec D8).
NoWaitCycle ==
  \A S \in (SUBSET Workers) \ {{}} : \E w \in S : ~Blocked(w, S)

\* A driver starts the trips of one day in the order of their departures,
\* also when the earlier one is booked while the later one is being started
\* (scheduling.py _reject_if_an_earlier_trip_is_due, spec D10).
StartedInOrder == [][\A t \in Trips : ~Live(t) /\ Live(t)' => EarlierToday(t)' = {}]_vars
=============================================================================
