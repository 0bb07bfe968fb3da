--------------------------- MODULE CrewClaims_proofs ---------------------------
(***************************************************************************)
(* Proofs about CrewClaims: a driver and a vehicle are on one trip at a    *)
(* time and are never committed twice, and the trips of a day start in     *)
(* order, for any trips, crews, plans and number of transactions.          *)
(*                                                                         *)
(* The argument: what a transaction found free stays free until it         *)
(* commits, because a trip gains a commitment on a row only at the commit  *)
(* of a transaction that holds the row's lock, and no two hold one lock.   *)
(***************************************************************************)
EXTENDS CrewClaims, FiniteSetTheorems, WellFoundedInduction, TLAPS

\* No row is locked twice.
LocksExclusive == \A w, v \in Workers : w # v => holds[w] \intersect holds[v] = {}

\* Every row a claim stands on is locked, or still to be locked: the trip,
\* its vehicles, the driver it is on or booked for, and the driver offered.
ClaimsDriver(w, t, d) ==
  IF claim[w].op = "create" THEN d = BookedDriver[t]
  ELSE d = holder[t] \/ (claim[w].offer # NoOffer /\ claim[w].offer.incoming = d)

CrewLocked == \A w \in Workers, t \in Trips :
  stage[w] # "idle" /\ claim[w].trip = t =>
    /\ claim[w].op # "create" => TripRow(t) \in holds[w]
    /\ \A v \in VehiclesOf[t] : VehicleRow(v) \in holds[w] \union wants[w]
    /\ \A d \in Drivers : ClaimsDriver(w, t, d) => DriverRow(d) \in holds[w] \union wants[w]
    /\ stage[w] = "checked" => wants[w] = {}

\* A trip nobody has created yet carries nothing, and no driver is offered a
\* trip they are on.
Carried == \A t \in Trips :
  /\ status[t] = "none" => holder[t] = BookedDriver[t] /\ offer[t] = NoOffer
  /\ offer[t] # NoOffer => offer[t].incoming # holder[t]

\* What a claim found of its trip when it was made, it still finds.
ClaimsStand == \A w \in Workers, t \in Trips :
  stage[w] # "idle" /\ claim[w].trip = t =>
    /\ claim[w].op = "create" => status[t] = "none"
    /\ claim[w].op = "activate" => Occupying(t)
    /\ claim[w].op \in {"arrange", "replace", "complete"} =>
         Live(t) /\ claim[w].offer # NoOffer /\ claim[w].offer.incoming # holder[t]
    /\ claim[w].seen <= now

OneBooking == \A w, v \in Workers :
  /\ w # v /\ stage[w] # "idle" /\ stage[v] # "idle"
  /\ claim[w].op = "create" /\ claim[v].op = "create"
  => claim[w].trip # claim[v].trip

\* Trip t may be committed to row r from time a on: no other trip clashes.
Clear(t, r, a) ==
  \A o \in Trips \ {t} : \A b \in CommittedFrom(o, r) :
    \E x \in {a, b, now} : End[t] <= x \/ End[o] <= x

\* The commitments of trip t the commit of w will add.
Asks(w, t, r, a) ==
  /\ claim[w].trip = t
  /\ \/ claim[w].op = "create" /\ r \in BookingRows(t) /\ a = Start[t]
     \/ /\ claim[w].op \in {"arrange", "replace"}
        /\ r = DriverRow(claim[w].offer.incoming) /\ a = claim[w].offer.from
     \/ claim[w].op = "complete" /\ r = DriverRow(claim[w].offer.incoming) /\ a = Start[t]

Starts(w, t) == claim[w].op = "activate" /\ claim[w].trip = t
HandsTo(w, t, d) ==
  claim[w].op = "complete" /\ claim[w].trip = t /\ claim[w].offer.incoming = d

NotOn(d, t) == \A o \in Trips \ {t} : Live(o) => holder[o] # d

\* What the checks of the open transactions established.
ClearAsked == \A w \in Workers, t \in Trips, r \in Rows, a \in Nat :
  stage[w] = "checked" /\ Asks(w, t, r, a) => Clear(t, r, a)

StartsFree == \A w \in Workers, t \in Trips :
  stage[w] = "checked" /\ Starts(w, t) => Underway(t) = {} /\ EarlierToday(t) = {}

HandsFree == \A w \in Workers, t \in Trips, d \in Drivers :
  stage[w] = "checked" /\ HandsTo(w, t, d) => NotOn(d, t)

IInv ==
  /\ TypeOK /\ LocksExclusive /\ CrewLocked /\ Carried /\ ClaimsStand /\ OneBooking
  /\ ClearAsked /\ StartsFree /\ HandsFree
  /\ OneTripAtATime /\ NoDoubleBooking

-----------------------------------------------------------------------------
\* The clock stops before the end that stands for no end.
LEMMA Clock == MaxTime \in Nat /\ Forever \in Nat /\ MaxTime < Forever
  BY TimeAssumption

LEMMA NowTyped == TypeOK => now \in Nat /\ now <= MaxTime /\ now \in 0 .. Forever - 1
  <1> SUFFICES ASSUME TypeOK PROVE now \in Nat /\ now <= MaxTime /\ now \in 0 .. Forever - 1
    OBVIOUS
  <1>1. now \in Time
    BY DEF TypeOK
  <1>2. QED
    BY <1>1, Clock DEF Time

LEMMA ExchangesTyped == Exchanges \subseteq 0 .. Forever - 1
  BY TimeAssumption, Clock

\* Nothing is booked, and no transaction is open, at the start.
LEMMA InitIInv == Init => IInv
  <1> SUFFICES ASSUME Init PROVE IInv
    OBVIOUS
  <1>1. TypeOK
    BY CrewAssumption, TimeAssumption DEF Init, TypeOK, Time
  <1>2. LocksExclusive /\ CrewLocked /\ ClaimsStand /\ OneBooking
    BY DEF Init, LocksExclusive, CrewLocked, ClaimsStand, OneBooking
  <1>3. Carried
    BY DEF Init, Carried
  <1>4. ClearAsked /\ StartsFree /\ HandsFree
    BY DEF Init, ClearAsked, StartsFree, HandsFree
  <1>5. OneTripAtATime /\ NoDoubleBooking
    BY DEF Init, OneTripAtATime, NoDoubleBooking, CommittedFrom, Live, Occupying
  <1>6. QED
    BY <1>1, <1>2, <1>3, <1>4, <1>5 DEF IInv

\* The crew of a trip is made of rows.
LEMMA CrewIsRows ==
  ASSUME NEW t \in Trips, NEW ds \in SUBSET Drivers
  PROVE  CrewRows(t, ds) \subseteq Rows /\ TripRow(t) \in Rows
  BY CrewAssumption DEF CrewRows, Rows

\* What a request names is a handover or nothing.
LEMMA OffersTyped ==
  ASSUME TypeOK, NEW t \in Trips, NEW op \in Ops \ {"create"}, NEW o \in OffersFor(op, t)
  PROVE  /\ o \in Offers \union {NoOffer}
         /\ op \in {"arrange", "replace", "complete"} => o # NoOffer
         /\ op = "activate" => o = NoOffer
  <1>1. CASE op = "activate"
    BY <1>1 DEF OffersFor
  <1>2. CASE op = "complete"
    BY <1>2 DEF OffersFor, TypeOK
  <1>3. CASE op \in {"arrange", "replace"}
    <2>1. now \in 0 .. Forever - 1 /\ Exchanges \subseteq 0 .. Forever - 1
      BY NowTyped, ExchangesTyped
    <2>2. o \in [incoming : Drivers, from : Exchanges \union {now}, format : Formats]
      BY <1>3 DEF OffersFor
    <2>3. o \in Offers
      BY <2>1, <2>2 DEF Offers
    <2>4. QED
      BY <1>3, <2>3, NothingAssumption
  <1>4. QED
    BY <1>1, <1>2, <1>3 DEF Ops

\* A finished transaction leaves the other transactions as they are.
LEMMA FinishTyped ==
  ASSUME TypeOK, NEW w \in Workers, Finish(w)
  PROVE  /\ stage' \in [Workers -> {"idle", "crew", "checked"}]
         /\ claim' \in [Workers -> Claims \union {NoClaim}]
         /\ wants' \in [Workers -> SUBSET Rows]
         /\ holds' \in [Workers -> SUBSET Rows]
         /\ stage'[w] = "idle" /\ holds'[w] = {} /\ wants'[w] = {}
         /\ \A v \in Workers \ {w} : /\ stage'[v] = stage[v] /\ claim'[v] = claim[v]
                                     /\ wants'[v] = wants[v] /\ holds'[v] = holds[v]
  BY DEF TypeOK, Finish

\* The type invariant is kept by every step.
LEMMA TypeStep == IInv /\ [Next]_vars => TypeOK'
  <1> SUFFICES ASSUME TypeOK, ClaimsStand, [Next]_vars PROVE TypeOK'
    BY DEF IInv
  <1> USE DEF trips, work
  <1>1. ASSUME NEW w \in Workers, NEW t \in Trips, Book(w, t) PROVE TypeOK'
    <2>1. BookingRows(t) \subseteq Rows
      BY CrewIsRows, CrewAssumption DEF BookingRows
    <2>2. [op |-> "create", trip |-> t, offer |-> NoOffer, seen |-> 0] \in Claims
      BY TimeAssumption DEF Claims, Ops, Time
    <2>3. QED
      BY <1>1, <2>1, <2>2 DEF Book, TypeOK
  <1>2. ASSUME NEW w \in Workers, NEW t \in Trips, NEW op \in Ops \ {"create"},
               NEW o \in OffersFor(op, t), LockTrip(w, op, t, o)
        PROVE  TypeOK'
    <2>1. o \in Offers \union {NoOffer}
      BY OffersTyped
    <2>2. ClaimedDrivers(t, o) \subseteq Drivers
      <3>1. holder[t] \in Drivers
        BY DEF TypeOK
      <3>2. o # NoOffer => o.incoming \in Drivers
        BY <2>1 DEF Offers
      <3>3. QED
        BY <3>1, <3>2 DEF ClaimedDrivers
    <2>3. CrewRows(t, ClaimedDrivers(t, o)) \subseteq Rows /\ TripRow(t) \in Rows
      BY <2>2, CrewIsRows
    <2>4. [op |-> op, trip |-> t, offer |-> o,
           seen |-> IF op \in {"arrange", "replace"} THEN now ELSE 0] \in Claims
      <3>1. (IF op \in {"arrange", "replace"} THEN now ELSE 0) \in Time
        <4>1. now \in Time
          BY DEF TypeOK
        <4>2. QED
          BY <4>1, Clock DEF Time
      <3>2. QED
        BY <2>1, <3>1 DEF Claims
    <2>5. QED
      BY <1>2, <2>3, <2>4 DEF LockTrip, TypeOK
  <1>3. ASSUME NEW w \in Workers, LockCrew(w) PROVE TypeOK'
    <2>1. PICK r \in wants[w] : /\ stage[w] = "crew"
                               /\ wants' = [wants EXCEPT ![w] = @ \ {r}]
                               /\ holds' = [holds EXCEPT ![w] = @ \union {r}]
                               /\ UNCHANGED <<trips, now, stage, claim>>
      BY <1>3 DEF LockCrew, Foremost
    <2>2. r \in Rows
      BY <2>1 DEF TypeOK
    <2>3. QED
      BY <2>1, <2>2 DEF TypeOK
  <1>4. ASSUME NEW w \in Workers, Check(w) PROVE TypeOK'
    BY <1>4 DEF Check, TypeOK
  <1>5. ASSUME NEW w \in Workers, Refuse(w) \/ Rollback(w) PROVE TypeOK'
    BY <1>5, FinishTyped DEF Refuse, Rollback, TypeOK
  <1>6. ASSUME NEW w \in Workers,
               \/ CommitBooking(w) \/ CommitActivation(w) \/ CommitOffer(w) \/ CommitHandover(w)
        PROVE  TypeOK'
    <2>1. /\ Finish(w) /\ stage[w] = "checked"
          /\ claim[w] \in Claims /\ UNCHANGED now
      BY <1>6 DEF CommitBooking, CommitActivation, CommitOffer, CommitHandover, TypeOK
    <2>2. claim[w].trip \in Trips /\ claim[w].offer \in Offers \union {NoOffer}
      BY <2>1 DEF Claims
    <2>3. claim[w].op \in {"arrange", "replace", "complete"} => claim[w].offer \in Offers
      BY <2>1, <2>2 DEF ClaimsStand
    <2>4. claim[w].op = "complete" => claim[w].offer.incoming \in Drivers
      BY <2>3 DEF Offers
    <2>5. /\ status' \in [Trips -> {"none", "created", "active", "over"}]
          /\ progress' \in [Trips -> {"pending", "completed", "overridden", "moved on"}]
      BY <1>6, <2>2 DEF CommitBooking, CommitActivation, CommitOffer, CommitHandover, TypeOK
    <2>6. offer' \in [Trips -> Offers \union {NoOffer}]
      BY <1>6, <2>2 DEF CommitBooking, CommitActivation, CommitOffer, CommitHandover, TypeOK
    <2>7. holder' \in [Trips -> Drivers]
      BY <1>6, <2>2, <2>4 DEF CommitBooking, CommitActivation, CommitOffer, CommitHandover, TypeOK
    <2>8. /\ stage' \in [Workers -> {"idle", "crew", "checked"}]
          /\ claim' \in [Workers -> Claims \union {NoClaim}]
          /\ wants' \in [Workers -> SUBSET Rows] /\ holds' \in [Workers -> SUBSET Rows]
          /\ \A v \in Workers : IF stage'[v] = "idle" THEN holds'[v] = {} /\ wants'[v] = {}
                                                      ELSE claim'[v] \in Claims
      BY <2>1, FinishTyped DEF TypeOK
    <2>9. now' \in Time
      BY <2>1 DEF TypeOK
    <2>10. QED
      BY <2>5, <2>6, <2>7, <2>8, <2>9 DEF TypeOK
  <1>7. ASSUME NEW t \in Trips, OverrideActivation(t) \/ MoveOn(t) \/ CancelOffer(t) \/ EndTrip(t)
        PROVE  TypeOK'
    BY <1>7 DEF OverrideActivation, MoveOn, CancelOffer, EndTrip, TypeOK
  <1>8. CASE Tick
    <2>1. now' \in Time
      BY <1>8, Clock, NowTyped DEF Tick, Time
    <2>2. QED
      BY <1>8, <2>1 DEF Tick, TypeOK
  <1>9. CASE UNCHANGED vars
    BY <1>9 DEF vars, TypeOK
  <1>10. QED
    BY <1>1, <1>2, <1>3, <1>4, <1>5, <1>6, <1>7, <1>8, <1>9 DEF Next, Transaction
-----------------------------------------------------------------------------
(* Transactions and their locks.                                           *)

\* Some step of transaction w.
StepOf(w) ==
  \/ \E t \in Trips : Book(w, t)
  \/ \E t \in Trips, op \in Ops \ {"create"} : \E o \in OffersFor(op, t) : LockTrip(w, op, t, o)
  \/ Transaction(w) \/ Rollback(w)

Commits(w) ==
  CommitBooking(w) \/ CommitActivation(w) \/ CommitOffer(w) \/ CommitHandover(w)

AloneOn(t) == OverrideActivation(t) \/ MoveOn(t) \/ CancelOffer(t) \/ EndTrip(t)

\* A step of one transaction leaves the others as they are.
LEMMA OthersKept ==
  ASSUME TypeOK, NEW w \in Workers, StepOf(w), NEW v \in Workers, v # w
  PROVE  stage'[v] = stage[v] /\ claim'[v] = claim[v] /\ wants'[v] = wants[v] /\ holds'[v] = holds[v]
  <1> USE DEF TypeOK
  <1>1. CASE \E t \in Trips : Book(w, t)
    BY <1>1 DEF Book
  <1>2. CASE \E t \in Trips, op \in Ops \ {"create"} : \E o \in OffersFor(op, t) : LockTrip(w, op, t, o)
    BY <1>2 DEF LockTrip
  <1>3. CASE LockCrew(w)
    BY <1>3 DEF LockCrew
  <1>4. CASE Check(w)
    BY <1>4 DEF Check
  <1>5. CASE Refuse(w) \/ Rollback(w) \/ Commits(w)
    <2>1. Finish(w)
      BY <1>5 DEF Refuse, Rollback, Commits, CommitBooking, CommitActivation, CommitOffer, CommitHandover
    <2>2. QED
      BY <2>1 DEF Finish
  <1>6. QED
    BY <1>1, <1>2, <1>3, <1>4, <1>5 DEF StepOf, Transaction, Commits

\* The steps there are.
LEMMA Steps ==
  [Next]_vars => \/ \E w \in Workers : StepOf(w)
                 \/ \E t \in Trips : AloneOn(t)
                 \/ Tick \/ UNCHANGED vars
  BY DEF Next, StepOf, AloneOn

\* A step that is not one of transaction w.
OtherStep(w) ==
  \/ \E v \in Workers \ {w} : StepOf(v)
  \/ \E t \in Trips : AloneOn(t)
  \/ Tick \/ UNCHANGED vars

LEMMA StepSplit ==
  ASSUME NEW w \in Workers, [Next]_vars
  PROVE  StepOf(w) \/ OtherStep(w)
  BY Steps DEF OtherStep

\* Nothing but a transaction's own step touches it.
LEMMA WorkKept ==
  (\E t \in Trips : AloneOn(t)) \/ Tick \/ UNCHANGED vars => UNCHANGED work
  BY DEF AloneOn, OverrideActivation, MoveOn, CancelOffer, EndTrip, Tick, vars

LEMMA Untouched ==
  ASSUME TypeOK, NEW w \in Workers, OtherStep(w)
  PROVE  stage'[w] = stage[w] /\ claim'[w] = claim[w] /\ wants'[w] = wants[w] /\ holds'[w] = holds[w]
  BY OthersKept, WorkKept DEF OtherStep, work

\* The clock never goes back.
LEMMA TimePasses == TypeOK /\ [Next]_vars => now' >= now
  <1> SUFFICES ASSUME TypeOK, [Next]_vars PROVE now' >= now
    OBVIOUS
  <1>1. CASE Tick
    BY <1>1, NowTyped DEF Tick
  <1>2. CASE ~Tick
    <2>1. now' = now
      BY <1>2 DEF Next, Book, LockTrip, Transaction, LockCrew, Check, Refuse, CommitBooking,
         CommitActivation, CommitOffer, CommitHandover, Rollback, OverrideActivation, MoveOn,
         CancelOffer, EndTrip, vars
    <2>2. QED
      BY <2>1, NowTyped
  <1>3. QED
    BY <1>1, <1>2

\* What a step does to its own transaction: it opens one, locks one row that
\* is free, keeps everything, or ends.
LEMMA OwnWork ==
  ASSUME TypeOK, NEW w \in Workers, StepOf(w)
  PROVE  \/ /\ holds'[w] = holds[w] /\ wants'[w] = wants[w] /\ claim'[w] = claim[w]
            /\ Check(w)
         \/ \E r \in wants[w] : /\ Free(r) /\ holds'[w] = holds[w] \union {r}
                                /\ wants'[w] = wants[w] \ {r} /\ claim'[w] = claim[w]
                                /\ stage[w] = "crew" /\ stage'[w] = "crew" /\ LockCrew(w)
         \/ \E t \in Trips : Book(w, t) /\ holds'[w] = {}
         \/ \E t \in Trips, op \in Ops \ {"create"} : \E o \in OffersFor(op, t) :
              LockTrip(w, op, t, o) /\ Free(TripRow(t)) /\ holds'[w] = {TripRow(t)}
         \/ /\ Refuse(w) \/ Rollback(w) \/ Commits(w)
            /\ stage'[w] = "idle" /\ holds'[w] = {} /\ wants'[w] = {}
  <1> USE DEF TypeOK
  <1>1. CASE \E t \in Trips : Book(w, t)
    BY <1>1 DEF Book
  <1>2. CASE \E t \in Trips, op \in Ops \ {"create"} : \E o \in OffersFor(op, t) : LockTrip(w, op, t, o)
    BY <1>2 DEF LockTrip
  <1>3. CASE LockCrew(w)
    BY <1>3 DEF LockCrew, Foremost
  <1>4. CASE Check(w)
    BY <1>4 DEF Check
  <1>5. CASE Refuse(w) \/ Rollback(w) \/ Commits(w)
    <2>1. Finish(w)
      BY <1>5 DEF Refuse, Rollback, Commits, CommitBooking, CommitActivation, CommitOffer, CommitHandover
    <2>2. QED
      BY <1>5, <2>1 DEF Finish
  <1>6. QED
    BY <1>1, <1>2, <1>3, <1>4, <1>5 DEF StepOf, Transaction, Commits

\* No step gives a row to two transactions.
LEMMA LocksStep == IInv /\ [Next]_vars => LocksExclusive'
  <1> SUFFICES ASSUME IInv, [Next]_vars PROVE LocksExclusive'
    OBVIOUS
  <1>1. TypeOK /\ LocksExclusive
    BY DEF IInv
  <1>2. ASSUME NEW w \in Workers, StepOf(w) PROVE LocksExclusive'
    <2>1. \A v \in Workers \ {w} : holds'[v] = holds[v]
      BY <1>1, <1>2, OthersKept
    <2>2. \A r \in holds'[w] : r \in holds[w] \/ Free(r)
      BY <1>1, <1>2, OwnWork
    <2>3. QED
      BY <1>1, <2>1, <2>2 DEF LocksExclusive, Free
  <1>3. QED
    BY <1>1, <1>2, Steps, WorkKept DEF LocksExclusive, work

\* No step opens a second booking of one trip.
LEMMA OneBookingStep == IInv /\ [Next]_vars => OneBooking'
  <1> SUFFICES ASSUME IInv, [Next]_vars PROVE OneBooking'
    OBVIOUS
  <1>1. TypeOK /\ OneBooking
    BY DEF IInv
  <1>2. ASSUME NEW w \in Workers, StepOf(w) PROVE OneBooking'
    <2>1. \A v \in Workers \ {w} : stage'[v] = stage[v] /\ claim'[v] = claim[v]
      BY <1>1, <1>2, OthersKept
    <2>2. \/ stage'[w] = "idle"
          \/ stage[w] # "idle" /\ claim'[w] = claim[w]
          \/ claim'[w].op # "create"
          \/ \E t \in Trips : Book(w, t)
      <3>1. ASSUME NEW t \in Trips, NEW op \in Ops \ {"create"}, NEW o \in OffersFor(op, t),
                   LockTrip(w, op, t, o)
            PROVE  claim'[w].op # "create"
        BY <1>1, <3>1 DEF LockTrip, TypeOK
      <3>2. Check(w) => stage[w] # "idle"
        BY DEF Check
      <3>3. QED
        BY <1>1, <1>2, <3>1, <3>2, OwnWork
    <2>3. CASE \E t \in Trips : Book(w, t)
      <3>1. PICK t \in Trips : Book(w, t)
        BY <2>3
      <3>2. claim'[w].trip = t
        BY <1>1, <3>1 DEF Book, TypeOK
      <3>3. \A v \in Workers : stage[v] # "idle" /\ claim[v].op = "create" => claim[v].trip # t
        BY <1>1, <3>1, NothingAssumption DEF Book, TypeOK
      <3>4. QED
        BY <1>1, <2>1, <3>2, <3>3 DEF OneBooking
    <2>4. QED
      BY <1>1, <2>1, <2>2, <2>3 DEF OneBooking
  <1>3. QED
    BY <1>1, <1>2, Steps, WorkKept DEF OneBooking, work

\* Whoever holds the lock of a trip is the one on whose behalf it changes.
LEMMA TripLockKept ==
  ASSUME TypeOK, LocksExclusive, CrewLocked, ClaimsStand,
         NEW w \in Workers, NEW t \in Trips, TripRow(t) \in holds[w],
         OtherStep(w)
  PROVE  /\ status'[t] = status[t] \/ status[t] = "none"
         /\ progress'[t] = progress[t]
         /\ holder'[t] = holder[t] /\ offer'[t] = offer[t]
  <1> USE DEF TypeOK
  <1>1. ASSUME NEW v \in Workers \ {w}, Commits(v), StepOf(v)
        PROVE  claim[v].trip # t \/ (CommitBooking(v) /\ status[t] = "none")
    <2>1. stage[v] = "checked" /\ claim[v] \in Claims
      BY <1>1 DEF Commits, CommitBooking, CommitActivation, CommitOffer, CommitHandover
    <2>2. CASE claim[v].op = "create"
      BY <1>1, <2>1, <2>2 DEF Commits, CommitBooking, CommitActivation, CommitOffer,
         CommitHandover, ClaimsStand
    <2>3. CASE claim[v].op # "create" /\ claim[v].trip = t
      <3>1. TripRow(t) \in holds[v]
        BY <2>1, <2>3 DEF CrewLocked
      <3>2. QED
        BY <1>1, <3>1 DEF LocksExclusive
    <2>4. QED
      BY <2>2, <2>3
  <1>2. ASSUME NEW v \in Workers, StepOf(v), ~Commits(v) PROVE UNCHANGED trips
    BY <1>2 DEF StepOf, Transaction, Commits, Book, LockTrip, LockCrew, Check, Refuse, Rollback
  <1>3. ASSUME NEW v \in Workers \ {w}, StepOf(v), Commits(v)
        PROVE  /\ status'[t] = status[t] \/ status[t] = "none"
               /\ progress'[t] = progress[t]
               /\ holder'[t] = holder[t] /\ offer'[t] = offer[t]
    <2>1. claim[v].trip # t \/ (CommitBooking(v) /\ status[t] = "none")
      BY <1>1, <1>3
    <2>2. claim[v] \in Claims
      BY <1>3 DEF Commits, CommitBooking, CommitActivation, CommitOffer, CommitHandover
    <2>3. CASE CommitBooking(v)
      BY <2>1, <2>3 DEF CommitBooking
    <2>4. CASE CommitActivation(v) /\ claim[v].trip # t
      BY <2>4 DEF CommitActivation
    <2>5. CASE CommitOffer(v) /\ claim[v].trip # t
      BY <2>5 DEF CommitOffer
    <2>6. CASE CommitHandover(v) /\ claim[v].trip # t
      BY <2>6 DEF CommitHandover
    <2>7. QED
      BY <1>3, <2>1, <2>3, <2>4, <2>5, <2>6 DEF Commits
  <1>4. ASSUME NEW u \in Trips, AloneOn(u)
        PROVE  /\ u # t
               /\ status'[t] = status[t] /\ progress'[t] = progress[t]
               /\ holder'[t] = holder[t] /\ offer'[t] = offer[t]
    <2>1. Free(TripRow(u))
      BY <1>4 DEF AloneOn, OverrideActivation, MoveOn, CancelOffer, EndTrip
    <2>2. u # t
      BY <2>1 DEF Free
    <2>3. QED
      BY <1>4, <2>2 DEF AloneOn, OverrideActivation, MoveOn, CancelOffer, EndTrip
  <1>5. Tick \/ UNCHANGED vars => UNCHANGED trips
    BY DEF Tick, vars
  <1>6. QED
    BY <1>2, <1>3, <1>4, <1>5 DEF trips, OtherStep

\* Only a commit and the handlers that lock a trip alone change trips.
LEMMA TripsKept ==
  ASSUME [Next]_vars, \A w \in Workers : ~Commits(w), \A t \in Trips : ~AloneOn(t)
  PROVE  UNCHANGED trips
  BY DEF Next, Commits, AloneOn, Book, LockTrip, Transaction, LockCrew, Check, Refuse, Rollback, Tick, vars

\* A commit belongs to a checked claim that still finds what it found.
LEMMA CommitFinds ==
  ASSUME TypeOK, ClaimsStand, CrewLocked, NEW w \in Workers, Commits(w), NEW t \in Trips,
         claim[w].trip = t
  PROVE  /\ stage[w] = "checked" /\ claim[w] \in Claims /\ wants[w] = {}
         /\ CommitBooking(w) => claim[w].op = "create" /\ status[t] = "none"
         /\ CommitActivation(w) => claim[w].op = "activate" /\ Occupying(t)
         /\ CommitOffer(w) => claim[w].op \in {"arrange", "replace"}
         /\ CommitHandover(w) => claim[w].op = "complete"
         /\ CommitOffer(w) \/ CommitHandover(w) =>
              /\ Live(t) /\ claim[w].offer \in Offers
              /\ claim[w].offer.incoming \in Drivers /\ claim[w].offer.incoming # holder[t]
  <1>1. stage[w] = "checked" /\ claim[w] \in Claims
    BY DEF Commits, CommitBooking, CommitActivation, CommitOffer, CommitHandover, TypeOK
  <1>2. /\ CommitBooking(w) => claim[w].op = "create"
        /\ CommitActivation(w) => claim[w].op = "activate"
        /\ CommitOffer(w) => claim[w].op \in {"arrange", "replace"}
        /\ CommitHandover(w) => claim[w].op = "complete"
    BY DEF CommitBooking, CommitActivation, CommitOffer, CommitHandover
  <1>3. claim[w].offer \in Offers \union {NoOffer}
    BY <1>1 DEF Claims
  <1>4. CommitOffer(w) \/ CommitHandover(w) =>
          Live(t) /\ claim[w].offer # NoOffer /\ claim[w].offer.incoming # holder[t]
    BY <1>1, <1>2 DEF ClaimsStand
  <1>5. wants[w] = {}
    BY <1>1 DEF CrewLocked
  <1>6. QED
    BY <1>1, <1>2, <1>3, <1>4, <1>5 DEF ClaimsStand, Offers

\* A trip not yet created carries nothing, and no driver is offered the trip
\* they are on, after every step.
LEMMA CarriedStep == IInv /\ [Next]_vars => Carried'
  <1> SUFFICES ASSUME TypeOK, Carried, ClaimsStand, CrewLocked, [Next]_vars, NEW t \in Trips
               PROVE  /\ status'[t] = "none" => holder'[t] = BookedDriver[t] /\ offer'[t] = NoOffer
                      /\ offer'[t] # NoOffer => offer'[t].incoming # holder'[t]
    BY DEF IInv, Carried
  <1> USE DEF Carried
  <1>1. ASSUME NEW w \in Workers, Commits(w), claim[w].trip = t
        PROVE  /\ status'[t] = "none" => holder'[t] = BookedDriver[t] /\ offer'[t] = NoOffer
               /\ offer'[t] # NoOffer => offer'[t].incoming # holder'[t]
    <2>1. CASE CommitBooking(w)
      BY <1>1, <2>1 DEF CommitBooking, TypeOK
    <2>2. CASE CommitActivation(w)
      BY <1>1, <2>2 DEF CommitActivation, TypeOK
    <2>3. CASE CommitOffer(w)
      BY <1>1, <2>3, CommitFinds DEF CommitOffer, TypeOK, Live
    <2>4. CASE CommitHandover(w)
      BY <1>1, <2>4, CommitFinds DEF CommitHandover, TypeOK, Live
    <2>5. QED
      BY <1>1, <2>1, <2>2, <2>3, <2>4 DEF Commits
  <1>2. ASSUME NEW w \in Workers, Commits(w), claim[w].trip # t
        PROVE  status'[t] = status[t] /\ holder'[t] = holder[t] /\ offer'[t] = offer[t]
    BY <1>2 DEF Commits, CommitBooking, CommitActivation, CommitOffer, CommitHandover, TypeOK
  <1>3. ASSUME NEW u \in Trips, AloneOn(u)
        PROVE  /\ status'[t] = "none" => holder'[t] = BookedDriver[t] /\ offer'[t] = NoOffer
               /\ offer'[t] # NoOffer => offer'[t].incoming # holder'[t]
    BY <1>3 DEF AloneOn, OverrideActivation, MoveOn, CancelOffer, EndTrip, TypeOK
  <1>4. QED
    BY <1>1, <1>2, <1>3, TripsKept DEF trips

\* A trip somebody is booking stays uncreated until that booking commits.
LEMMA BookingWaits ==
  ASSUME TypeOK, CrewLocked, ClaimsStand, OneBooking, NEW w \in Workers, NEW t \in Trips,
         stage[w] # "idle", claim[w].op = "create", claim[w].trip = t, OtherStep(w)
  PROVE  status'[t] = "none"
  <1>1. status[t] = "none"
    BY DEF ClaimsStand
  <1>2. ASSUME NEW v \in Workers \ {w}, StepOf(v) PROVE status'[t] = "none"
    <2>1. CASE Commits(v) /\ claim[v].trip = t
      <3>1. CommitBooking(v) => claim[v].op = "create" /\ stage[v] = "checked"
        BY <2>1, CommitFinds
      <3>2. ~CommitBooking(v)
        BY <2>1, <3>1 DEF OneBooking
      <3>3. status' = status
        BY <1>1, <2>1, <3>2, CommitFinds DEF Commits, CommitOffer, CommitHandover, Occupying, Live
      <3>4. QED
        BY <1>1, <3>3
    <2>2. CASE Commits(v) /\ claim[v].trip # t
      BY <1>1, <2>2 DEF Commits, CommitBooking, CommitActivation, CommitOffer, CommitHandover, TypeOK
    <2>3. CASE ~Commits(v)
      BY <1>1, <1>2, <2>3 DEF StepOf, Transaction, Commits, Book, LockTrip, LockCrew, Check, Refuse,
         Rollback, trips
    <2>4. QED
      BY <2>1, <2>2, <2>3
  <1>3. ASSUME NEW u \in Trips, AloneOn(u) PROVE status'[t] = "none"
    BY <1>1, <1>3 DEF AloneOn, OverrideActivation, MoveOn, CancelOffer, EndTrip, Occupying, TypeOK
  <1>4. QED
    BY <1>1, <1>2, <1>3 DEF OtherStep, Tick, vars, trips

\* A claim still finds of its trip what it found, after every step.
LEMMA ClaimsStandStep == IInv /\ [Next]_vars => ClaimsStand'
  <1> SUFFICES ASSUME IInv, [Next]_vars, NEW w \in Workers, NEW t \in Trips,
                      stage'[w] # "idle", claim'[w].trip = t
               PROVE  /\ claim'[w].op = "create" => status'[t] = "none"
                      /\ claim'[w].op = "activate" => Occupying(t)'
                      /\ claim'[w].op \in {"arrange", "replace", "complete"} =>
                           Live(t)' /\ claim'[w].offer # NoOffer /\ claim'[w].offer.incoming # holder'[t]
                      /\ claim'[w].seen <= now'
    BY DEF ClaimsStand
  <1>1. TypeOK /\ LocksExclusive /\ CrewLocked /\ ClaimsStand /\ OneBooking
    BY DEF IInv
  <1>t. TypeOK'
    BY TypeStep
  <1>2. now' >= now /\ now \in Nat /\ now' \in Nat
    <2>1. now' \in Time
      BY <1>t DEF TypeOK
    <2>2. QED
      BY <1>1, <2>1, TimePasses, NowTyped, Clock DEF Time
  <1>3. CASE OtherStep(w)
    <2>1. stage'[w] = stage[w] /\ claim'[w] = claim[w]
      BY <1>1, <1>3, Untouched
    <2>2. claim[w] \in Claims
      BY <1>1, <2>1 DEF TypeOK
    <2>3. claim[w].seen \in Nat /\ claim[w].seen <= now
      BY <1>1, <2>1, <2>2, Clock DEF Claims, Time, ClaimsStand
    <2>4. CASE claim[w].op = "create"
      BY <1>1, <1>2, <1>3, <2>1, <2>3, <2>4, BookingWaits
    <2>5. CASE claim[w].op # "create"
      <3>1. TripRow(t) \in holds[w]
        BY <1>1, <2>1, <2>5 DEF CrewLocked
      <3>2. (status'[t] = status[t] \/ status[t] = "none") /\ holder'[t] = holder[t]
        BY <1>1, <1>3, <3>1, TripLockKept
      <3>3. QED
        BY <1>1, <1>2, <2>1, <2>3, <2>5, <3>2 DEF ClaimsStand, Occupying, Live
    <2>6. QED
      BY <2>4, <2>5
  <1>4. CASE StepOf(w)
    <2>1. ASSUME NEW u \in Trips, Book(w, u)
          PROVE  claim'[w].op = "create" /\ status'[t] = "none" /\ claim'[w].seen = 0
      BY <1>1, <2>1 DEF Book, TypeOK, trips
    <2>2. ASSUME NEW u \in Trips, NEW op \in Ops \ {"create"}, NEW o \in OffersFor(op, u),
                 LockTrip(w, op, u, o)
          PROVE  /\ claim'[w].op # "create"
                 /\ claim'[w].op = "activate" => Occupying(t)'
                 /\ claim'[w].op \in {"arrange", "replace", "complete"} =>
                      Live(t)' /\ claim'[w].offer # NoOffer /\ claim'[w].offer.incoming # holder'[t]
                 /\ claim'[w].seen \in {0, now} /\ now' = now
      <3>1. /\ claim'[w] = [op |-> op, trip |-> u, offer |-> o,
                            seen |-> IF op \in {"arrange", "replace"} THEN now ELSE 0]
            /\ UNCHANGED <<trips, now>> /\ MayProceed(op, u, o)
        BY <1>1, <2>2 DEF LockTrip, TypeOK
      <3>2. u = t /\ claim'[w].op = op /\ claim'[w].offer = o /\ claim'[w].seen \in {0, now}
        BY <3>1
      <3>3. op \in {"arrange", "replace", "complete"} => o # NoOffer
        BY <1>1, OffersTyped
      <3>4. op = "activate" => Occupying(t)
        BY <3>1, <3>2 DEF MayProceed
      <3>5. op \in {"arrange", "replace"} => Live(t) /\ o.incoming # holder[t]
        BY <3>1, <3>2 DEF MayProceed
      <3>6. op = "complete" => Live(t) /\ o = offer[t]
        BY <3>1, <3>2 DEF MayProceed
      <3>7. op = "complete" => o.incoming # holder[t]
        BY <3>3, <3>6 DEF IInv, Carried
      <3>8. QED
        BY <3>1, <3>2, <3>3, <3>4, <3>5, <3>6, <3>7 DEF trips, Live, Occupying
    <2>3. CASE Check(w) \/ LockCrew(w)
      <3>1. claim'[w] = claim[w] /\ UNCHANGED <<trips, now>> /\ stage[w] # "idle"
        BY <2>3 DEF Check, LockCrew
      <3>2. QED
        BY <1>1, <3>1 DEF ClaimsStand, trips, Live, Occupying
    <2>4. QED
      BY <1>1, <1>2, <1>4, <2>1, <2>2, <2>3, OwnWork
  <1>5. QED
    BY <1>3, <1>4, StepSplit

\* A claim keeps the rows it stands on, after every step.
LEMMA CrewLockedStep == IInv /\ [Next]_vars => CrewLocked'
  <1> SUFFICES ASSUME IInv, [Next]_vars, NEW w \in Workers, NEW t \in Trips,
                      stage'[w] # "idle", claim'[w].trip = t
               PROVE  /\ claim'[w].op # "create" => TripRow(t) \in holds'[w]
                      /\ \A v \in VehiclesOf[t] : VehicleRow(v) \in holds'[w] \union wants'[w]
                      /\ \A d \in Drivers : ClaimsDriver(w, t, d)' =>
                            DriverRow(d) \in holds'[w] \union wants'[w]
                      /\ stage'[w] = "checked" => wants'[w] = {}
    BY DEF CrewLocked
  <1>1. TypeOK /\ LocksExclusive /\ CrewLocked /\ ClaimsStand
    BY DEF IInv
  <1>2. CASE OtherStep(w)
    <2>1. stage'[w] = stage[w] /\ claim'[w] = claim[w] /\ wants'[w] = wants[w] /\ holds'[w] = holds[w]
      BY <1>1, <1>2, Untouched
    <2>2. claim[w].op # "create" => TripRow(t) \in holds[w]
      BY <1>1, <2>1 DEF CrewLocked
    <2>3. claim[w].op # "create" => holder'[t] = holder[t]
      BY <1>1, <1>2, <2>2, TripLockKept
    <2>4. QED
      BY <1>1, <2>1, <2>3 DEF CrewLocked, ClaimsDriver
  <1>3. CASE StepOf(w)
    <2>1. ASSUME NEW u \in Trips, Book(w, u)
          PROVE  /\ claim'[w].op = "create" /\ u = t /\ stage'[w] = "crew"
                 /\ wants'[w] = CrewRows(t, {BookedDriver[t]})
      BY <1>1, <2>1 DEF Book, BookingRows, TypeOK
    <2>2. ASSUME NEW u \in Trips, NEW op \in Ops \ {"create"}, NEW o \in OffersFor(op, u),
                 LockTrip(w, op, u, o)
          PROVE  /\ claim'[w].op # "create" /\ u = t /\ stage'[w] = "crew" /\ claim'[w].offer = o
                 /\ holds'[w] = {TripRow(t)} /\ holder' = holder
                 /\ wants'[w] = CrewRows(t, ClaimedDrivers(t, o))
      <3>1. claim'[w] = [op |-> op, trip |-> u, offer |-> o,
                         seen |-> IF op \in {"arrange", "replace"} THEN now ELSE 0]
        BY <1>1, <2>2 DEF LockTrip, TypeOK
      <3>2. u = t
        BY <3>1
      <3>3. QED
        BY <1>1, <2>2, <3>1, <3>2 DEF LockTrip, TypeOK, trips
    <2>3. CASE \E u \in Trips : Book(w, u)
      BY <2>1, <2>3 DEF CrewRows, ClaimsDriver
    <2>4. CASE \E u \in Trips, op \in Ops \ {"create"} : \E o \in OffersFor(op, u) : LockTrip(w, op, u, o)
      BY <2>2, <2>4 DEF CrewRows, ClaimsDriver, ClaimedDrivers
    <2>5. CASE Check(w)
      <3>1. /\ claim'[w] = claim[w] /\ holder' = holder /\ stage[w] # "idle" /\ wants[w] = {}
            /\ wants'[w] = wants[w] /\ holds'[w] = holds[w]
        BY <2>5 DEF Check, trips
      <3>2. QED
        BY <1>1, <3>1 DEF CrewLocked, ClaimsDriver
    <2>6. CASE LockCrew(w)
      <3>1. PICK r \in wants[w] : /\ stage[w] = "crew"
                                 /\ wants' = [wants EXCEPT ![w] = @ \ {r}]
                                 /\ holds' = [holds EXCEPT ![w] = @ \union {r}]
                                 /\ UNCHANGED <<trips, now, stage, claim>>
        BY <2>6 DEF LockCrew, Foremost
      <3>2. /\ claim'[w] = claim[w] /\ holder' = holder /\ stage[w] = "crew" /\ stage'[w] = "crew"
            /\ wants'[w] = wants[w] \ {r} /\ holds'[w] = holds[w] \union {r}
        BY <1>1, <3>1 DEF trips, TypeOK
      <3>3. QED
        BY <1>1, <3>2 DEF CrewLocked, ClaimsDriver
    <2>7. QED
      BY <1>1, <1>3, <2>3, <2>4, <2>5, <2>6, OwnWork
  <1>4. QED
    BY <1>2, <1>3, StepSplit
-----------------------------------------------------------------------------
(* What a check found free stays free until the commit.                    *)

\* A trip gains a commitment on a row only at the commit of a transaction
\* that locks the row, and the commit adds what was asked for and no more.
LEMMA GainsOnlyLocked ==
  ASSUME IInv, NEW v \in Workers, Commits(v), NEW o \in Trips, NEW r \in Rows,
         NEW b \in CommittedFrom(o, r)', b \notin CommittedFrom(o, r)
  PROVE  claim[v].trip = o /\ r \in holds[v] /\ Asks(v, o, r, b)
  <1>1. TypeOK /\ CrewLocked /\ ClaimsStand /\ Carried
    BY DEF IInv
  <1>2. claim[v].trip = o
    BY <1>1 DEF Commits, CommitBooking, CommitActivation, CommitOffer, CommitHandover,
       CommittedFrom, Occupying, TypeOK
  <1>3. stage[v] = "checked" /\ wants[v] = {} /\ claim[v] \in Claims
    BY <1>1, <1>2, CommitFinds
  <1>4. CASE CommitBooking(v)
    <2>1. claim[v].op = "create" /\ holder'[o] = BookedDriver[o] /\ offer'[o] = NoOffer
      BY <1>1, <1>2, <1>4, CommitFinds DEF CommitBooking, Carried
    <2>2. r \in CrewRows(o, {BookedDriver[o]}) /\ b = Start[o]
      BY <2>1 DEF CommittedFrom
    <2>3. BookedDriver[o] \in Drivers
      BY CrewAssumption
    <2>4. r \in holds[v]
      BY <1>1, <1>2, <1>3, <2>1, <2>2, <2>3 DEF CrewLocked, ClaimsDriver, CrewRows
    <2>5. QED
      BY <1>2, <2>1, <2>2, <2>4 DEF Asks, BookingRows
  <1>5. CASE CommitActivation(v)
    <2>1. Occupying(o) /\ holder' = holder /\ offer' = offer
      BY <1>1, <1>2, <1>5, CommitFinds DEF CommitActivation
    <2>2. QED
      BY <2>1 DEF CommittedFrom
  <1>6. CASE CommitOffer(v)
    <2>1. /\ Live(o) /\ status' = status /\ holder' = holder
          /\ offer'[o] = claim[v].offer /\ claim[v].offer.incoming \in Drivers
          /\ claim[v].op \in {"arrange", "replace"} /\ claim[v].offer # NoOffer
      BY <1>1, <1>2, <1>6, CommitFinds, NothingAssumption DEF CommitOffer, TypeOK
    <2>2. r = DriverRow(claim[v].offer.incoming) /\ b = claim[v].offer.from
      BY <2>1 DEF CommittedFrom, Occupying, Live
    <2>3. r \in holds[v]
      BY <1>1, <1>2, <1>3, <2>1, <2>2 DEF CrewLocked, ClaimsDriver
    <2>4. QED
      BY <1>2, <2>1, <2>2, <2>3 DEF Asks
  <1>7. CASE CommitHandover(v)
    <2>1. /\ Live(o) /\ status' = status /\ offer'[o] = NoOffer
          /\ holder'[o] = claim[v].offer.incoming /\ claim[v].offer.incoming \in Drivers
          /\ claim[v].op = "complete" /\ claim[v].offer # NoOffer
      BY <1>1, <1>2, <1>7, CommitFinds, NothingAssumption DEF CommitHandover, TypeOK
    <2>2. r = DriverRow(claim[v].offer.incoming) /\ b = Start[o]
      BY <2>1 DEF CommittedFrom, Occupying, Live, CrewRows
    <2>3. r \in holds[v]
      BY <1>1, <1>2, <1>3, <2>1, <2>2 DEF CrewLocked, ClaimsDriver
    <2>4. QED
      BY <1>2, <2>1, <2>2, <2>3 DEF Asks
  <1>8. QED
    BY <1>4, <1>5, <1>6, <1>7 DEF Commits

\* Nothing else adds a commitment.
LEMMA NothingElseGains ==
  ASSUME TypeOK, [Next]_vars, \A v \in Workers : ~Commits(v), NEW o \in Trips, NEW r \in Rows
  PROVE  CommittedFrom(o, r)' \subseteq CommittedFrom(o, r)
  <1>1. CASE \E t \in Trips : AloneOn(t)
    BY <1>1 DEF AloneOn, OverrideActivation, MoveOn, CancelOffer, EndTrip, CommittedFrom,
       Occupying, TypeOK
  <1>2. CASE \A t \in Trips : ~AloneOn(t)
    BY <1>2, TripsKept DEF trips, CommittedFrom, Occupying
  <1>3. QED
    BY <1>1, <1>2

\* What is clear stays clear while no other trip gains a commitment on the row.
LEMMA ClearKept ==
  ASSUME TypeOK, TypeOK', [Next]_vars, NEW t \in Trips, NEW r, NEW a \in Nat, Clear(t, r, a),
         \A o \in Trips \ {t} : CommittedFrom(o, r)' \subseteq CommittedFrom(o, r)
  PROVE  Clear(t, r, a)'
  <1> SUFFICES ASSUME NEW o \in Trips \ {t}, NEW b \in CommittedFrom(o, r)'
               PROVE  \E x \in {a, b, now'} : End[t] <= x \/ End[o] <= x
    BY DEF Clear
  <1>1. PICK x \in {a, b, now} : End[t] <= x \/ End[o] <= x
    BY DEF Clear
  <1>2. now' >= now /\ now \in Nat /\ now' \in Nat
    <2>1. now' \in Time
      BY DEF TypeOK
    <2>2. QED
      BY <2>1, TimePasses, NowTyped, Clock DEF Time
  <1>3. End[t] \in Nat /\ End[o] \in Nat
    BY TimeAssumption
  <1>4. CASE x = now
    BY <1>1, <1>2, <1>3, <1>4
  <1>5. QED
    BY <1>1, <1>4
-----------------------------------------------------------------------------
(* What the checks establish.                                              *)

\* The bounds of the windows the checks compare.
LEMMA WindowBounds ==
  ASSUME NEW t, NEW o, NEW n, NEW end
  PROVE  /\ HeldWindow(t, n).from \in {n, Start[t]}
         /\ HeldWindow(t, n).until \in {End[t], Forever}
         /\ ReservedWindow(o, end, n).from = o.from
         /\ ReservedWindow(o, end, n).until \in {end, Forever}
         /\ TakeoverWindow(t, n).from = n
         /\ TakeoverWindow(t, n).until \in {End[t], Forever}
         /\ Planned(t).from = Start[t] /\ Planned(t).until = End[t]
         /\ Arrival(t) \in {End[t], Forever}
  BY DEF HeldWindow, ReservedWindow, TakeoverWindow, Planned, Arrival

\* Where a row's commitments come from.
LEMMA CommittedTyped ==
  ASSUME TypeOK, NEW o \in Trips, NEW r \in Rows, NEW b \in CommittedFrom(o, r)
  PROVE  /\ Occupying(o) /\ b \in Nat /\ b < Forever
         /\ \/ b = Start[o] /\ r \in CrewRows(o, {holder[o]})
            \/ /\ offer[o] # NoOffer /\ b = offer[o].from
               /\ r = DriverRow(offer[o].incoming)
  <1>1. Occupying(o)
    BY DEF CommittedFrom
  <1>2. CASE b = Start[o] /\ r \in CrewRows(o, {holder[o]})
    <2>1. Start[o] \in Nat /\ End[o] \in Nat /\ Start[o] < End[o] /\ End[o] < Forever
      BY TimeAssumption
    <2>2. QED
      BY <1>1, <1>2, <2>1, Clock
  <1>3. CASE offer[o] # NoOffer /\ b = offer[o].from /\ r = DriverRow(offer[o].incoming)
    <2>1. offer[o] \in Offers
      BY <1>3 DEF TypeOK
    <2>2. offer[o].from \in 0 .. Forever - 1
      BY <2>1 DEF Offers
    <2>3. QED
      BY <1>1, <1>3, <2>2, Clock
  <1>4. QED
    BY <1>2, <1>3 DEF CommittedFrom

\* A driver found free for a trip has no commitment that clashes with it.
LEMMA FreeDriverIsClear ==
  ASSUME TypeOK, Carried, NEW t \in Trips, NEW d \in Drivers, NEW a \in Nat, NEW n \in Nat, NEW y,
         y.from \in {a, now}, y.until \in {End[t], Forever},
         n <= now, a < Forever, DriverFree(d, y, n, t)
  PROVE  Clear(t, DriverRow(d), a)
  <1> SUFFICES ASSUME NEW o \in Trips \ {t}, NEW b \in CommittedFrom(o, DriverRow(d))
               PROVE  \E x \in {a, b, now} : End[t] <= x \/ End[o] <= x
    BY DEF Clear
  <1>1. DriverRow(d) \in Rows
    BY DEF Rows
  <1>2. Occupying(o) /\ b \in Nat /\ b < Forever
    BY <1>1, CommittedTyped
  <1>3. End[t] \in Nat /\ End[o] \in Nat
    BY TimeAssumption
  <1>4. now \in Nat /\ now < Forever
    BY NowTyped, Clock
  <1>5. CASE holder[o] = d
    <2>1. b = Start[o]
      <3>1. offer[o] # NoOffer => offer[o].incoming # d
        BY <1>5 DEF Carried
      <3>2. QED
        BY <1>1, <3>1, CommittedTyped DEF DriverRow
    <2>2. ~Overlap(HeldWindow(o, n), y)
      BY <1>2, <1>5 DEF DriverFree, HoldingDriver
    <2>3. HeldWindow(o, n).from \in {b, n} /\ HeldWindow(o, n).until \in {End[o], Forever}
      BY <2>1, WindowBounds
    <2>4. QED
      BY <1>2, <1>3, <1>4, <2>2, <2>3, Clock DEF Overlap
  <1>6. CASE holder[o] # d
    <2>1. offer[o] # NoOffer /\ b = offer[o].from /\ offer[o].incoming = d
      <3>1. DriverRow(d) \notin CrewRows(o, {holder[o]})
        BY <1>6 DEF CrewRows, DriverRow, VehicleRow
      <3>2. QED
        BY <1>1, <3>1, CommittedTyped DEF DriverRow
    <2>2. ~Overlap(ReservedWindow(offer[o], End[o], n), y)
      BY <1>2, <1>6, <2>1 DEF DriverFree, ReservingDriver
    <2>3. /\ ReservedWindow(offer[o], End[o], n).from \in {b, n}
          /\ ReservedWindow(offer[o], End[o], n).until \in {End[o], Forever}
      BY <2>1, WindowBounds
    <2>4. QED
      BY <1>2, <1>3, <1>4, <2>2, <2>3, Clock DEF Overlap
  <1>7. QED
    BY <1>5, <1>6

\* A vehicle no other trip holds during the plan has no clashing commitment.
LEMMA FreeVehicleIsClear ==
  ASSUME TypeOK, NEW t \in Trips, NEW v \in VehiclesOf[t],
         HoldingVehicles(VehiclesOf[t], Planned(t), now) = {}
  PROVE  Clear(t, VehicleRow(v), Start[t])
  <1> SUFFICES ASSUME NEW o \in Trips \ {t}, NEW b \in CommittedFrom(o, VehicleRow(v))
               PROVE  \E x \in {Start[t], b, now} : End[t] <= x \/ End[o] <= x
    BY DEF Clear
  <1>1. VehicleRow(v) \in Rows
    BY CrewAssumption DEF Rows
  <1>2. Occupying(o) /\ b \in Nat /\ b < Forever
    BY <1>1, CommittedTyped
  <1>3. End[t] \in Nat /\ End[o] \in Nat /\ Start[t] \in Nat /\ Start[t] < End[t] /\ End[t] < Forever
    BY TimeAssumption
  <1>4. now \in Nat /\ now < Forever
    BY NowTyped, Clock
  <1>5. b = Start[o] /\ VehicleRow(v) \in CrewRows(o, {holder[o]})
    BY <1>1, CommittedTyped DEF VehicleRow, DriverRow
  <1>6. v \in VehiclesOf[o]
    BY <1>5 DEF CrewRows, VehicleRow, DriverRow
  <1>7. ~Overlap(HeldWindow(o, now), Planned(t))
    BY <1>2, <1>6 DEF HoldingVehicles
  <1>8. /\ HeldWindow(o, now).from \in {b, now} /\ HeldWindow(o, now).until \in {End[o], Forever}
        /\ Planned(t).from \in {Start[t], now} /\ Planned(t).until \in {End[t], Forever}
    BY <1>5, WindowBounds
  <1>9. Start[t] < Forever
    BY <1>3, Clock
  <1>10. QED
    BY <1>2, <1>3, <1>4, <1>7, <1>8, <1>9, Clock DEF Overlap

\* Only its check makes a transaction checked.
LEMMA CheckedByCheck ==
  ASSUME TypeOK, NEW w \in Workers, StepOf(w), stage'[w] = "checked"
  PROVE  Check(w)
  <1>1. ~\E t \in Trips : Book(w, t)
    BY DEF Book, TypeOK
  <1>2. ~\E t \in Trips, op \in Ops \ {"create"} : \E o \in OffersFor(op, t) : LockTrip(w, op, t, o)
    BY DEF LockTrip, TypeOK
  <1>3. QED
    BY <1>1, <1>2, OwnWork

\* A check that grants what is asked for found it clear.
LEMMA CheckClears ==
  ASSUME TypeOK, Carried, ClaimsStand, NEW w \in Workers, Check(w),
         NEW t \in Trips, NEW r \in Rows, NEW a \in Nat, Asks(w, t, r, a)
  PROVE  Clear(t, r, a)
  <1>1. claim[w] \in Claims /\ claim[w].trip = t /\ stage[w] = "crew" /\ Grantable(claim[w])
    BY DEF Check, TypeOK, Asks
  <1>2. now \in Nat /\ now < Forever
    BY NowTyped, Clock
  <1>3. Start[t] \in Nat /\ End[t] \in Nat /\ Start[t] < End[t] /\ End[t] < Forever
    BY TimeAssumption
  <1>4. Start[t] < Forever
    BY <1>3, Clock
  <1>5. CASE claim[w].op = "create" /\ r \in BookingRows(t) /\ a = Start[t]
    <2>1. /\ DriverFree(BookedDriver[t], Planned(t), now, t)
          /\ HoldingVehicles(VehiclesOf[t], Planned(t), now) = {}
      BY <1>1, <1>5 DEF Grantable
    <2>2. CASE r = DriverRow(BookedDriver[t])
      <3>1. BookedDriver[t] \in Drivers
        BY CrewAssumption
      <3>2. Planned(t).from \in {a, now} /\ Planned(t).until \in {End[t], Forever}
        BY <1>5, WindowBounds
      <3>3. now <= now
        BY <1>2
      <3>4. QED
        BY <1>2, <1>4, <1>5, <2>1, <2>2, <3>1, <3>2, <3>3, FreeDriverIsClear
    <2>3. CASE \E v \in VehiclesOf[t] : r = VehicleRow(v)
      BY <1>5, <2>1, <2>3, FreeVehicleIsClear
    <2>4. QED
      BY <1>5, <2>2, <2>3 DEF BookingRows, CrewRows
  <1>6. CASE /\ claim[w].op \in {"arrange", "replace"}
             /\ r = DriverRow(claim[w].offer.incoming) /\ a = claim[w].offer.from
    <2> DEFINE o == claim[w].offer
               y == ReservedWindow(o, Arrival(t), claim[w].seen)
    <2>1. DriverFree(o.incoming, y, claim[w].seen, t)
      BY <1>1, <1>6 DEF Grantable
    <2>2. o \in Offers
      BY <1>1, <1>6 DEF ClaimsStand, Claims
    <2>3. o.incoming \in Drivers /\ a < Forever
      BY <1>6, <2>2, Clock DEF Offers
    <2>4. claim[w].seen \in Nat /\ claim[w].seen <= now
      BY <1>1, Clock DEF Claims, Time, ClaimsStand
    <2>5. y.from \in {a, now} /\ y.until \in {End[t], Forever}
      <3>1. y.from = a /\ y.until \in {Arrival(t), Forever}
        BY <1>6 DEF ReservedWindow
      <3>2. Arrival(t) \in {End[t], Forever}
        BY DEF Arrival
      <3>3. QED
        BY <3>1, <3>2
    <2> HIDE DEF y, o
    <2>6. Clear(t, DriverRow(o.incoming), a)
      BY <2>1, <2>3, <2>4, <2>5, FreeDriverIsClear
    <2>7. QED
      BY <1>6, <2>6 DEF o
  <1>7. CASE claim[w].op = "complete" /\ r = DriverRow(claim[w].offer.incoming) /\ a = Start[t]
    <2> DEFINE d == claim[w].offer.incoming
               y == TakeoverWindow(t, now)
    <2>1. DriverFree(d, y, now, t)
      BY <1>1, <1>7 DEF Grantable
    <2>2. claim[w].offer \in Offers
      BY <1>1, <1>7 DEF ClaimsStand, Claims
    <2>3. d \in Drivers
      BY <2>2 DEF Offers
    <2>4. y.from \in {a, now} /\ y.until \in {End[t], Forever} /\ now <= now
      BY <1>2, WindowBounds
    <2> HIDE DEF y, d
    <2>5. Clear(t, DriverRow(d), a)
      BY <1>2, <1>4, <1>7, <2>1, <2>3, <2>4, FreeDriverIsClear
    <2>6. QED
      BY <1>7, <2>5 DEF d
  <1>8. QED
    BY <1>5, <1>6, <1>7 DEF Asks

\* What a checked claim asks for is locked.
LEMMA AsksLocked ==
  ASSUME TypeOK, CrewLocked, ClaimsStand, NEW w \in Workers, stage[w] = "checked",
         NEW t \in Trips, NEW r \in Rows, NEW a, Asks(w, t, r, a)
  PROVE  r \in holds[w]
  <1>1. claim[w] \in Claims /\ claim[w].trip = t /\ wants[w] = {}
    BY DEF TypeOK, Asks, CrewLocked
  <1>2. CASE claim[w].op = "create" /\ r \in BookingRows(t)
    <2>1. BookedDriver[t] \in Drivers
      BY CrewAssumption
    <2>2. QED
      BY <1>1, <1>2, <2>1 DEF BookingRows, CrewRows, CrewLocked, ClaimsDriver
  <1>3. CASE claim[w].op \in {"arrange", "replace", "complete"} /\ r = DriverRow(claim[w].offer.incoming)
    <2>1. claim[w].offer \in Offers /\ claim[w].offer # NoOffer
      BY <1>1, <1>3 DEF ClaimsStand, Claims
    <2>2. claim[w].offer.incoming \in Drivers
      BY <2>1 DEF Offers
    <2>3. QED
      BY <1>1, <1>3, <2>1, <2>2 DEF CrewLocked, ClaimsDriver
  <1>4. QED
    BY <1>2, <1>3 DEF Asks

\* A row locked by a transaction is not gained by another trip, or committed
\* to the same one, by somebody else's step.
LEMMA LockedRowKept ==
  ASSUME IInv, [Next]_vars, NEW w \in Workers, OtherStep(w), NEW r \in Rows, r \in holds[w],
         NEW o \in Trips
  PROVE  CommittedFrom(o, r)' \subseteq CommittedFrom(o, r)
  <1>1. TypeOK /\ LocksExclusive
    BY DEF IInv
  <1>2. SUFFICES ASSUME NEW b \in CommittedFrom(o, r)', b \notin CommittedFrom(o, r)
                 PROVE  FALSE
    OBVIOUS
  <1>3. PICK v \in Workers : Commits(v)
    BY <1>1, <1>2, NothingElseGains
  <1>4. r \in holds[v]
    BY <1>2, <1>3, GainsOnlyLocked
  <1>5. v = w
    BY <1>1, <1>4 DEF LocksExclusive
  <1>6. stage[w] = "checked" /\ stage'[w] = "idle"
    BY <1>1, <1>3, <1>5 DEF Commits, CommitBooking, CommitActivation, CommitOffer, CommitHandover,
       Finish, TypeOK
  <1>7. QED
    BY <1>1, <1>6, Untouched

\* What the open transactions found clear stays clear, after every step.
LEMMA ClearAskedStep == IInv /\ [Next]_vars => ClearAsked'
  <1> SUFFICES ASSUME IInv, [Next]_vars, NEW w \in Workers, NEW t \in Trips, NEW r \in Rows,
                      NEW a \in Nat, stage'[w] = "checked", Asks(w, t, r, a)'
               PROVE  Clear(t, r, a)'
    BY DEF ClearAsked
  <1>1. TypeOK /\ LocksExclusive /\ CrewLocked /\ Carried /\ ClaimsStand /\ ClearAsked
    BY DEF IInv
  <1>2. TypeOK'
    BY TypeStep
  <1>3. CASE OtherStep(w)
    <2>1. stage[w] = "checked" /\ claim'[w] = claim[w]
      BY <1>1, <1>3, Untouched
    <2>2. Asks(w, t, r, a)
      BY <2>1 DEF Asks, BookingRows
    <2>3. Clear(t, r, a)
      BY <1>1, <2>1, <2>2 DEF ClearAsked
    <2>4. r \in holds[w]
      BY <1>1, <2>1, <2>2, AsksLocked
    <2>5. \A o \in Trips \ {t} : CommittedFrom(o, r)' \subseteq CommittedFrom(o, r)
      BY <1>3, <2>4, LockedRowKept
    <2>6. QED
      BY <1>1, <1>2, <2>3, <2>5, ClearKept
  <1>4. CASE StepOf(w)
    <2>1. Check(w)
      BY <1>1, <1>4, CheckedByCheck
    <2>2. /\ UNCHANGED <<trips, now>> /\ claim' = claim
      BY <2>1 DEF Check
    <2>3. Asks(w, t, r, a)
      BY <2>2 DEF Asks, BookingRows
    <2>4. Clear(t, r, a)
      BY <1>1, <2>1, <2>3, CheckClears
    <2>5. QED
      BY <2>2, <2>4 DEF Clear, CommittedFrom, Occupying, trips
  <1>5. QED
    BY <1>3, <1>4, StepSplit
-----------------------------------------------------------------------------
(* One trip at a time.                                                     *)

\* A commit changes no trip but its own.
LEMMA OnlyOwnTrip ==
  ASSUME TypeOK, NEW v \in Workers, Commits(v), NEW o \in Trips, claim[v].trip # o
  PROVE  status'[o] = status[o] /\ holder'[o] = holder[o] /\ offer'[o] = offer[o] /\ now' = now
  BY DEF Commits, CommitBooking, CommitActivation, CommitOffer, CommitHandover, TypeOK

\* A trip is created or started, and passes to a driver, only at the commit of
\* a transaction that locks that driver, and at a start the vehicles too.
LEMMA MovesOnlyLocked ==
  ASSUME IInv, [Next]_vars, NEW o \in Trips,
         \/ Live(o)' /\ ~Live(o)
         \/ status'[o] = "created" /\ status[o] # "created"
         \/ holder'[o] # holder[o]
  PROVE  \E v \in Workers :
           /\ Commits(v) /\ stage[v] = "checked" /\ stage'[v] = "idle"
           /\ claim[v].trip = o /\ DriverRow(holder'[o]) \in holds[v]
           /\ \A x \in VehiclesOf[o] : VehicleRow(x) \in holds[v]
           /\ Live(o)' /\ ~Live(o) => Starts(v, o) /\ holder'[o] = holder[o]
           /\ holder'[o] # holder[o] => HandsTo(v, o, holder'[o]) /\ Live(o)
  <1>1. TypeOK /\ CrewLocked /\ ClaimsStand /\ Carried
    BY DEF IInv
  <1>2. ASSUME NEW t \in Trips, AloneOn(t)
        PROVE  holder' = holder /\ status'[o] \in {status[o], "over"}
    BY <1>1, <1>2 DEF AloneOn, OverrideActivation, MoveOn, CancelOffer, EndTrip, TypeOK
  <1>3. PICK v \in Workers : Commits(v)
    BY <1>2, TripsKept DEF trips, Live
  <1>4. claim[v].trip = o
    BY <1>1, <1>3, OnlyOwnTrip DEF Live
  <1>5. stage[v] = "checked" /\ wants[v] = {} /\ claim[v] \in Claims
    BY <1>1, <1>3, <1>4, CommitFinds
  <1>6. stage'[v] = "idle"
    BY <1>1, <1>3 DEF Commits, CommitBooking, CommitActivation, CommitOffer, CommitHandover,
       Finish, TypeOK
  <1>7. \A x \in VehiclesOf[o] : VehicleRow(x) \in holds[v]
    BY <1>4, <1>5, <1>1 DEF CrewLocked
  <1>8. \A d \in Drivers : ClaimsDriver(v, o, d) => DriverRow(d) \in holds[v]
    BY <1>4, <1>5, <1>1 DEF CrewLocked
  <1>9. /\ holder'[o] \in Drivers /\ ClaimsDriver(v, o, holder'[o])
        /\ Live(o)' /\ ~Live(o) => Starts(v, o) /\ holder'[o] = holder[o]
        /\ holder'[o] # holder[o] => HandsTo(v, o, holder'[o]) /\ Live(o)
    <2>1. CASE CommitBooking(v)
      <3>1. claim[v].op = "create" /\ status[o] = "none"
        BY <1>1, <1>3, <1>4, <2>1, CommitFinds
      <3>2. holder' = holder /\ status'[o] = "created" /\ holder[o] = BookedDriver[o]
        BY <1>1, <1>4, <2>1, <3>1 DEF CommitBooking, Carried, TypeOK
      <3>3. QED
        BY <1>1, <3>1, <3>2 DEF ClaimsDriver, TypeOK, Live
    <2>2. CASE CommitActivation(v)
      <3>1. claim[v].op = "activate" /\ holder' = holder
        BY <2>2 DEF CommitActivation
      <3>2. QED
        BY <1>1, <1>4, <3>1 DEF ClaimsDriver, Starts, TypeOK
    <2>3. CASE CommitOffer(v)
      <3>1. claim[v].op # "create" /\ holder' = holder /\ status' = status
        BY <2>3 DEF CommitOffer
      <3>2. QED
        BY <1>1, <3>1 DEF ClaimsDriver, TypeOK, Live
    <2>4. CASE CommitHandover(v)
      <3>1. /\ claim[v].op = "complete" /\ status' = status
            /\ Live(o) /\ claim[v].offer \in Offers /\ claim[v].offer.incoming \in Drivers
        BY <1>1, <1>3, <1>4, <2>4, CommitFinds DEF CommitHandover
      <3>2. holder'[o] = claim[v].offer.incoming
        BY <1>1, <1>4, <2>4 DEF CommitHandover, TypeOK
      <3>3. QED
        BY <1>4, <3>1, <3>2, NothingAssumption DEF ClaimsDriver, HandsTo, Live
    <2>5. QED
      BY <1>3, <2>1, <2>2, <2>3, <2>4 DEF Commits
  <1>10. QED
    BY <1>3, <1>4, <1>5, <1>6, <1>7, <1>8, <1>9

\* The rows a checked claim locks.
LEMMA CheckedLocks ==
  ASSUME TypeOK, CrewLocked, NEW w \in Workers, stage[w] = "checked", NEW t \in Trips,
         claim[w].trip = t, claim[w].op # "create"
  PROVE  /\ TripRow(t) \in holds[w] /\ DriverRow(holder[t]) \in holds[w]
         /\ \A x \in VehiclesOf[t] : VehicleRow(x) \in holds[w]
         /\ claim[w].offer # NoOffer /\ claim[w].offer.incoming \in Drivers
              => DriverRow(claim[w].offer.incoming) \in holds[w]
  BY DEF CrewLocked, ClaimsDriver, TypeOK

\* A driver or vehicle that an open transaction locks is not put on another
\* trip by somebody else's step.
LEMMA NotMovedOnto ==
  ASSUME IInv, [Next]_vars, NEW w \in Workers, OtherStep(w), stage[w] = "checked",
         NEW o \in Trips,
         \/ DriverRow(holder'[o]) \in holds[w]
         \/ \E x \in VehiclesOf[o] : VehicleRow(x) \in holds[w]
  PROVE  /\ Live(o)' => Live(o)
         /\ status'[o] = "created" => status[o] = "created"
         /\ DriverRow(holder'[o]) \in holds[w] => holder'[o] = holder[o]
  <1>1. TypeOK /\ LocksExclusive
    BY DEF IInv
  <1>2. stage'[w] = "checked"
    BY <1>1, Untouched
  <1>3. SUFFICES ASSUME \/ Live(o)' /\ ~Live(o)
                        \/ status'[o] = "created" /\ status[o] # "created"
                        \/ holder'[o] # holder[o] /\ DriverRow(holder'[o]) \in holds[w]
                 PROVE  FALSE
    OBVIOUS
  <1>4. PICK v \in Workers :
           /\ stage'[v] = "idle" /\ DriverRow(holder'[o]) \in holds[v]
           /\ \A x \in VehiclesOf[o] : VehicleRow(x) \in holds[v]
    BY <1>3, MovesOnlyLocked
  <1>5. QED
    BY <1>1, <1>2, <1>4 DEF LocksExclusive

\* A checked start still finds its crew free, after every step.
LEMMA StartsFreeStep == IInv /\ [Next]_vars => StartsFree'
  <1> SUFFICES ASSUME IInv, [Next]_vars, NEW w \in Workers, NEW t \in Trips,
                      stage'[w] = "checked", Starts(w, t)'
               PROVE  Underway(t)' = {} /\ EarlierToday(t)' = {}
    BY DEF StartsFree
  <1>1. TypeOK /\ LocksExclusive /\ CrewLocked /\ ClaimsStand /\ StartsFree
    BY DEF IInv
  <1>2. CASE OtherStep(w)
    <2>1. stage[w] = "checked" /\ claim'[w] = claim[w]
      BY <1>1, <1>2, Untouched
    <2>2. Starts(w, t) /\ claim[w].op # "create" /\ claim[w].trip = t
      BY <2>1 DEF Starts
    <2>3. Underway(t) = {} /\ EarlierToday(t) = {}
      BY <1>1, <2>1, <2>2 DEF StartsFree
    <2>4. /\ TripRow(t) \in holds[w] /\ DriverRow(holder[t]) \in holds[w]
          /\ \A x \in VehiclesOf[t] : VehicleRow(x) \in holds[w]
      BY <1>1, <2>1, <2>2, CheckedLocks
    <2>5. holder'[t] = holder[t]
      BY <1>1, <1>2, <2>4, TripLockKept
    <2>6. ASSUME NEW o \in Trips \ {t}, Live(o)',
                 holder'[o] = holder[t] \/ VehiclesOf[o] \intersect VehiclesOf[t] # {}
          PROVE  FALSE
      <3>1. Live(o)
        BY <1>2, <2>1, <2>4, <2>6, NotMovedOnto
      <3>2. holder'[o] = holder[t] => holder[o] = holder[t]
        BY <1>2, <2>1, <2>4, NotMovedOnto
      <3>3. QED
        BY <2>3, <2>6, <3>1, <3>2 DEF Underway
    <2>7. ASSUME NEW o \in Trips \ {t}, status'[o] = "created", holder'[o] = holder[t],
                 Day(Start[o]) = Day(Start[t]), Start[o] < Start[t]
          PROVE  FALSE
      <3>1. status[o] = "created" /\ holder[o] = holder[t]
        BY <1>2, <2>1, <2>4, <2>7, NotMovedOnto
      <3>2. QED
        BY <2>3, <2>7, <3>1 DEF EarlierToday
    <2>8. QED
      BY <2>5, <2>6, <2>7 DEF Underway, EarlierToday, Day, Live
  <1>3. CASE StepOf(w)
    <2>1. Check(w)
      BY <1>1, <1>3, CheckedByCheck
    <2>2. UNCHANGED <<trips, now>> /\ claim' = claim /\ Grantable(claim[w])
      BY <2>1 DEF Check
    <2>3. Underway(t) = {} /\ EarlierToday(t) = {}
      BY <2>2 DEF Starts, Grantable
    <2>4. QED
      BY <2>2, <2>3 DEF Underway, EarlierToday, Live, trips, Day
  <1>4. QED
    BY <1>2, <1>3, StepSplit

\* A takeover that is checked found the incoming driver on no other trip.
LEMMA TakeoverFree ==
  ASSUME TypeOK, NEW t \in Trips, NEW d \in Drivers,
         DriverFree(d, TakeoverWindow(t, now), now, t)
  PROVE  NotOn(d, t)
  <1> SUFFICES ASSUME NEW o \in Trips \ {t}, Live(o), holder[o] = d PROVE FALSE
    BY DEF NotOn
  <1>1. now \in Nat /\ now < Forever /\ Forever \in Nat
    BY NowTyped, Clock
  <1>2. Start[o] \in Nat /\ End[o] \in Nat /\ End[t] \in Nat
    BY TimeAssumption
  <1>3. HeldWindow(o, now).from <= now /\ now < HeldWindow(o, now).until
    BY <1>1, <1>2 DEF HeldWindow
  <1>4. TakeoverWindow(t, now).from = now /\ now < TakeoverWindow(t, now).until
    BY <1>1, <1>2 DEF TakeoverWindow, Arrival
  <1>5. HeldWindow(o, now).from \in Nat
    BY <1>1, <1>2 DEF HeldWindow
  <1>6. TakeoverWindow(t, now).until \in Nat
    BY <1>1, <1>2 DEF TakeoverWindow, Arrival
  <1>7. Overlap(HeldWindow(o, now), TakeoverWindow(t, now))
    BY <1>1, <1>3, <1>4, <1>5, <1>6 DEF Overlap
  <1>8. QED
    BY <1>7 DEF DriverFree, HoldingDriver, Occupying, Live

\* A checked takeover still finds the incoming driver on no other trip.
LEMMA HandsFreeStep == IInv /\ [Next]_vars => HandsFree'
  <1> SUFFICES ASSUME IInv, [Next]_vars, NEW w \in Workers, NEW t \in Trips, NEW d \in Drivers,
                      stage'[w] = "checked", HandsTo(w, t, d)'
               PROVE  NotOn(d, t)'
    BY DEF HandsFree
  <1>1. TypeOK /\ LocksExclusive /\ CrewLocked /\ ClaimsStand /\ HandsFree
    BY DEF IInv
  <1>2. CASE OtherStep(w)
    <2>1. stage[w] = "checked" /\ claim'[w] = claim[w]
      BY <1>1, <1>2, Untouched
    <2>2. HandsTo(w, t, d) /\ claim[w].op = "complete" /\ claim[w].trip = t
      BY <2>1 DEF HandsTo
    <2>3. NotOn(d, t)
      BY <1>1, <2>1, <2>2 DEF HandsFree
    <2>4. claim[w].offer # NoOffer /\ claim[w].offer.incoming = d
      BY <1>1, <2>1, <2>2 DEF ClaimsStand, HandsTo
    <2>5. DriverRow(d) \in holds[w]
      BY <1>1, <2>1, <2>2, <2>4, CheckedLocks
    <2>6. ASSUME NEW o \in Trips \ {t}, Live(o)', holder'[o] = d PROVE FALSE
      <3>1. Live(o) /\ holder[o] = d
        BY <1>2, <2>1, <2>5, <2>6, NotMovedOnto
      <3>2. QED
        BY <2>3, <3>1 DEF NotOn
    <2>7. QED
      BY <2>6 DEF NotOn, Live
  <1>3. CASE StepOf(w)
    <2>1. Check(w)
      BY <1>1, <1>3, CheckedByCheck
    <2>2. UNCHANGED <<trips, now>> /\ claim' = claim /\ Grantable(claim[w])
      BY <2>1 DEF Check
    <2>3. DriverFree(d, TakeoverWindow(t, now), now, t)
      BY <2>2 DEF HandsTo, Grantable
    <2>4. NotOn(d, t)
      BY <1>1, <2>3, TakeoverFree
    <2>5. QED
      BY <2>2, <2>4 DEF NotOn, Live, trips
  <1>4. QED
    BY <1>2, <1>3, StepSplit

\* A trip that is started or passes to another driver clashes with no trip
\* that is on the road.
LEMMA MovedIsApart ==
  ASSUME IInv, [Next]_vars, NEW t \in Trips, NEW o \in Trips \ {t}, Live(t)', Live(o)',
         ~Live(t) \/ holder'[t] # holder[t]
  PROVE  holder'[t] # holder'[o] /\ VehiclesOf[t] \intersect VehiclesOf[o] = {}
  <1>1. TypeOK /\ TypeOK' /\ StartsFree /\ HandsFree /\ OneTripAtATime
    BY TypeStep DEF IInv
  <1>2. PICK v \in Workers :
           /\ Commits(v) /\ stage[v] = "checked" /\ claim[v].trip = t
           /\ Live(t)' /\ ~Live(t) => Starts(v, t) /\ holder'[t] = holder[t]
           /\ holder'[t] # holder[t] => HandsTo(v, t, holder'[t]) /\ Live(t)
    BY MovesOnlyLocked
  <1>3. Live(o) /\ holder'[o] = holder[o]
    BY <1>1, <1>2, OnlyOwnTrip DEF Live
  <1>4. CASE ~Live(t)
    <2>1. Underway(t) = {} /\ holder'[t] = holder[t]
      BY <1>1, <1>2, <1>4 DEF StartsFree
    <2>2. QED
      BY <1>3, <2>1 DEF Underway
  <1>5. CASE Live(t) /\ holder'[t] # holder[t]
    <2>1. holder'[t] \in Drivers
      BY <1>1 DEF TypeOK
    <2>2. NotOn(holder'[t], t)
      BY <1>1, <1>2, <1>5, <2>1 DEF HandsFree
    <2>3. QED
      BY <1>1, <1>3, <1>5, <2>2 DEF NotOn, OneTripAtATime
  <1>6. QED
    BY <1>4, <1>5

LEMMA OneTripStep == IInv /\ [Next]_vars => OneTripAtATime'
  <1> SUFFICES ASSUME IInv, [Next]_vars, NEW t \in Trips, NEW o \in Trips, t # o, Live(t)', Live(o)'
               PROVE  holder'[t] # holder'[o] /\ VehiclesOf[t] \intersect VehiclesOf[o] = {}
    BY DEF OneTripAtATime
  <1>1. CASE ~Live(t) \/ holder'[t] # holder[t]
    BY <1>1, MovedIsApart
  <1>2. CASE ~Live(o) \/ holder'[o] # holder[o]
    BY <1>2, MovedIsApart
  <1>3. CASE Live(t) /\ Live(o) /\ holder'[t] = holder[t] /\ holder'[o] = holder[o]
    BY <1>3 DEF IInv, OneTripAtATime
  <1>4. QED
    BY <1>1, <1>2, <1>3
-----------------------------------------------------------------------------
(* No driver and no vehicle committed twice.                               *)

\* What a commit adds is clear of what the other trips keep.
LEMMA GainedIsClear ==
  ASSUME IInv, [Next]_vars, NEW t \in Trips, NEW o \in Trips \ {t}, NEW r \in Rows,
         NEW a \in CommittedFrom(t, r)', a \notin CommittedFrom(t, r), NEW b \in CommittedFrom(o, r)'
  PROVE  \E x \in {a, b, now'} : End[t] <= x \/ End[o] <= x
  <1>1. TypeOK /\ ClaimsStand /\ ClearAsked
    BY DEF IInv
  <1>2. PICK v \in Workers : Commits(v)
    BY <1>1, NothingElseGains
  <1>3. claim[v].trip = t /\ Asks(v, t, r, a)
    BY <1>2, GainsOnlyLocked
  <1>4. stage[v] = "checked" /\ claim[v] \in Claims
    BY <1>1, <1>2, <1>3, CommitFinds DEF IInv
  <1>5. a \in Nat
    <2>1. Start[t] \in Nat
      BY TimeAssumption
    <2>2. claim[v].op \in {"arrange", "replace"} => claim[v].offer \in Offers
      BY <1>1, <1>3, <1>4 DEF ClaimsStand, Claims
    <2>3. claim[v].op \in {"arrange", "replace"} => claim[v].offer.from \in 0 .. Forever - 1
      BY <2>2 DEF Offers
    <2>4. QED
      BY <1>3, <2>1, <2>3, Clock DEF Asks
  <1>6. Clear(t, r, a)
    BY <1>1, <1>3, <1>4, <1>5 DEF ClearAsked
  <1>7. b \in CommittedFrom(o, r) /\ now' = now
    BY <1>1, <1>2, <1>3, OnlyOwnTrip DEF CommittedFrom, Occupying
  <1>8. QED
    BY <1>6, <1>7 DEF Clear

LEMMA NoDoubleStep == IInv /\ [Next]_vars => NoDoubleBooking'
  <1> SUFFICES ASSUME IInv, [Next]_vars, NEW t \in Trips, NEW o \in Trips, t # o, NEW r \in Rows,
                      NEW a \in CommittedFrom(t, r)', NEW b \in CommittedFrom(o, r)'
               PROVE  \E x \in {a, b, now'} : End[t] <= x \/ End[o] <= x
    BY DEF NoDoubleBooking
  <1>1. TypeOK /\ TypeOK' /\ NoDoubleBooking
    BY TypeStep DEF IInv
  <1>2. CASE a \notin CommittedFrom(t, r)
    BY <1>2, GainedIsClear
  <1>3. CASE b \notin CommittedFrom(o, r)
    BY <1>3, GainedIsClear
  <1>4. CASE a \in CommittedFrom(t, r) /\ b \in CommittedFrom(o, r)
    <2>1. PICK x \in {a, b, now} : End[t] <= x \/ End[o] <= x
      BY <1>1, <1>4 DEF NoDoubleBooking
    <2>2. now' >= now /\ now \in Nat /\ now' \in Nat
      <3>1. now' \in Time
        BY <1>1 DEF TypeOK
      <3>2. QED
        BY <1>1, <3>1, TimePasses, NowTyped, Clock DEF Time
    <2>3. End[t] \in Nat /\ End[o] \in Nat
      BY TimeAssumption
    <2>4. CASE x = now
      BY <2>1, <2>2, <2>3, <2>4
    <2>5. QED
      BY <2>1, <2>4
  <1>5. QED
    BY <1>2, <1>3, <1>4
-----------------------------------------------------------------------------
\* The invariant holds in every reachable state.
LEMMA Invariant == Spec => []IInv
  <1>1. IInv /\ [Next]_vars => IInv'
    <2> SUFFICES ASSUME IInv, [Next]_vars PROVE IInv'
      OBVIOUS
    <2>1. TypeOK' /\ LocksExclusive' /\ CrewLocked' /\ Carried' /\ ClaimsStand' /\ OneBooking'
      BY TypeStep, LocksStep, CrewLockedStep, CarriedStep, ClaimsStandStep, OneBookingStep
    <2>2. ClearAsked' /\ StartsFree' /\ HandsFree' /\ OneTripAtATime' /\ NoDoubleBooking'
      BY ClearAskedStep, StartsFreeStep, HandsFreeStep, OneTripStep, NoDoubleStep
    <2>3. QED
      BY <2>1, <2>2 DEF IInv
  <1>2. QED
    BY InitIInv, <1>1, PTL DEF Spec

\* Every variable has its type in every reachable state, and a transaction
\* that is not open holds no lock (Finish: commit and rollback release all).
THEOREM TypeCorrect == Spec => []TypeOK
  BY Invariant, PTL DEF IInv

\* However activations, handovers and endings interleave, no driver and no
\* vehicle is on two trips that were both started by their driver
\* (scheduling.py _claim_crew_for_activation, eligibility.py
\* first_completion_blocker).
THEOREM OneTripAtATimeHolds == Spec => []OneTripAtATime
  BY Invariant, PTL DEF IInv

\* However bookings, handover requests and completions interleave, no driver
\* and no vehicle is committed twice for the same part of what is left of
\* the plan (creation.py _claim_crew, eligibility.py require_arrangeable).
THEOREM NoDoubleBookingHolds == Spec => []NoDoubleBooking
  BY Invariant, PTL DEF IInv

\* A driver starts the trips of one day in the order of their departures,
\* also when an earlier one is booked during the start
\* (scheduling.py _reject_if_an_earlier_trip_is_due).
THEOREM StartedInOrderHolds == Spec => StartedInOrder
  <1>1. IInv /\ [Next]_vars => [\A t \in Trips : ~Live(t) /\ Live(t)' => EarlierToday(t)' = {}]_vars
    <2> SUFFICES ASSUME IInv, [Next]_vars, NEW t \in Trips, ~Live(t), Live(t)'
                 PROVE  EarlierToday(t)' = {}
      OBVIOUS
    <2>1. TypeOK /\ StartsFree
      BY DEF IInv
    <2>2. PICK v \in Workers : /\ Commits(v) /\ stage[v] = "checked" /\ claim[v].trip = t
                               /\ Starts(v, t) /\ holder'[t] = holder[t]
      BY MovesOnlyLocked
    <2>3. EarlierToday(t) = {}
      BY <2>1, <2>2 DEF StartsFree
    <2>4. \A o \in Trips \ {t} : status'[o] = status[o] /\ holder'[o] = holder[o]
      BY <2>1, <2>2, OnlyOwnTrip
    <2>5. QED
      BY <2>2, <2>3, <2>4 DEF EarlierToday, Day
  <1>2. QED
    BY Invariant, <1>1, PTL DEF Spec, StartedInOrder
-----------------------------------------------------------------------------
(* Waiting.                                                                *)

\* What a transaction holds comes before everything it has yet to lock.
InLockOrder == \A w \in Workers : \A h \in holds[w], r \in wants[w] : Before(h, r)

LEMMA RowsTyped ==
  \A r \in Rows : r[1] \in Nat /\ r[2] \in Nat
  BY CrewAssumption DEF Rows, TripRow, DriverRow, VehicleRow

LEMMA BeforeIsStrict ==
  ASSUME NEW a \in Rows, NEW b \in Rows, NEW c \in Rows
  PROVE  ~Before(a, a) /\ (Before(a, b) /\ Before(b, c) => Before(a, c))
  BY RowsTyped DEF Before

LEMMA LessIsWellFounded == IsWellFoundedOn({s \in Nat \X Nat : s[1] < s[2]}, Nat)
  BY NatLessThanWellFounded, Zenon DEF OpToRel

LEMMA NatLeast ==
  ASSUME NEW S \in SUBSET Nat, S # {}
  PROVE  \E x \in S : \A y \in S : x <= y
  <1> DEFINE less == {s \in Nat \X Nat : s[1] < s[2]}
  <1>1. PICK x \in S : \A y \in S : ~(<<y, x>> \in less)
    <2>1. IsWellFoundedOn(less, Nat)
      BY LessIsWellFounded
    <2> HIDE DEF less
    <2>2. QED
      BY <2>1, WFMin
  <1>2. ASSUME NEW y \in S PROVE x <= y
    <2> DEFINE pair == <<y, x>>
    <2>1. pair \in Nat \X Nat /\ pair[1] = y /\ pair[2] = x
      OBVIOUS
    <2>2. pair \notin less
      BY <1>1
    <2> HIDE DEF pair
    <2>3. ~(y < x)
      BY <2>1, <2>2
    <2>4. QED
      BY <2>3
  <1>3. QED
    BY <1>2

\* Of the rows a transaction has yet to lock, one comes first.
LEMMA ForemostExists ==
  ASSUME NEW S \in SUBSET Rows, S # {}
  PROVE  Foremost(S) # {}
  <1> DEFINE tables == {r[1] : r \in S}
  <1>1. PICK k \in tables : \A j \in tables : k <= j
    <2>1. tables \in SUBSET Nat /\ tables # {}
      BY RowsTyped
    <2> HIDE DEF tables
    <2>2. QED
      BY <2>1, NatLeast
  <1> DEFINE ids == {r[2] : r \in {q \in S : q[1] = k}}
  <1>2. PICK i \in ids : \A j \in ids : i <= j
    <2>1. ids \in SUBSET Nat /\ ids # {}
      BY RowsTyped
    <2> HIDE DEF ids, tables
    <2>2. QED
      BY <2>1, NatLeast
  <1>3. PICK r \in S : r[1] = k /\ r[2] = i
    BY <1>2
  <1>4. ASSUME NEW s \in S \ {r} PROVE Before(r, s)
    <2>1. r[1] <= s[1] /\ (s[1] = r[1] => r[2] <= s[2])
      BY <1>1, <1>2, <1>3
    <2>2. s[1] = r[1] /\ s[2] = r[2] => s = r
      BY DEF Rows, TripRow, DriverRow, VehicleRow
    <2>3. QED
      BY <2>1, <2>2, RowsTyped DEF Before
  <1>5. QED
    BY <1>4 DEF Foremost

LEMMA OrderInit == Init => InLockOrder
  BY DEF Init, InLockOrder

\* A transaction locks its trip before its crew, and its crew from the first
\* row on.
LEMMA OrderStep == TypeOK /\ InLockOrder /\ [Next]_vars => InLockOrder'
  <1> SUFFICES ASSUME TypeOK, InLockOrder, [Next]_vars,
                      NEW w \in Workers, NEW h \in holds'[w], NEW r \in wants'[w]
               PROVE  Before(h, r)
    BY DEF InLockOrder
  <1>1. CASE OtherStep(w)
    BY <1>1, Untouched DEF InLockOrder
  <1>2. CASE LockCrew(w)
    <2>1. PICK q \in Foremost(wants[w]) : /\ wants' = [wants EXCEPT ![w] = @ \ {q}]
                                          /\ holds' = [holds EXCEPT ![w] = @ \union {q}]
      BY <1>2 DEF LockCrew
    <2>2. wants'[w] = wants[w] \ {q} /\ holds'[w] = holds[w] \union {q}
      BY <2>1 DEF TypeOK
    <2>3. QED
      BY <2>2 DEF InLockOrder, Foremost
  <1>3. CASE \E t \in Trips, op \in Ops \ {"create"} : \E o \in OffersFor(op, t) :
               LockTrip(w, op, t, o)
    <2>1. PICK t \in Trips, op \in Ops \ {"create"} : \E o \in OffersFor(op, t) :
                 LockTrip(w, op, t, o)
      BY <1>3
    <2>2. PICK o \in OffersFor(op, t) : LockTrip(w, op, t, o)
      BY <2>1
    <2>3. holds'[w] = {TripRow(t)} /\ wants'[w] = CrewRows(t, ClaimedDrivers(t, o))
      BY <2>2 DEF LockTrip, TypeOK
    <2>4. h[1] = 0 /\ r[1] \in {1, 2}
      BY <2>3 DEF TripRow, CrewRows, DriverRow, VehicleRow
    <2>5. QED
      BY <2>4 DEF Before
  <1>4. CASE \E t \in Trips : Book(w, t)
    BY <1>4 DEF Book, TypeOK
  <1>5. CASE Check(w)
    BY <1>5 DEF Check, InLockOrder
  <1>6. CASE Refuse(w) \/ Rollback(w) \/ Commits(w)
    BY <1>6, OwnWork DEF StepOf, Transaction, Commits, TypeOK, Refuse, Rollback,
       CommitBooking, CommitActivation, CommitOffer, CommitHandover, Finish
  <1>7. QED
    BY <1>1, <1>2, <1>3, <1>4, <1>5, <1>6, StepSplit DEF StepOf, Transaction, Commits

LEMMA OrderAlways == Spec => [](TypeOK /\ InLockOrder)
  BY Invariant, OrderInit, OrderStep, PTL DEF Spec, IInv

\* If every transaction of a finite set waited for another of it, each would
\* wait for a later row than the one that waits for it, without end.
LEMMA OrderExcludesCycles == TypeOK /\ InLockOrder => NoWaitCycle
  <1> SUFFICES ASSUME TypeOK, InLockOrder,
                      NEW S \in SUBSET Workers, S # {}, \A w \in S : Blocked(w, S)
               PROVE  FALSE
    BY DEF NoWaitCycle
  <1> DEFINE first(w) == CHOOSE r \in Foremost(wants[w]) : TRUE
  <1>1. ASSUME NEW w \in S
        PROVE  /\ first(w) \in Rows /\ first(w) \in wants[w]
               /\ \E v \in S : first(w) \in holds[v]
    <2>1. wants[w] # {} /\ wants[w] \in SUBSET Rows
      BY DEF Blocked, TypeOK
    <2>2. first(w) \in Foremost(wants[w])
      BY <2>1, ForemostExists
    <2>3. first(w) \in wants[w]
      BY <2>2 DEF Foremost
    <2>4. QED
      BY <2>1, <2>2, <2>3 DEF Blocked
  <1> DEFINE later(w) == {x \in S : Before(first(w), first(x))}
  <1>2. ASSUME NEW w \in S
        PROVE  \E v \in S : v \in later(w) /\ later(v) \subseteq later(w) /\ v \notin later(v)
    <2>1. PICK v \in S : first(w) \in holds[v]
      BY <1>1
    <2>2. Before(first(w), first(v))
      BY <1>1, <2>1 DEF InLockOrder
    <2> HIDE DEF first
    <2>3. QED
      BY <1>1, <2>2, BeforeIsStrict
  <1>3. IsFiniteSet(S) /\ \A w \in S : IsFiniteSet(later(w)) /\ Cardinality(later(w)) \in Nat
    <2>1. IsFiniteSet(S)
      BY WorkersAssumption, FS_Subset
    <2>2. \A w \in S : later(w) \in SUBSET S
      OBVIOUS
    <2> HIDE DEF later
    <2>3. QED
      BY <2>1, <2>2, FS_Subset, FS_CardinalityType
  <1> DEFINE sizes == {Cardinality(later(w)) : w \in S}
  <1>4. PICK w \in S : \A v \in S : Cardinality(later(w)) <= Cardinality(later(v))
    <2> HIDE DEF later
    <2>1. sizes \in SUBSET Nat /\ sizes # {}
      BY <1>3
    <2> HIDE DEF sizes
    <2>2. PICK n \in sizes : \A m \in sizes : n <= m
      BY <2>1, NatLeast
    <2> USE DEF sizes
    <2>3. QED
      BY <2>2
  <1>5. PICK v \in S : v \in later(w) /\ later(v) \subseteq later(w) /\ v \notin later(v)
    BY <1>2
  <1> HIDE DEF later
  <1>6. Cardinality(later(v)) < Cardinality(later(w))
    BY <1>3, <1>5, FS_Subset
  <1>7. QED
    BY <1>3, <1>4, <1>6

\* However many transactions are open, bookings, activations and handovers
\* never wait for each other in a circle: the rows are locked in one order
\* (availability.py lock_crew_set, called under the trip's lock).
THEOREM NoWaitCycleHolds == Spec => []NoWaitCycle
  BY OrderAlways, OrderExcludesCycles, PTL
=============================================================================
