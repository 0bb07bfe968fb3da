--------------------------- MODULE PhasePlan_proofs ---------------------------
(***************************************************************************)
(* Proofs about PhasePlan: what build_phase_plan makes of a route of any   *)
(* length.  The loop over the stops is the induction.                      *)
(***************************************************************************)
EXTENDS PhasePlan, SequenceTheorems, TLAPS

PlanRow == [type : PhaseType, stop : Nat]

RouteInv ==
  /\ stops \in Routes /\ next \in 1..Len(stops) + 1
  /\ plan \in Seq(PlanRow)
  /\ Len(plan) >= 1 /\ plan[1] = Row("trip_creation", 0)
  /\ \A k \in Rows : k # 1 => plan[k].stop \in 1..next - 1

\* A route under way ends with the drive from the stop emitted last.
DriveIsOpen ==
  1 < next /\ next <= Len(stops) =>
    /\ Len(plan) >= 3
    /\ plan[Len(plan)] = Row("in_transit", next - 1)
    /\ plan[Len(plan) - 1] = Row("departure", next - 1)

\* Every arrival follows the departure and the drive of the stop before, and
\* every drive but an open one is followed by an arrival.
LegsMeet ==
  /\ \A k \in Rows : plan[k].type = "arrival" =>
       /\ k >= 3
       /\ plan[k - 1] = Row("in_transit", plan[k].stop - 1)
       /\ plan[k - 2] = Row("departure", plan[k].stop - 1)
  /\ \A k \in Rows : plan[k].type = "in_transit" =>
       \/ k < Len(plan) /\ plan[k + 1].type = "arrival"
       \/ k = Len(plan) /\ next <= Len(stops)

StopsComplete ==
  /\ \A s \in 1..next - 1 : PhasesAt(s) = Required(s)
  /\ \A j, k \in Rows : plan[j] = plan[k] => j = k
  /\ \A j, k \in Rows :
       /\ plan[j].stop = plan[k].stop
       /\ plan[j].type = "unloading" /\ plan[k].type = "loading"
       /\ stops[plan[j].stop].drops_off
       => j < k

PlanInv == RouteInv /\ DriveIsOpen /\ LegsMeet /\ StopsComplete
-----------------------------------------------------------------------------
(* The rows of one stop.                                                   *)

LEMMA RouteTyped ==
  ASSUME NEW r \in Routes
  PROVE  /\ Len(r) \in Nat /\ Len(r) >= 2 /\ DOMAIN r = 1..Len(r)
         /\ \A i \in 1..Len(r) : r[i] \in PlanStop
  <1>1. PICK n \in 2..MaxStops : r \in [1..n -> PlanStop]
    BY DEF Routes
  <1>2. n \in Nat /\ n >= 2
    BY <1>1, MaxStopsAssumption
  <1>3. r \in Seq(PlanStop) /\ Len(r) = n
    BY <1>1, <1>2
  <1>4. QED
    BY <1>1, <1>2, <1>3

\* Where the rows of stop i stand: o rows open it, m load there.
Opens(r, i) == IF i # 1 /\ r[i].drops_off THEN 2 ELSE 1
Loads(r, i) == IF r[i].picks_up THEN 1 ELSE 0

Placed(r, i, a) ==
  LET o == Opens(r, i)
      m == Loads(r, i)
  IN /\ a \in Seq(PlanRow)
     /\ a[1] = Row(IF i = 1 THEN "activation" ELSE "arrival", i)
     /\ o = 2 => a[2] = Row("unloading", i)
     /\ m = 1 => a[o + 1] = Row("loading", i)
     /\ i < Len(r) => /\ Len(a) = o + m + 2
                      /\ a[o + m + 1] = Row("departure", i)
                      /\ a[o + m + 2] = Row("in_transit", i)
     /\ i = Len(r) /\ r[i].drops_off => /\ Len(a) = o + m + 1
                                        /\ a[o + m + 1] = Row("confirmation", i)
     /\ i = Len(r) /\ ~r[i].drops_off => /\ Len(a) = o + m + 2
                                         /\ a[o + m + 1] = Row("unloading", i)
                                         /\ a[o + m + 2] = Row("confirmation", i)

LEMMA RowTyped ==
  ASSUME NEW t \in PhaseType, NEW i \in Nat
  PROVE  Row(t, i) \in PlanRow /\ Row(t, i).type = t /\ Row(t, i).stop = i
  BY DEF Row, PlanRow

LEMMA ThreeParts ==
  ASSUME NEW S, NEW x \in Seq(S), NEW y \in Seq(S), NEW z \in Seq(S), NEW w, w = (x \o y) \o z
  PROVE  /\ w \in Seq(S) /\ Len(w) = Len(x) + Len(y) + Len(z)
         /\ \A k \in 1..Len(w) :
              w[k] = IF k <= Len(x) THEN x[k]
                     ELSE IF k <= Len(x) + Len(y) THEN y[k - Len(x)]
                     ELSE z[k - (Len(x) + Len(y))]
  <1> DEFINE xy == x \o y
  <1>1. /\ xy \in Seq(S) /\ Len(xy) = Len(x) + Len(y)
        /\ \A k \in 1..Len(x) + Len(y) : xy[k] = IF k <= Len(x) THEN x[k] ELSE y[k - Len(x)]
    BY ConcatProperties
  <1>2. w = xy \o z
    OBVIOUS
  <1> HIDE DEF xy
  <1>3. /\ w \in Seq(S) /\ Len(w) = Len(xy) + Len(z)
        /\ \A k \in 1..Len(xy) + Len(z) : w[k] = IF k <= Len(xy) THEN xy[k] ELSE z[k - Len(xy)]
    <2>1. xy \in Seq(S)
      BY <1>1
    <2>2. QED
      BY <1>2, <2>1, ConcatProperties
  <1>4. Len(x) \in Nat /\ Len(y) \in Nat /\ Len(z) \in Nat
    OBVIOUS
  <1>5. QED
    BY <1>1, <1>3, <1>4

LEMMA AtStopPlaced ==
  ASSUME NEW r \in Routes, NEW i \in 1..Len(r)
  PROVE  Placed(r, i, AtStop(r, i))
  <1> DEFINE open == Opening(r, i)
             load == Only(r[i].picks_up, Row("loading", i))
             leave == Leaving(r, i)
             o == Opens(r, i)
             m == Loads(r, i)
             last == ~r[i].drops_off
  <1>1. /\ Len(r) \in Nat /\ Len(r) >= 2 /\ r[i] \in PlanStop /\ i \in Nat
        /\ r[i].picks_up \in BOOLEAN /\ r[i].drops_off \in BOOLEAN
    BY RouteTyped DEF PlanStop
  <1>2. /\ \A t \in PhaseType : Row(t, i) \in PlanRow
        /\ {"activation", "loading", "departure", "in_transit", "arrival", "unloading",
            "confirmation"} \subseteq PhaseType
    BY <1>1, RowTyped DEF PhaseType
  <1>3. /\ open \in Seq(PlanRow) /\ Len(open) = o
        /\ open[1] = Row(IF i = 1 THEN "activation" ELSE "arrival", i)
        /\ o = 2 => open[2] = Row("unloading", i)
    BY <1>1, <1>2 DEF Opening, Only, Opens
  <1>4. /\ load \in Seq(PlanRow) /\ Len(load) = m
        /\ m = 1 => load[1] = Row("loading", i)
    BY <1>1, <1>2 DEF Only, Loads
  <1>5. /\ leave \in Seq(PlanRow)
        /\ i < Len(r) => /\ Len(leave) = 2 /\ leave[1] = Row("departure", i)
                         /\ leave[2] = Row("in_transit", i)
        /\ i = Len(r) /\ r[i].drops_off => Len(leave) = 1 /\ leave[1] = Row("confirmation", i)
        /\ i = Len(r) /\ ~r[i].drops_off => /\ Len(leave) = 2 /\ leave[1] = Row("unloading", i)
                                            /\ leave[2] = Row("confirmation", i)
    BY <1>1, <1>2 DEF Leaving, Only
  <1>6. o \in {1, 2} /\ m \in {0, 1}
    BY DEF Opens, Loads
  <1>7. AtStop(r, i) = (open \o load) \o leave
    BY DEF AtStop
  <1> HIDE DEF open, load, leave
  <1> DEFINE a == AtStop(r, i)
             n == Len(leave)
  <1>8. /\ a \in Seq(PlanRow) /\ Len(a) = o + m + n
        /\ \A k \in 1..Len(a) : a[k] = IF k <= o THEN open[k]
                                     ELSE IF k <= o + m THEN load[k - o]
                                     ELSE leave[k - (o + m)]
    <2> HIDE DEF a
    <2>1. a = (open \o load) \o leave
      BY <1>7 DEF a
    <2>2. open \in Seq(PlanRow) /\ load \in Seq(PlanRow) /\ leave \in Seq(PlanRow)
      BY <1>3, <1>4, <1>5
    <2>3. Len(open) = o /\ Len(load) = m
      BY <1>3, <1>4
    <2> HIDE DEF o, m, n
    <2>4. /\ a \in Seq(PlanRow) /\ Len(a) = Len(open) + Len(load) + Len(leave)
          /\ \A k \in 1..Len(a) : a[k] = IF k <= Len(open) THEN open[k]
                                       ELSE IF k <= Len(open) + Len(load) THEN load[k - Len(open)]
                                       ELSE leave[k - (Len(open) + Len(load))]
      BY <2>1, <2>2, ThreeParts
    <2>5. QED
      BY <2>3, <2>4 DEF n
  <1>21. n \in {1, 2}
    BY <1>1, <1>5
  <1> HIDE DEF a, n, o, m
  <1>9. /\ a[1] = Row(IF i = 1 THEN "activation" ELSE "arrival", i)
        /\ o = 2 => a[2] = Row("unloading", i)
        /\ m = 1 => a[o + 1] = Row("loading", i)
    <2>1. a[1] = open[1] /\ (o = 2 => a[2] = open[2]) /\ (m = 1 => a[o + 1] = load[1])
      <3>1. a[1] = open[1]
        BY <1>6, <1>8, <1>21
      <3>2. o = 2 => a[2] = open[2]
        BY <1>6, <1>8, <1>21
      <3>3. m = 1 => a[o + 1] = load[1]
        BY <1>6, <1>8, <1>21
      <3>4. QED
        BY <3>1, <3>2, <3>3
    <2>2. QED
      BY <1>3, <1>4, <2>1
  <1>20. a[o + m + 1] = leave[1] /\ (n = 2 => a[o + m + 2] = leave[2])
    <2>1. a[o + m + 1] = leave[1]
      BY <1>6, <1>8, <1>21
    <2>2. n = 2 => a[o + m + 2] = leave[2]
      BY <1>6, <1>8, <1>21
    <2>3. QED
      BY <2>1, <2>2
  <1>10. i < Len(r) => /\ Len(a) = o + m + 2
                       /\ a[o + m + 1] = Row("departure", i)
                       /\ a[o + m + 2] = Row("in_transit", i)
    BY <1>5, <1>8, <1>20 DEF n
  <1>11. i = Len(r) /\ r[i].drops_off => /\ Len(a) = o + m + 1
                                         /\ a[o + m + 1] = Row("confirmation", i)
    BY <1>5, <1>8, <1>20 DEF n
  <1>12. i = Len(r) /\ ~r[i].drops_off => /\ Len(a) = o + m + 2
                                          /\ a[o + m + 1] = Row("unloading", i)
                                          /\ a[o + m + 2] = Row("confirmation", i)
    BY <1>5, <1>8, <1>20 DEF n
  <1>13. Placed(r, i, a)
    BY <1>8, <1>9, <1>10, <1>11, <1>12 DEF Placed, o, m
  <1>14. QED
    BY <1>13 DEF a

\* What each row of a stop is, by its place.
LEMMA RowKinds ==
  ASSUME NEW r \in Routes, NEW i \in 1..Len(r), NEW a, Placed(r, i, a), NEW k \in 1..Len(a)
  PROVE  LET o == Opens(r, i)
             m == Loads(r, i)
         IN /\ a[k].stop = i
            /\ \/ k = 1 /\ i = 1 /\ a[k].type = "activation"
               \/ k = 1 /\ i # 1 /\ a[k].type = "arrival"
               \/ k = 2 /\ i # 1 /\ r[i].drops_off /\ a[k].type = "unloading"
               \/ k = o + 1 /\ r[i].picks_up /\ a[k].type = "loading"
               \/ k = o + m + 1 /\ i < Len(r) /\ a[k].type = "departure"
               \/ k = o + m + 2 /\ i < Len(r) /\ a[k].type = "in_transit"
               \/ k = o + m + 1 /\ i = Len(r) /\ ~r[i].drops_off /\ a[k].type = "unloading"
               \/ k = Len(a) /\ i = Len(r) /\ a[k].type = "confirmation"
  <1> DEFINE o == Opens(r, i)
             m == Loads(r, i)
  <1>1. o \in {1, 2} /\ m \in {0, 1} /\ (o = 2 <=> i # 1 /\ r[i].drops_off)
        /\ (m = 1 <=> r[i].picks_up)
    BY DEF Opens, Loads
  <1>2. Len(r) \in Nat /\ i \in Nat /\ r[i].drops_off \in BOOLEAN /\ r[i].picks_up \in BOOLEAN
    BY RouteTyped DEF PlanStop
  <1>3. \A t : Row(t, i).type = t /\ Row(t, i).stop = i
    BY DEF Row
  <1>4. /\ a[1] = Row(IF i = 1 THEN "activation" ELSE "arrival", i)
        /\ o = 2 => a[2] = Row("unloading", i)
        /\ m = 1 => a[o + 1] = Row("loading", i)
    BY DEF Placed
  <1>5. i < Len(r) => /\ Len(a) = o + m + 2 /\ a[o + m + 1] = Row("departure", i)
                      /\ a[o + m + 2] = Row("in_transit", i)
    BY DEF Placed
  <1>6. i = Len(r) /\ r[i].drops_off => Len(a) = o + m + 1 /\ a[o + m + 1] = Row("confirmation", i)
    BY DEF Placed
  <1>7. i = Len(r) /\ ~r[i].drops_off => /\ Len(a) = o + m + 2 /\ a[o + m + 1] = Row("unloading", i)
                                         /\ a[o + m + 2] = Row("confirmation", i)
    BY DEF Placed
  <1>8. i < Len(r) \/ i = Len(r)
    BY <1>2
  <1> HIDE DEF o, m
  <1>9. CASE k = 1
    BY <1>3, <1>4, <1>9 DEF o, m
  <1>10. CASE k = 2 /\ o = 2
    BY <1>1, <1>3, <1>4, <1>10 DEF o, m
  <1>11. CASE k = o + 1 /\ m = 1
    BY <1>1, <1>3, <1>4, <1>11 DEF o, m
  <1>12. CASE k = o + m + 1
    BY <1>1, <1>2, <1>3, <1>5, <1>6, <1>7, <1>8, <1>12 DEF o, m
  <1>13. CASE k = o + m + 2
    BY <1>1, <1>2, <1>3, <1>5, <1>6, <1>7, <1>8, <1>13 DEF o, m
  <1>14. k \in {1, 2, 3, 4, 5} /\ (k = 1 \/ (k = 2 /\ o = 2) \/ (k = o + 1 /\ m = 1)
                                   \/ k = o + m + 1 \/ k = o + m + 2)
    BY <1>1, <1>5, <1>6, <1>7, <1>8
  <1>15. QED
    BY <1>9, <1>10, <1>11, <1>12, <1>13, <1>14

\* The rows of one stop: what the invariant of the plan needs of them.
StopRows(i, a) ==
  /\ a \in Seq(PlanRow) /\ Len(a) >= 1
  /\ \A k \in 1..Len(a) : /\ a[k].stop = i /\ a[k].type # "trip_creation"
                          /\ a[k].type = "arrival" => k = 1 /\ i # 1
                          /\ a[k].type = "in_transit" => k = Len(a) /\ i < Len(stops)
  /\ i # 1 => a[1].type = "arrival"
  /\ i < Len(stops) => /\ Len(a) >= 3
                       /\ a[Len(a)] = Row("in_transit", i)
                       /\ a[Len(a) - 1] = Row("departure", i)
  /\ {a[k].type : k \in 1..Len(a)} = Required(i)
  /\ \A j, k \in 1..Len(a) : a[j] = a[k] => j = k
  /\ \A j, k \in 1..Len(a) :
       a[j].type = "unloading" /\ a[k].type = "loading" /\ stops[i].drops_off => j < k

LEMMA StopRowsHold ==
  ASSUME stops \in Routes, NEW i \in 1..Len(stops)
  PROVE  StopRows(i, AtStop(stops, i))
  <1> DEFINE a == AtStop(stops, i)
             o == Opens(stops, i)
             m == Loads(stops, i)
  <1>1. Placed(stops, i, a)
    BY AtStopPlaced
  <1>2. /\ o \in {1, 2} /\ m \in {0, 1} /\ (o = 2 <=> i # 1 /\ stops[i].drops_off)
        /\ (m = 1 <=> stops[i].picks_up)
    BY DEF Opens, Loads
  <1>3. /\ Len(stops) \in Nat /\ Len(stops) >= 2 /\ i \in Nat
        /\ stops[i].drops_off \in BOOLEAN /\ stops[i].picks_up \in BOOLEAN
    BY RouteTyped DEF PlanStop
  <1> HIDE DEF a
  <1>4. /\ a \in Seq(PlanRow)
        /\ a[1] = Row(IF i = 1 THEN "activation" ELSE "arrival", i)
        /\ o = 2 => a[2] = Row("unloading", i)
        /\ m = 1 => a[o + 1] = Row("loading", i)
    BY <1>1 DEF Placed
  <1>5. i < Len(stops) => /\ Len(a) = o + m + 2 /\ a[o + m + 1] = Row("departure", i)
                          /\ a[o + m + 2] = Row("in_transit", i)
    BY <1>1 DEF Placed
  <1>6. i = Len(stops) /\ stops[i].drops_off =>
          Len(a) = o + m + 1 /\ a[o + m + 1] = Row("confirmation", i)
    BY <1>1 DEF Placed
  <1>7. i = Len(stops) /\ ~stops[i].drops_off =>
          /\ Len(a) = o + m + 2 /\ a[o + m + 1] = Row("unloading", i)
          /\ a[o + m + 2] = Row("confirmation", i)
    BY <1>1 DEF Placed
  <1>8. \A k \in 1..Len(a) :
          /\ a[k].stop = i
          /\ \/ k = 1 /\ i = 1 /\ a[k].type = "activation"
             \/ k = 1 /\ i # 1 /\ a[k].type = "arrival"
             \/ k = 2 /\ i # 1 /\ stops[i].drops_off /\ a[k].type = "unloading"
             \/ k = o + 1 /\ stops[i].picks_up /\ a[k].type = "loading"
             \/ k = o + m + 1 /\ i < Len(stops) /\ a[k].type = "departure"
             \/ k = o + m + 2 /\ i < Len(stops) /\ a[k].type = "in_transit"
             \/ k = o + m + 1 /\ i = Len(stops) /\ ~stops[i].drops_off /\ a[k].type = "unloading"
             \/ k = Len(a) /\ i = Len(stops) /\ a[k].type = "confirmation"
    BY <1>1, RowKinds
  <1> HIDE DEF o, m
  <1>9. Len(a) >= 1 /\ Len(a) \in Nat /\ (i < Len(stops) \/ i = Len(stops))
    BY <1>2, <1>3, <1>5, <1>6, <1>7
  <1>10. \A k \in 1..Len(a) : /\ a[k].stop = i /\ a[k].type # "trip_creation"
                              /\ a[k].type = "arrival" => k = 1 /\ i # 1
                              /\ a[k].type = "in_transit" => k = Len(a) /\ i < Len(stops)
    BY <1>5, <1>8
  <1>11. \A t, s : Row(t, s).type = t /\ Row(t, s).stop = s
    BY DEF Row
  <1>12. i # 1 => a[1].type = "arrival"
    BY <1>4, <1>11
  <1>13. i < Len(stops) => /\ Len(a) >= 3 /\ a[Len(a)] = Row("in_transit", i)
                           /\ a[Len(a) - 1] = Row("departure", i)
    <2>1. ASSUME i < Len(stops) PROVE Len(a) - 1 = o + m + 1 /\ Len(a) >= 3
      BY <1>2, <1>5, <2>1
    <2>2. QED
      BY <1>5, <2>1
  <1>14. \A j, k \in 1..Len(a) : a[j] = a[k] => j = k
    <2> DEFINE PlaceOf(t) == CASE t \in {"activation", "arrival"} -> 1
                               [] t = "unloading" -> IF stops[i].drops_off THEN 2 ELSE o + m + 1
                               [] t = "loading" -> o + 1
                               [] t = "departure" -> o + m + 1
                               [] t = "in_transit" -> o + m + 2
                               [] t = "confirmation" -> Len(a)
    <2>1. ASSUME NEW k \in 1..Len(a) PROVE k = PlaceOf(a[k].type)
      BY <1>8
    <2> HIDE DEF PlaceOf
    <2>2. QED
      BY <2>1
  <1>15. \A j, k \in 1..Len(a) :
           a[j].type = "unloading" /\ a[k].type = "loading" /\ stops[i].drops_off => j < k
    BY <1>2, <1>3, <1>8
  <1>16. {a[k].type : k \in 1..Len(a)} = Required(i)
    <2>1. ASSUME NEW k \in 1..Len(a) PROVE a[k].type \in Required(i)
      BY <1>3, <1>8, <2>1 DEF Required, IsLast, PhaseType
    <2>2. ASSUME NEW t \in Required(i) PROVE \E k \in 1..Len(a) : a[k].type = t
      <3>1. /\ 1 \in 1..Len(a) /\ (o = 2 => 2 \in 1..Len(a)) /\ (m = 1 => o + 1 \in 1..Len(a))
            /\ o + m + 1 \in 1..Len(a)
            /\ (i < Len(stops) \/ ~stops[i].drops_off => o + m + 2 \in 1..Len(a))
        BY <1>2, <1>3, <1>5, <1>6, <1>7, <1>9
      <3>2. CASE t = "activation" \/ t = "arrival"
        BY <1>4, <1>11, <2>2, <3>1, <3>2 DEF Required
      <3>3. CASE t = "unloading"
        BY <1>2, <1>4, <1>7, <1>11, <2>2, <3>1, <3>3 DEF Required, IsLast
      <3>4. CASE t = "loading"
        BY <1>2, <1>4, <1>11, <2>2, <3>1, <3>4 DEF Required
      <3>5. CASE t = "departure" \/ t = "in_transit"
        BY <1>5, <1>9, <1>11, <2>2, <3>1, <3>5 DEF Required, IsLast
      <3>6. CASE t = "confirmation"
        BY <1>3, <1>6, <1>7, <1>11, <2>2, <3>1, <3>6 DEF Required, IsLast
      <3>7. t \in {"activation", "arrival", "unloading", "loading", "departure", "in_transit",
                   "confirmation"}
        BY <2>2 DEF Required
      <3>8. QED
        BY <3>2, <3>3, <3>4, <3>5, <3>6, <3>7
    <2>3. QED
      BY <2>1, <2>2
  <1>17. QED
    BY <1>4, <1>9, <1>10, <1>12, <1>13, <1>14, <1>15, <1>16 DEF StopRows, a
-----------------------------------------------------------------------------
(* The loop: one stop after another.                                       *)

LEMMA PlanInvInit == Init => PlanInv
  <1> SUFFICES ASSUME Init PROVE PlanInv
    OBVIOUS
  <1>1. stops \in Routes /\ next = 1 /\ plan = <<Row("trip_creation", 0)>>
    BY DEF Init
  <1>2. Row("trip_creation", 0) \in PlanRow /\ Row("trip_creation", 0).type = "trip_creation"
    BY RowTyped DEF PhaseType
  <1>3. Len(stops) \in Nat /\ Len(stops) >= 2
    BY <1>1, RouteTyped
  <1>4. plan \in Seq(PlanRow) /\ Len(plan) = 1 /\ plan[1] = Row("trip_creation", 0) /\ Rows = {1}
    BY <1>1, <1>2 DEF Rows
  <1>5. QED
    BY <1>1, <1>2, <1>3, <1>4 DEF PlanInv, RouteInv, DriveIsOpen, LegsMeet, StopsComplete

\* A step of the loop appends the rows of one stop and keeps what is there.
LEMMA StopAppended ==
  ASSUME RouteInv, EmitStop
  PROVE  LET a == AtStop(stops, next)
             n == Len(plan)
         IN /\ next \in 1..Len(stops) /\ next' = next + 1 /\ stops' = stops
            /\ StopRows(next, a)
            /\ plan' \in Seq(PlanRow) /\ Len(plan') = n + Len(a)
            /\ \A k \in 1..n : plan'[k] = plan[k]
            /\ \A k \in 1..Len(plan') : k \notin 1..n => k - n \in 1..Len(a) /\ plan'[k] = a[k - n]
            /\ \A k \in 1..Len(a) : n + k \in 1..Len(plan') /\ plan'[n + k] = a[k]
  <1> DEFINE a == AtStop(stops, next)
             n == Len(plan)
  <1>1. /\ stops \in Routes /\ next \in 1..Len(stops) /\ plan \in Seq(PlanRow)
        /\ next' = next + 1 /\ stops' = stops /\ plan' = plan \o a
    <2>1. Len(stops) \in Nat
      BY RouteTyped DEF RouteInv
    <2>2. QED
      BY <2>1 DEF RouteInv, EmitStop
  <1>2. StopRows(next, a)
    BY <1>1, StopRowsHold
  <1> HIDE DEF a
  <1>3. a \in Seq(PlanRow) /\ Len(a) \in Nat /\ n \in Nat
    BY <1>1, <1>2 DEF StopRows
  <1>4. /\ plan' \in Seq(PlanRow) /\ Len(plan') = n + Len(a)
        /\ \A k \in 1..n + Len(a) : plan'[k] = IF k <= n THEN plan[k] ELSE a[k - n]
    BY <1>1, <1>3, ConcatProperties
  <1> HIDE DEF n
  <1>5. \A k \in 1..n : plan'[k] = plan[k]
    BY <1>3, <1>4
  <1>6. \A k \in 1..Len(plan') : k \notin 1..n => k - n \in 1..Len(a) /\ plan'[k] = a[k - n]
    BY <1>3, <1>4
  <1>7. \A k \in 1..Len(a) : n + k \in 1..Len(plan') /\ plan'[n + k] = a[k]
    <2>1. ASSUME NEW k \in 1..Len(a) PROVE n + k \in 1..Len(plan') /\ plan'[n + k] = a[k]
      <3>1. n + k \in 1..n + Len(a) /\ ~(n + k <= n) /\ (n + k) - n = k
        BY <1>3
      <3>2. QED
        BY <1>4, <3>1
    <2>2. QED
      BY <2>1
  <1>8. QED
    BY <1>1, <1>2, <1>4, <1>5, <1>6, <1>7 DEF a, n

LEMMA PlanInvStep == ASSUME PlanInv, EmitStop PROVE PlanInv'
  <1> DEFINE a == AtStop(stops, next)
             n == Len(plan)
  <1>1. RouteInv /\ DriveIsOpen /\ LegsMeet /\ StopsComplete
    BY DEF PlanInv
  <1>2. /\ next \in 1..Len(stops) /\ next' = next + 1 /\ stops' = stops
        /\ StopRows(next, a)
        /\ plan' \in Seq(PlanRow) /\ Len(plan') = n + Len(a)
        /\ \A k \in 1..n : plan'[k] = plan[k]
        /\ \A k \in 1..Len(plan') : k \notin 1..n => k - n \in 1..Len(a) /\ plan'[k] = a[k - n]
        /\ \A k \in 1..Len(a) : n + k \in 1..Len(plan') /\ plan'[n + k] = a[k]
    BY <1>1, StopAppended
  <1> HIDE DEF a
  <1>3. /\ a \in Seq(PlanRow) /\ Len(a) \in Nat /\ Len(a) >= 1
        /\ \A k \in 1..Len(a) : /\ a[k].stop = next /\ a[k].type # "trip_creation"
                                /\ a[k].type = "arrival" => k = 1 /\ next # 1
                                /\ a[k].type = "in_transit" => k = Len(a) /\ next < Len(stops)
        /\ next # 1 => a[1].type = "arrival"
        /\ next < Len(stops) => /\ Len(a) >= 3
                                /\ a[Len(a)] = Row("in_transit", next)
                                /\ a[Len(a) - 1] = Row("departure", next)
        /\ {a[k].type : k \in 1..Len(a)} = Required(next)
        /\ \A j, k \in 1..Len(a) : a[j] = a[k] => j = k
        /\ \A j, k \in 1..Len(a) :
             a[j].type = "unloading" /\ a[k].type = "loading" /\ stops[next].drops_off => j < k
    <2>1. StopRows(next, a)
      BY <1>2
    <2>2. a \in Seq(PlanRow) => Len(a) \in Nat
      OBVIOUS
    <2>3. QED
      BY <2>1, <2>2, Zenon DEF StopRows
  <1>4. /\ stops \in Routes /\ Len(stops) \in Nat /\ next \in Nat /\ next >= 1
        /\ next <= Len(stops) /\ n \in Nat /\ n >= 1
        /\ plan[1] = Row("trip_creation", 0) /\ plan[1].stop = 0 /\ plan[1].type = "trip_creation"
        /\ \A k \in 1..n : k # 1 => plan[k].stop \in 1..next - 1
    BY <1>1, <1>2, RouteTyped DEF RouteInv, Rows, Row
  <1>5. \A k \in 1..n : plan[k].stop \in 0..next - 1
    BY <1>4
  <1> HIDE DEF n
  <1>6. Rows = 1..n /\ Rows' = 1..Len(plan')
    BY DEF Rows, n
  <1>7. /\ 1 \in 1..n /\ \A k \in 1..n : k \in 1..Len(plan')
        /\ \A k \in 1..Len(plan') : k \notin 1..n => plan'[k].stop = next
    <2>1. 1 \in 1..n /\ \A k \in 1..n : k \in 1..Len(plan')
      <3>1. Len(plan') = n + Len(a)
        BY <1>2
      <3>2. QED
        BY <1>3, <1>4, <3>1
    <2>2. ASSUME NEW k \in 1..Len(plan'), k \notin 1..n PROVE plan'[k].stop = next
      <3>1. k - n \in 1..Len(a) /\ plan'[k] = a[k - n]
        BY <1>2, <2>2
      <3>2. QED
        BY <1>3, <3>1
    <2>3. QED
      BY <2>1, <2>2
  <1>8. RouteInv'
    <2>1. next' \in 1..Len(stops') + 1 /\ stops' \in Routes
      BY <1>2, <1>4
    <2>2. Len(plan') >= 1 /\ plan'[1] = Row("trip_creation", 0)
      BY <1>2, <1>3, <1>4, <1>7
    <2>3. ASSUME NEW k \in 1..Len(plan'), k # 1 PROVE plan'[k].stop \in 1..next' - 1
      <3>1. CASE k \in 1..n
        BY <1>2, <1>4, <2>3, <3>1
      <3>2. CASE k \notin 1..n
        BY <1>2, <1>4, <1>7, <3>2
      <3>3. QED
        BY <3>1, <3>2
    <2>4. QED
      BY <1>2, <1>6, <2>1, <2>2, <2>3 DEF RouteInv
  <1>9. DriveIsOpen'
    <2>1. SUFFICES ASSUME next < Len(stops)
                   PROVE  /\ Len(plan') >= 3
                          /\ plan'[Len(plan')] = Row("in_transit", next)
                          /\ plan'[Len(plan') - 1] = Row("departure", next)
      BY <1>2, <1>4 DEF DriveIsOpen
    <2>2. Len(a) \in 1..Len(a) /\ Len(a) - 1 \in 1..Len(a) /\ Len(a) >= 3
      <3>1. Len(a) >= 3 /\ Len(a) \in Nat
        BY <1>3, <2>1
      <3>2. QED
        BY <3>1
    <2>3. n + Len(a) = Len(plan') /\ n + (Len(a) - 1) = Len(plan') - 1 /\ Len(plan') >= 3
      BY <1>2, <1>3, <1>4, <2>2
    <2>4. QED
      BY <1>2, <1>3, <2>1, <2>2, <2>3
  <1>10. LegsMeet'
    <2>1. ASSUME NEW k \in 1..Len(plan'), plan'[k].type = "arrival"
          PROVE  /\ k >= 3
                 /\ plan'[k - 1] = Row("in_transit", plan'[k].stop - 1)
                 /\ plan'[k - 2] = Row("departure", plan'[k].stop - 1)
      <3>1. CASE k \in 1..n
        <4>1. plan[k].type = "arrival" /\ plan'[k] = plan[k]
          BY <1>2, <2>1, <3>1
        <4>2. /\ k >= 3
              /\ plan[k - 1] = Row("in_transit", plan[k].stop - 1)
              /\ plan[k - 2] = Row("departure", plan[k].stop - 1)
          BY <1>1, <1>6, <3>1, <4>1 DEF LegsMeet
        <4>3. k - 1 \in 1..n /\ k - 2 \in 1..n
          BY <1>4, <3>1, <4>2
        <4>4. QED
          BY <1>2, <4>1, <4>2, <4>3
      <3>2. CASE k \notin 1..n
        <4>1. k - n \in 1..Len(a) /\ plan'[k] = a[k - n]
          BY <1>2, <3>2
        <4>2. k - n = 1 /\ next # 1 /\ plan'[k].stop = next
          BY <1>3, <2>1, <4>1
        <4>3. k = n + 1
          BY <1>4, <4>2
        <4>4. n >= 3 /\ plan[n] = Row("in_transit", next - 1) /\ plan[n - 1] = Row("departure", next - 1)
          BY <1>1, <1>4, <4>2 DEF DriveIsOpen, n
        <4>5. k - 1 = n /\ k - 2 = n - 1 /\ n \in 1..n /\ n - 1 \in 1..n /\ k >= 3
          BY <1>4, <4>3, <4>4
        <4>6. QED
          BY <1>2, <4>2, <4>4, <4>5
      <3>3. QED
        BY <3>1, <3>2
    <2>2. ASSUME NEW k \in 1..Len(plan'), plan'[k].type = "in_transit"
          PROVE  \/ k < Len(plan') /\ plan'[k + 1].type = "arrival"
                 \/ k = Len(plan') /\ next' <= Len(stops')
      <3>1. CASE k \in 1..n
        <4>1. plan[k].type = "in_transit"
          BY <1>2, <2>2, <3>1
        <4>2. k # 1 /\ next # 1
          BY <1>4, <3>1, <4>1
        <4>3. (k < n /\ plan[k + 1].type = "arrival") \/ k = n
          BY <1>1, <1>6, <3>1, <4>1 DEF LegsMeet, n
        <4>4. CASE k < n /\ plan[k + 1].type = "arrival"
          <5>1. k + 1 \in 1..n /\ k < Len(plan')
            BY <1>2, <1>3, <1>4, <3>1, <4>4
          <5>2. QED
            BY <1>2, <4>4, <5>1
        <4>5. CASE k = n
          <5>1. 1 \in 1..Len(a) /\ n + 1 = k + 1 /\ k < Len(plan')
            BY <1>2, <1>3, <1>4, <4>5
          <5>2. QED
            BY <1>2, <1>3, <4>2, <5>1
        <4>6. QED
          BY <4>3, <4>4, <4>5
      <3>2. CASE k \notin 1..n
        <4>1. k - n \in 1..Len(a) /\ plan'[k] = a[k - n]
          BY <1>2, <3>2
        <4>2. k - n = Len(a) /\ next < Len(stops)
          BY <1>3, <2>2, <4>1
        <4>3. QED
          BY <1>2, <1>3, <1>4, <4>2
      <3>3. QED
        BY <3>1, <3>2
    <2>3. QED
      BY <1>6, <2>1, <2>2 DEF LegsMeet
  <1>11. StopsComplete'
    <2>1. ASSUME NEW s \in 1..next PROVE PhasesAt(s)' = Required(s)'
      <3>1. Required(s)' = Required(s)
        BY <1>2 DEF Required, IsLast
      <3>2. PhasesAt(s) = {plan[k].type : k \in {j \in 1..n : plan[j].stop = s}}
        BY <1>6 DEF PhasesAt
      <3>3. PhasesAt(s)' = {plan'[k].type : k \in {j \in 1..Len(plan') : plan'[j].stop = s}}
        BY <1>6 DEF PhasesAt
      <3>4. CASE s \in 1..next - 1
        <4>1. {j \in 1..Len(plan') : plan'[j].stop = s} = {j \in 1..n : plan[j].stop = s}
          <5>1. s # next
            BY <1>4, <3>4
          <5>2. QED
            BY <1>2, <1>7, <5>1
        <4>2. PhasesAt(s)' = PhasesAt(s)
          <5>1. \A k \in {j \in 1..n : plan[j].stop = s} : plan'[k].type = plan[k].type
            BY <1>2
          <5>2. PhasesAt(s)' = {plan'[k].type : k \in {j \in 1..n : plan[j].stop = s}}
            BY <3>3, <4>1, Zenon
          <5>3. QED
            BY <3>2, <5>1, <5>2
        <4>3. PhasesAt(s) = Required(s)
          BY <1>1, <3>4 DEF StopsComplete
        <4>4. QED
          BY <3>1, <4>2, <4>3
      <3>5. CASE s = next
        <4>1. \A j \in 1..Len(plan') : plan'[j].stop = s <=> j \notin 1..n
          <5>1. \A j \in 1..n : plan'[j].stop # s
            BY <1>2, <1>4, <1>5, <3>5
          <5>2. QED
            BY <1>7, <3>5, <5>1
        <4>2. PhasesAt(s)' = {a[k].type : k \in 1..Len(a)}
          <5>1. \A k \in 1..Len(a) : n + k \notin 1..n
            BY <1>3, <1>4
          <5>2. ASSUME NEW k \in 1..Len(a) PROVE a[k].type \in PhasesAt(s)'
            BY <1>2, <3>3, <4>1, <5>1
          <5>3. ASSUME NEW t \in PhasesAt(s)' PROVE \E k \in 1..Len(a) : a[k].type = t
            <6>1. PICK j \in 1..Len(plan') : plan'[j].stop = s /\ plan'[j].type = t
              BY <3>3, <5>3
            <6>2. j - n \in 1..Len(a) /\ plan'[j] = a[j - n]
              BY <1>2, <4>1, <6>1
            <6>3. QED
              BY <6>1, <6>2
          <5>4. QED
            BY <5>2, <5>3
        <4>3. QED
          BY <1>3, <3>1, <3>5, <4>2
      <3>6. s \in 1..next - 1 \/ s = next
        BY <1>4
      <3>7. QED
        BY <3>4, <3>5, <3>6
    <2>2. ASSUME NEW j \in 1..Len(plan'), NEW k \in 1..Len(plan')
          PROVE  /\ plan'[j].stop = plan'[k].stop => (j \in 1..n <=> k \in 1..n)
                 /\ j \notin 1..n /\ k \notin 1..n /\ j - n = k - n => j = k
                 /\ j \notin 1..n /\ k \notin 1..n /\ j - n < k - n => j < k
      <3>1. \A i \in 1..n : plan'[i].stop # next
        BY <1>2, <1>4, <1>5
      <3>2. QED
        BY <1>4, <1>7, <3>1
    <2>3. ASSUME NEW j \in 1..Len(plan'), NEW k \in 1..Len(plan'), plan'[j] = plan'[k]
          PROVE  j = k
      <3>1. CASE j \in 1..n /\ k \in 1..n
        BY <1>1, <1>2, <1>6, <2>3, <3>1 DEF StopsComplete
      <3>2. CASE j \notin 1..n /\ k \notin 1..n
        <4>1. /\ j - n \in 1..Len(a) /\ plan'[j] = a[j - n]
              /\ k - n \in 1..Len(a) /\ plan'[k] = a[k - n]
          BY <1>2, <3>2
        <4>2. j - n = k - n
          BY <1>3, <2>3, <4>1
        <4>3. QED
          BY <2>2, <3>2, <4>2
      <3>3. QED
        BY <2>2, <2>3, <3>1, <3>2
    <2>4. ASSUME NEW j \in 1..Len(plan'), NEW k \in 1..Len(plan'),
                 plan'[j].stop = plan'[k].stop,
                 plan'[j].type = "unloading", plan'[k].type = "loading",
                 stops[plan'[j].stop].drops_off
          PROVE  j < k
      <3>1. CASE j \in 1..n /\ k \in 1..n
        BY <1>1, <1>2, <1>6, <2>4, <3>1 DEF StopsComplete
      <3>2. CASE j \notin 1..n /\ k \notin 1..n
        <4>1. /\ j - n \in 1..Len(a) /\ plan'[j] = a[j - n]
              /\ k - n \in 1..Len(a) /\ plan'[k] = a[k - n]
          BY <1>2, <3>2
        <4>2. plan'[j].stop = next
          BY <1>7, <3>2
        <4>3. j - n < k - n
          BY <1>3, <2>4, <4>1, <4>2
        <4>4. QED
          BY <2>2, <3>2, <4>3
      <3>3. QED
        BY <2>2, <2>4, <3>1, <3>2
    <2>5. next' - 1 = next
      BY <1>2, <1>4
    <2>6. QED
      BY <1>2, <1>6, <2>1, <2>3, <2>4, <2>5 DEF StopsComplete
  <1>12. QED
    BY <1>8, <1>9, <1>10, <1>11 DEF PlanInv

\* The plan under construction has the shape the theorems read off at its end.
LEMMA PlanInvariant == Spec => []PlanInv
  <1>1. ASSUME PlanInv, [Next]_vars PROVE PlanInv'
    <2>1. CASE EmitStop
      BY <1>1, <2>1, PlanInvStep
    <2>2. CASE UNCHANGED vars
      BY <1>1, <2>2
         DEF vars, PlanInv, RouteInv, DriveIsOpen, LegsMeet, StopsComplete, Rows,
             PhasesAt, Required, IsLast
    <2>3. QED
      BY <1>1, <2>1, <2>2 DEF Next, Done
  <1>2. QED
    BY <1>1, PlanInvInit, PTL DEF Spec

(* build_phase_plan gives every stop of a finished route exactly the       *)
(* phases its role calls for, each once, so the (trip, stop, phase_type)   *)
(* key never collides; and where a stop both delivers and collects, what   *)
(* it delivers comes off before anything is loaded.                        *)
THEOREM StopsGetTheirPhases == Spec => []EachStopGetsItsPhases
  <1>1. ASSUME PlanInv PROVE EachStopGetsItsPhases
    <2>1. SUFFICES ASSUME Finished
                   PROVE  /\ \A s \in 1..Len(stops) : PhasesAt(s) = Required(s)
                          /\ StopsComplete
      BY DEF EachStopGetsItsPhases, StopsComplete
    <2>2. next - 1 = Len(stops)
      <3>1. Len(stops) \in Nat /\ next \in 1..Len(stops) + 1
        BY <1>1, RouteTyped DEF PlanInv, RouteInv
      <3>2. QED
        BY <2>1, <3>1 DEF Finished
    <2>3. QED
      BY <1>1, <2>2 DEF PlanInv, StopsComplete
  <1>2. QED
    BY <1>1, PlanInvariant, PTL

(* The departure _find_departure_for_leg resolves for an arrival is the    *)
(* one of the stop the truck just left, on a route of any length; and in a *)
(* finished plan no drive is without its arrival.                          *)
THEOREM ArrivalsFindTheirLegs == Spec => []EveryArrivalFindsItsOwnLeg
  <1>1. ASSUME PlanInv PROVE EveryArrivalFindsItsOwnLeg
    <2>1. LegsMeet /\ Len(plan) \in Nat /\ Len(stops) \in Nat /\ next \in Nat
      BY <1>1, RouteTyped DEF PlanInv, RouteInv
    <2>2. \A t, s : Row(t, s).type = t
      BY DEF Row
    <2>3. ASSUME NEW k \in Rows, plan[k].type = "arrival"
          PROVE  /\ plan[k - 1] = Row("in_transit", plan[k].stop - 1)
                 /\ DeparturesBefore(k) # {}
                 /\ plan[LegDeparture(k)] = Row("departure", plan[k].stop - 1)
      <3>1. /\ k >= 3
            /\ plan[k - 1] = Row("in_transit", plan[k].stop - 1)
            /\ plan[k - 2] = Row("departure", plan[k].stop - 1)
        BY <2>1, <2>3 DEF LegsMeet
      <3>2. k \in Nat /\ k - 2 \in Rows /\ k - 1 # k - 2 /\ k - 2 < k
        BY <2>1, <3>1 DEF Rows
      <3>3. k - 2 \in DeparturesBefore(k)
        BY <2>2, <3>1, <3>2 DEF DeparturesBefore
      <3>4. \A j \in DeparturesBefore(k) : j \in Nat /\ j <= k - 2
        <4>1. ASSUME NEW j \in DeparturesBefore(k) PROVE j \in Nat /\ j <= k - 2
          <5>1. j \in Rows /\ plan[j].type = "departure" /\ j < k
            BY DEF DeparturesBefore
          <5>2. j # k - 1
            BY <2>2, <3>1, <5>1
          <5>3. QED
            BY <2>1, <3>2, <5>1, <5>2 DEF Rows
        <4>2. QED
          BY <4>1
      <3>5. LegDeparture(k) = k - 2
        <4>1. \A m \in DeparturesBefore(k) : m <= k - 2
          BY <3>4
        <4>2. ASSUME NEW j \in DeparturesBefore(k), \A m \in DeparturesBefore(k) : m <= j
              PROVE  j = k - 2
          BY <3>2, <3>3, <3>4, <4>2
        <4>3. QED
          BY <3>3, <4>1, <4>2 DEF LegDeparture
      <3>6. QED
        BY <3>1, <3>3, <3>5
    <2>4. ASSUME Finished, NEW k \in Rows, plan[k].type = "in_transit"
          PROVE  k < Len(plan) /\ plan[k + 1].type = "arrival"
      BY <2>1, <2>4 DEF LegsMeet, Finished
    <2>5. QED
      BY <2>3, <2>4 DEF EveryArrivalFindsItsOwnLeg
  <1>2. QED
    BY <1>1, PlanInvariant, PTL

\* What the phase ledger takes its plan to be (PlanAssumption of TripLedger).
FitsTheLedger ==
  Finished => /\ plan \in Seq([type : PhaseType, stop : Nat])
              /\ Len(plan) >= 2
              /\ \A k \in Rows : plan[k].type = "trip_creation" <=> k = 1

(* Every plan build_phase_plan finishes is one the phase ledger accepts:   *)
(* more than its first row, and trip_creation that row and no other.  So   *)
(* what is proved of the ledger from PlanAssumption holds of every plan    *)
(* the program makes.                                                      *)
THEOREM PlansFitTheLedger == Spec => []FitsTheLedger
  <1>1. ASSUME PlanInv PROVE FitsTheLedger
    <2>1. SUFFICES ASSUME Finished
                   PROVE  /\ plan \in Seq(PlanRow) /\ Len(plan) >= 2
                          /\ \A k \in Rows : plan[k].type = "trip_creation" <=> k = 1
      BY DEF FitsTheLedger, PlanRow
    <2>2. /\ plan \in Seq(PlanRow) /\ Len(plan) \in Nat /\ Len(plan) >= 1
          /\ plan[1].type = "trip_creation"
          /\ \A k \in Rows : k # 1 => plan[k].stop \in 1..next - 1
          /\ \A s \in 1..next - 1 : PhasesAt(s) = Required(s)
      BY <1>1 DEF PlanInv, RouteInv, StopsComplete, Row
    <2>3. next - 1 >= 2 /\ 1 \in 1..next - 1
      <3>1. Len(stops) \in Nat /\ Len(stops) >= 2 /\ next \in 1..Len(stops) + 1
        BY <1>1, RouteTyped DEF PlanInv, RouteInv
      <3>2. QED
        BY <2>1, <3>1 DEF Finished
    <2>4. \A s : "trip_creation" \notin Required(s)
      BY DEF Required
    <2>5. ASSUME NEW k \in Rows, k # 1 PROVE plan[k].type # "trip_creation"
      <3>1. plan[k].type \in PhasesAt(plan[k].stop)
        BY DEF PhasesAt
      <3>2. PhasesAt(plan[k].stop) = Required(plan[k].stop)
        BY <2>2, <2>5
      <3>3. QED
        BY <2>4, <3>1, <3>2
    <2>6. Len(plan) >= 2
      <3>1. "activation" \in PhasesAt(1)
        BY <2>2, <2>3 DEF Required, PhaseType
      <3>2. PICK k \in Rows : plan[k].type = "activation"
        BY <3>1 DEF PhasesAt
      <3>3. QED
        BY <2>2, <3>2 DEF Rows
    <2>7. QED
      BY <2>2, <2>5, <2>6
  <1>2. QED
    BY <1>1, PlanInvariant, PTL
=============================================================================
