------------------------------ MODULE PhasePlan ------------------------------
(***************************************************************************)
(* The committed phase plan of a trip: build_phase_plan of                 *)
(* orchestration/phases/plan.py.  A plan is generated once, when the trip  *)
(* is created, from the routing role of each stop, and every later rule    *)
(* (the order gate, the seal comparison of a leg, the scan gate, the       *)
(* position shown on every screen) trusts its shape.                       *)
(*                                                                         *)
(* The generator's loop over the stops is the state machine: one step      *)
(* emits everything that happens at one stop.                              *)
(***************************************************************************)
EXTENDS PlanShape

CONSTANT MaxStops   \* bound: the longest route explored

ASSUME MaxStopsAssumption == MaxStops \in Nat /\ MaxStops >= 2

VARIABLES
  stops,   \* the route: a sequence of stop roles
  next,    \* the stop the loop is about to emit
  plan     \* the rows emitted so far, in sequence_number order

vars == <<stops, next, plan>>

\* POST /trips and the manifest import both make at least two stops.
Routes == UNION {[1 .. n -> PlanStop] : n \in 2 .. MaxStops}

Init ==
  /\ stops \in Routes
  /\ next = 1
  /\ plan = <<Row("trip_creation", 0)>>

EmitStop ==
  /\ next <= Len(stops)
  /\ plan' = plan \o AtStop(stops, next)
  /\ next' = next + 1
  /\ UNCHANGED stops

Finished == next > Len(stops)

Done == Finished /\ UNCHANGED vars

Next == EmitStop \/ Done

Spec == Init /\ [][Next]_vars

Rows == 1 .. Len(plan)
-----------------------------------------------------------------------------
(* The departure that opened the leg ending at row k: the latest departure *)
(* below it, as _find_departure_for_leg resolves it for the seal check.    *)
DeparturesBefore(k) == {j \in Rows : plan[j].type = "departure" /\ j < k}

LegDeparture(k) ==
  CHOOSE j \in DeparturesBefore(k) : \A m \in DeparturesBefore(k) : m <= j
-----------------------------------------------------------------------------
(* What the plan is: per stop, the phases its role calls for, stated       *)
(* stop by stop and independently of the emission order.                   *)
PhasesAt(s) == {plan[k].type : k \in {j \in Rows : plan[j].stop = s}}

IsLast(s) == s = Len(stops)

Required(s) == {t \in PhaseType :
  \/ t = "activation" /\ s = 1
  \/ t = "arrival" /\ s # 1
  \/ t = "unloading" /\ s # 1 /\ (stops[s].drops_off \/ IsLast(s))
  \/ t = "loading" /\ stops[s].picks_up
  \/ t \in {"departure", "in_transit"} /\ ~IsLast(s)
  \/ t = "confirmation" /\ IsLast(s)}

(* Each stop gets exactly the phases its role requires, each once: the     *)
(* (trip, stop, phase_type) key of phase_events stays unique, and goods    *)
(* are never collected at a stop before the ones it delivers came off.     *)
EachStopGetsItsPhases ==
  Finished =>
    /\ \A s \in 1 .. Len(stops) : PhasesAt(s) = Required(s)
    /\ \A j, k \in Rows : plan[j] = plan[k] => j = k
    /\ \A j, k \in Rows :
         /\ plan[j].stop = plan[k].stop
         /\ plan[j].type = "unloading" /\ plan[k].type = "loading"
         /\ stops[plan[j].stop].drops_off
         => j < k

(* Seal continuity is well defined: every drive is followed at once by the *)
(* arrival at the next stop, and the departure that arrival is compared    *)
(* with is the one of the stop the truck just left, never another leg's.   *)
EveryArrivalFindsItsOwnLeg ==
  /\ \A k \in Rows : plan[k].type = "arrival" =>
       /\ plan[k - 1] = Row("in_transit", plan[k].stop - 1)
       /\ DeparturesBefore(k) # {}
       /\ plan[LegDeparture(k)] = Row("departure", plan[k].stop - 1)
  /\ Finished => \A k \in Rows : plan[k].type = "in_transit" =>
                   k < Len(plan) /\ plan[k + 1].type = "arrival"
=============================================================================
