------------------------------ MODULE PlanShape ------------------------------
(***************************************************************************)
(* The rows of a phase plan and the rule that lays them out: the body of   *)
(* the loop of build_phase_plan (orchestration/phases/plan.py).  No state: *)
(* PhasePlan runs the loop, TripLedger takes a finished plan.              *)
(***************************************************************************)
EXTENDS Naturals, Sequences

PhaseType == {"trip_creation", "activation", "loading", "departure",
              "in_transit", "arrival", "unloading", "confirmation"}

PlanStop == [picks_up : BOOLEAN, drops_off : BOOLEAN]

(* One row of the plan.  Stops count from 1; stop 0 is the NULL stop of    *)
(* trip_creation.                                                          *)
Row(type, stop) == [type |-> type, stop |-> stop]
Only(condition, row) == IF condition THEN <<row>> ELSE <<>>
-----------------------------------------------------------------------------
(* Plausible slips of the generator, for the mutation check of the runs.   *)

NoArrivalWithoutDelivery(route, i) ==
  IF i = 1 THEN <<Row("activation", i)>>
  ELSE Only(route[i].drops_off, Row("arrival", i))
         \o Only(route[i].drops_off, Row("unloading", i))

AlwaysUnloadsLastStop(route, i) ==
  IF i < Len(route)
  THEN <<Row("departure", i), Row("in_transit", i)>>
  ELSE <<Row("unloading", i), Row("confirmation", i)>>
-----------------------------------------------------------------------------
(* What opens a stop: the first one activates; every later one inspects    *)
(* the seal before anything else, then unloads what is delivered there.    *)
Opening(route, i) ==
  IF i = 1 THEN <<Row("activation", i)>>
  ELSE <<Row("arrival", i)>> \o Only(route[i].drops_off, Row("unloading", i))

(* What leaves it: a departure and a drive, except at the last stop, which *)
(* closes the chain and has an unloading even on an empty leg.             *)
Leaving(route, i) ==
  IF i < Len(route)
  THEN <<Row("departure", i), Row("in_transit", i)>>
  ELSE Only(i # 1 /\ ~route[i].drops_off, Row("unloading", i))
         \o <<Row("confirmation", i)>>

AtStop(route, i) ==
  Opening(route, i) \o Only(route[i].picks_up, Row("loading", i))
    \o Leaving(route, i)

(* The whole plan of a route, the trip_creation row first.                 *)
PlanFor(route) ==
  LET upTo[i \in 0 .. Len(route)] ==
        IF i = 0 THEN <<Row("trip_creation", 0)>>
        ELSE upTo[i - 1] \o AtStop(route, i)
  IN upTo[Len(route)]
=============================================================================
