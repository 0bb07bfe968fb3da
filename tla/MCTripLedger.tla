---------------------------- MODULE MCTripLedger ----------------------------
(***************************************************************************)
(* TripLedger on small trips.  The plans are computed by the generator's   *)
(* own rule, so every run starts from a plan create_trip can commit.       *)
(***************************************************************************)
EXTENDS TripLedger, TLC

CONSTANTS A, B, C

\* an empty repositioning run: two stops, no consignments, no scan sessions
MCEmptyRun == PlanFor(<<[picks_up |-> FALSE, drops_off |-> FALSE],
                        [picks_up |-> FALSE, drops_off |-> FALSE]>>)

\* one consignment from the first stop to the last
MCSingleLeg == PlanFor(<<[picks_up |-> TRUE, drops_off |-> FALSE],
                         [picks_up |-> FALSE, drops_off |-> TRUE]>>)

MCSingleLegSessions == {<<"out", 1>>, <<"in", 2>>}

MCSymmetry == Permutations({B, C})
=============================================================================
