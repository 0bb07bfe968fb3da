---------------------------- MODULE MCCrewClaims ----------------------------
(***************************************************************************)
(* CrewClaims on three trips of two drivers: trips 1 and 3 share a driver  *)
(* and follow each other on one day, trips 1 and 2 share a vehicle, and    *)
(* the plans of trips 2 and 3 overlap.                                     *)
(***************************************************************************)
EXTENDS CrewClaims, TLC

CONSTANTS w1, w2

MCBookedDriver == <<1, 2, 1>>
MCVehiclesOf == <<{1}, {1}, {2}>>
MCStart == <<1, 4, 3>>
MCEnd == <<3, 6, 5>>

MCSymmetry == Permutations({w1, w2})
=============================================================================
