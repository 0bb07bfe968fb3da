--------------------------- MODULE MCOfflineQueue ---------------------------
(* One phone shared by two drivers of the same trip: a begins it, b takes  *)
(* it over.                                                                *)
EXTENDS CheckpointQueue

CONSTANTS a, b

MCDrivers == {a, b}
MCCustody == <<a, b>>
=============================================================================
