---------------------------- MODULE CustodyRecord ----------------------------
(***************************************************************************)
(* What a trip promises to the people who read it after a dispute: a list  *)
(* of drivers, each taking over from the one before, and a record that     *)
(* only grows, every entry of it made by the driver who held the trip at   *)
(* that moment or, openly, by a dispatcher.  The record ends complete or   *)
(* abandoned, once.  Nothing is said of requests, gates, keys or retries.  *)
(***************************************************************************)
EXTENDS Naturals, Sequences

CONSTANTS Drivers, Original, Dispatcher,
          Length   \* how many entries make the record complete

VARIABLES
  holders,   \* the drivers who have held the trip, the first one first
  record,    \* the entries made, in order
  fate       \* "open", "closed" (complete) or "cancelled" (abandoned)

custodyVars == <<holders, record, fate>>

Entry(by, period) == [by |-> by, period |-> period]

\* an entry made now: by the last holder, in the period that holder opened
ByHolder == Entry(holders[Len(holders)], Len(holders))
ByDispatcher == Entry(Dispatcher, 0)

CustodyInit ==
  /\ holders = <<Original>>
  /\ record = <<>>
  /\ fate = "open"

Record(entry) ==
  /\ fate = "open"
  /\ record' = Append(record, entry)
  /\ fate' = IF Len(record') = Length THEN "closed" ELSE "open"
  /\ UNCHANGED holders

HandOver(driver) ==
  /\ fate = "open"
  /\ driver # holders[Len(holders)]
  /\ holders' = Append(holders, driver)
  /\ UNCHANGED <<record, fate>>

Abandon ==
  /\ fate = "open"
  /\ fate' = "cancelled"
  /\ UNCHANGED <<holders, record>>

CustodyNext ==
  \/ Record(ByHolder)
  \/ Record(ByDispatcher)
  \/ \E driver \in Drivers : HandOver(driver)
  \/ Abandon

CustodySpec == CustodyInit /\ [][CustodyNext]_custodyVars
=============================================================================
