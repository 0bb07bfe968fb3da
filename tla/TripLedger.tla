------------------------------ MODULE TripLedger ------------------------------
(***************************************************************************)
(* One trip: its phase ledger, the position derived from it, the chain of  *)
(* drivers who have held it, and the handover requests that extend that    *)
(* chain (orchestration/phases, orchestration/substitutions,               *)
(* orchestration/trips/administration).                                    *)
(*                                                                         *)
(* Every handler below takes the trip row lock first and commits or rolls  *)
(* back as one transaction (phases/loaders.py _lock_trip,                  *)
(* substitutions/access.py lock_trip_statement), so each is one step; a    *)
(* refusal changes nothing and is not a step.  What is concurrent is       *)
(* everything outside the lock: phones that queue captures offline, resend *)
(* them, and deliver them after a handover, an override or a cancellation. *)
(* A request may therefore arrive in any state, any number of times.       *)
(***************************************************************************)
EXTENDS PlanShape, Integers, FiniteSets

CONSTANTS
  Drivers,        \* the drivers of the operator's organisation
  Original,       \* trips.driver_id: the driver the trip was created for
  NoDriver,       \* NULL in performed_by_driver_id
  NoCapture,      \* NULL in idempotency_key
  Plan,           \* the committed plan, a sequence of PlanShape rows
  Sessions,       \* the warehouse scan sessions the consignments expect
  Formats,        \* request formats dispatchers use
  FindingPhases,  \* phase types whose completion may record a finding
  MaxRequests     \* bound: handover requests made on the trip

Rows == 1 .. Len(Plan)

Stops == {Plan[i].stop : i \in Rows}

ASSUME DriversAssumption ==
  Original \in Drivers /\ NoDriver \notin Drivers

ASSUME PlanAssumption ==
  /\ Plan \in Seq([type : PhaseType, stop : Nat])
  /\ Len(Plan) >= 2
  /\ \A i \in Rows : Plan[i].type = "trip_creation" <=> i = 1

ASSUME RequestsAssumption ==
  /\ MaxRequests \in Nat
  /\ Formats \subseteq {"planned_v1", "immediate_v2"}
  /\ FindingPhases \subseteq {"loading", "departure", "arrival", "confirmation"}
  /\ Sessions \subseteq {"out", "in"} \X Stops

VARIABLES
  status,       \* phase_events.status, per row
  key,          \* phase_events.idempotency_key, per row
  performedBy,  \* phase_events.performed_by_driver_id, per row
  custodySeq,   \* phase_events.custody_sequence, per row
  tripStatus,   \* trips.status
  position,     \* trips.current_phase and current_stop: a row, or NoRow
  chain,        \* completed driver_substitutions, by sequence_number
  requests,     \* driver_substitution_requests, oldest first
  openSessions  \* external: scan sessions the warehouse has not closed

ledger == <<status, key, performedBy, custodySeq>>
vars == <<ledger, tripStatus, position, chain, requests, openSessions>>

NoRow == 0
Omitted == -1   \* a claim left out, and NULL in custody_sequence

Finished == {"completed", "exception"}   \* decided by a driver
Resolved == Finished \union {"overridden"}
Terminal == {"closed", "cancelled"}

(* A capture is one submission prepared on a phone for one row: who sends  *)
(* it and the custody period it says it was taken in.  Two captures differ *)
(* exactly when their idempotency keys do, and a resend is the same        *)
(* capture again.                                                          *)
Captures == [row : Rows \ {1}, by : Drivers,
             claim : {Omitted} \union 0 .. MaxRequests]

ASSUME CaptureAssumption == NoCapture \notin Captures

Roles == {"outgoing", "incoming"}

Link == [outgoing : Drivers, incoming : Drivers, request : 1 .. MaxRequests]

Request == [outgoing : Drivers, incoming : Drivers, format : Formats,
            state : {"pending", "completed", "cancelled"}, saved : SUBSET Roles]
-----------------------------------------------------------------------------
(* Plausible slips, for the mutation check of the runs.                    *)

DriveIgnored(i) ==
  \E j \in Rows : j < i /\ status[j] \notin Resolved /\ Plan[j].type # "in_transit"

ExceptionStaysOpen(rows) == {i \in Rows :
  /\ rows[i] \notin {"completed", "overridden"}
  /\ \A j \in Rows : j < i => rows[j] \in {"completed", "overridden"}}

NextRowOf(rows) == IF rows[Len(Plan)] \in Resolved THEN Len(Plan) + 1 ELSE
  CHOOSE i \in Rows : rows[i] \notin Resolved

AnythingNotClosed == tripStatus # "closed"

OmittedAlwaysFits(c) == c.claim \in {Len(chain), Omitted}

RetryNotRecognised(c) == FALSE

AnyKeyReplays(c) == status[c.row] \in Finished

LinkFromOriginal(r) ==
  [outgoing |-> Original, incoming |-> requests[r].incoming, request |-> r]

OutgoingOnly(format) == {"outgoing"}

ArrivalGatedToo(type) ==
  CASE type = "loading" -> "out"
    [] type \in {"arrival", "unloading", "confirmation"} -> "in"
    [] OTHER -> "none"
-----------------------------------------------------------------------------
(* The ledger-to-position rule (phases/state.py).                          *)

\* first_unresolved_earlier_phase, as a test
OpenBelow(i) == \E j \in Rows : j < i /\ status[j] \notin Resolved

\* recompute_position scans the plan upwards and stops at its first open row
FirstOpen(rows) == {i \in Rows :
  /\ rows[i] \notin Resolved
  /\ \A j \in Rows : j < i => rows[j] \in Resolved}

PositionOf(rows) == IF FirstOpen(rows) = {} THEN NoRow
                    ELSE CHOOSE i \in FirstOpen(rows) : TRUE

\* recompute_position: a plan with nothing left open closes the trip
RecomputePosition(rows, otherwise) ==
  /\ position' = PositionOf(rows)
  /\ tripStatus' = IF FirstOpen(rows) = {} THEN "closed" ELSE otherwise

Underway == tripStatus \notin Terminal
Live == tripStatus = "active"      \* LIVE_STATUSES, less the unused hold
-----------------------------------------------------------------------------
(* Custody (substitutions/access.py).                                      *)

Holder(n) == IF n = 0 THEN Original ELSE chain[n].incoming   \* custody_holders
CurrentDriver == Holder(Len(chain))
Participants == {Holder(n) : n \in 0 .. Len(chain)}

\* _find_own_completion: this driver's own submission, under this very key
OwnCompletion(c) == key[c.row] = c /\ performedBy[c.row] = c.by

\* check_custody_sequence
ClaimFits(c) ==
  \/ c.claim = Len(chain)
  \/ c.claim = Omitted /\ Len(chain) = 0

\* authorise_driver_write, the answers that let the request through
Admitted(c) == c.by = CurrentDriver /\ (ClaimFits(c) \/ OwnCompletion(c))

\* complete_phase: once custody has moved, a decided row answers only its own
MayReplay(c) ==
  status[c.row] \in Finished /\ (Len(chain) = 0 \/ OwnCompletion(c))

(* The requests answered "this step is recorded": a former driver's own    *)
(* retry (EvidenceAlreadyRecordedError) or an idempotent replay (200).     *)
Acknowledged(c) ==
  \/ c.by \in Participants \ {CurrentDriver} /\ OwnCompletion(c)
  \/ Admitted(c) /\ MayReplay(c)
-----------------------------------------------------------------------------
(* The warehouse gate (phases/blocking.py).                                *)

Gate(type) == CASE type = "loading" -> "out"
                [] type \in {"unloading", "confirmation"} -> "in"
                [] OTHER -> "none"

BlockedOnScan(i) == <<Gate(Plan[i].type), Plan[i].stop>> \in openSessions
-----------------------------------------------------------------------------
(* Handover requests (substitutions/).                                     *)

Pending == {r \in DOMAIN requests : requests[r].state = "pending"}

RequiredRoles(format) ==
  IF format = "planned_v1" THEN Roles ELSE {"incoming"}

NewRequest(from, to, format) ==
  [outgoing |-> from, incoming |-> to, format |-> format,
   state |-> "pending", saved |-> {}]

NonePending == Pending = {}        \* _refuse_if_pending and its unique index

\* cancel_pending_for_terminal_trip
WithPendingCancelled ==
  [r \in DOMAIN requests |->
     IF r \in Pending THEN [requests[r] EXCEPT !.state = "cancelled"]
     ELSE requests[r]]

LinkOf(r) == [outgoing |-> requests[r].outgoing,
              incoming |-> requests[r].incoming, request |-> r]

\* a pending request the handlers may still act on
Actionable(r) ==
  /\ r \in Pending
  /\ Live
  /\ requests[r].outgoing = CurrentDriver   \* _require_outgoing_still_holds
-----------------------------------------------------------------------------
(* The trip as create_trip leaves it: trip_creation completed inline, with *)
(* no driver and no key, and the position derived from that.               *)
Init ==
  /\ status = [i \in Rows |-> IF i = 1 THEN "completed" ELSE "pending"]
  /\ key = [i \in Rows |-> NoCapture]
  /\ performedBy = [i \in Rows |-> NoDriver]
  /\ custodySeq = [i \in Rows |-> Omitted]
  /\ tripStatus = "created"
  /\ position = PositionOf(status)
  /\ chain = <<>>
  /\ requests = <<>>
  /\ openSessions = Sessions

(* POST .../phases/{id}/complete reaching the end of its wrapper.  Every   *)
(* other answer (a refusal, or a replay that is acknowledged) leaves the   *)
(* state alone.  Activation may also be refused by the crew and schedule   *)
(* gates, which read other trips; that is the choice not to take the step. *)
Accepts(c) ==
  /\ Admitted(c)
  /\ status[c.row] = "pending"
  /\ Underway
  /\ ~OpenBelow(c.row)
  /\ ~BlockedOnScan(c.row)

Outcomes(type) ==
  IF type \in FindingPhases THEN Finished ELSE {"completed"}

CompletePhase(c, outcome) ==
  LET type == Plan[c.row].type
      decided == [status EXCEPT ![c.row] = outcome]
  IN /\ Accepts(c)
     /\ outcome \in Outcomes(type)
     /\ status' = decided
     /\ key' = [key EXCEPT ![c.row] = c]
     /\ performedBy' = [performedBy EXCEPT ![c.row] = c.by]
     /\ custodySeq' = [custodySeq EXCEPT ![c.row] = Len(chain)]
     /\ RecomputePosition(decided,
          IF type = "activation" THEN "active" ELSE tripStatus)
     /\ requests' = IF tripStatus' = "closed" THEN WithPendingCancelled
                    ELSE requests
     /\ UNCHANGED <<chain, openSessions>>

(* POST .../phases/{id}/override, by a dispatcher.  The row keeps no       *)
(* driver, no key and no custody period; a handover request stays as it is *)
(* even when this was the last open row.                                   *)
Overridable(i) == status[i] = "pending"

OverridePhase(i) ==
  LET decided == [status EXCEPT ![i] = "overridden"]
  IN /\ Underway
     /\ Overridable(i)
     /\ ~OpenBelow(i)
     /\ status' = decided
     /\ RecomputePosition(decided, tripStatus)
     /\ UNCHANGED <<key, performedBy, custodySeq, chain, requests, openSessions>>

(* POST .../cancel, and an incident that stops its trip: terminate_trip.   *)
TerminateTrip ==
  /\ Underway
  /\ tripStatus' = "cancelled"
  /\ requests' = WithPendingCancelled
  /\ UNCHANGED <<ledger, position, chain, openSessions>>

Arrange(d, format) ==
  /\ Len(requests) < MaxRequests
  /\ Live
  /\ NonePending
  /\ d # CurrentDriver
  /\ requests' = Append(requests, NewRequest(CurrentDriver, d, format))
  /\ UNCHANGED <<ledger, tripStatus, position, chain, openSessions>>

CancelRequest(r) ==
  /\ r \in Pending
  /\ requests' = [requests EXCEPT ![r].state = "cancelled"]
  /\ UNCHANGED <<ledger, tripStatus, position, chain, openSessions>>

\* a replacement keeps the outgoing driver of the request it replaces
Replace(r, d, format) ==
  /\ Len(requests) < MaxRequests
  /\ r \in Pending
  /\ Live
  /\ d # requests[r].outgoing
  /\ requests' = Append([requests EXCEPT ![r].state = "cancelled"],
                        NewRequest(requests[r].outgoing, d, format))
  /\ UNCHANGED <<ledger, tripStatus, position, chain, openSessions>>

(* One of the two drivers records a capture.  The one that makes the set   *)
(* complete also completes the handover, unless the incoming driver is     *)
(* blocked (inactive, unlicensed, busy, unverified): then the capture is   *)
(* kept and the request stays pending.                                     *)
Confirm(r, role, blocked) ==
  LET saved == requests[r].saved \union {role}
      completes == RequiredRoles(requests[r].format) \subseteq saved /\ ~blocked
  IN /\ Actionable(r)
     /\ role \in RequiredRoles(requests[r].format) \ requests[r].saved
     /\ requests' = [requests EXCEPT
          ![r].saved = saved,
          ![r].state = IF completes THEN "completed" ELSE @]
     /\ chain' = IF completes THEN Append(chain, LinkOf(r)) ELSE chain
     /\ UNCHANGED <<ledger, tripStatus, position, openSessions>>

(* A dispatcher completes the handover.  An immediate transfer needs its   *)
(* incoming driver's capture; a planned one may be attested without both.  *)
CompleteAttested(r) ==
  /\ Actionable(r)
  /\ requests[r].format = "immediate_v2" =>
       RequiredRoles("immediate_v2") \subseteq requests[r].saved
  /\ requests' = [requests EXCEPT ![r].state = "completed"]
  /\ chain' = Append(chain, LinkOf(r))
  /\ UNCHANGED <<ledger, tripStatus, position, openSessions>>

(* External: the warehouse closes a scan session; none ever reopens.       *)
CloseSession(s) ==
  /\ s \in openSessions
  /\ openSessions' = openSessions \ {s}
  /\ UNCHANGED <<ledger, tripStatus, position, chain, requests>>

DriverCompletes == \E c \in Captures, o \in Finished : CompletePhase(c, o)

HandoverStep ==
  \/ \E d \in Drivers, f \in Formats : Arrange(d, f)
  \/ \E r \in DOMAIN requests :
       \/ CancelRequest(r)
       \/ \E d \in Drivers, f \in Formats : Replace(r, d, f)
       \/ \E role \in Roles, blocked \in BOOLEAN : Confirm(r, role, blocked)
       \/ CompleteAttested(r)

Next ==
  \/ DriverCompletes
  \/ \E i \in Rows : OverridePhase(i)
  \/ TerminateTrip
  \/ HandoverStep
  \/ \E s \in openSessions : CloseSession(s)

Spec == Init /\ [][Next]_vars
-----------------------------------------------------------------------------
(* Every row, request and link holds what its columns may hold, and the    *)
(* position names a row of the plan or nothing.                            *)
TypeOK ==
  /\ status \in [Rows -> {"pending"} \union Resolved]
  /\ key \in [Rows -> Captures \union {NoCapture}]
  /\ performedBy \in [Rows -> Drivers \union {NoDriver}]
  /\ custodySeq \in [Rows -> {Omitted} \union Nat]
  /\ tripStatus \in {"created", "active"} \union Terminal
  /\ position \in Rows \union {NoRow}
  /\ chain \in Seq(Link)
  /\ requests \in Seq(Request) /\ Len(requests) <= MaxRequests
  /\ openSessions \subseteq Sessions

(* The ledger has no gap: a row is decided only after every row before it, *)
(* whoever decided it, driver or dispatcher, and in whatever order their   *)
(* requests arrived.                                                       *)
LedgerInOrder ==
  \A i, j \in Rows : j < i /\ status[i] # "pending" => status[j] # "pending"

(* The derived facts never drift from the ledger: a trip is closed exactly *)
(* when no row is left open (an anomaly counts as decided), and the cached *)
(* position is the first open row, on a cancelled trip too.                *)
PositionFollowsLedger ==
  LET open == {i \in Rows : status[i] = "pending"}
  IN /\ tripStatus = "closed" <=> open = {}
     /\ position = NoRow <=> open = {}
     /\ position # NoRow =>
          position \in open /\ \A i \in open : position <= i

(* Evidence is attributed to the driver who held the trip when it was      *)
(* recorded: a row finished by a driver names the holder of its custody    *)
(* period, was claimed for that period (or for none, before any handover), *)
(* and periods never run backwards along the plan, so a handover cannot    *)
(* relabel an earlier capture.  Every other row names nobody.              *)
AttributedAt(i) ==
  IF status[i] \in Finished
  THEN /\ custodySeq[i] \in 0 .. Len(chain)
       /\ performedBy[i] = Holder(custodySeq[i])
       /\ key[i].by = performedBy[i] /\ key[i].row = i
       /\ \/ key[i].claim = custodySeq[i]
          \/ key[i].claim = Omitted /\ custodySeq[i] = 0
       /\ \A j \in Rows : i < j /\ status[j] \in Finished =>
            custodySeq[i] <= custodySeq[j]
  ELSE /\ performedBy[i] = NoDriver
       /\ key[i] = NoCapture
       /\ custodySeq[i] = Omitted

AttributedToHolder == \A i \in Rows \ {1} : AttributedAt(i)

(* A recorded capture can always be resent: whatever happened since (a     *)
(* handover away and back, an override further on, the trip closed or      *)
(* cancelled) the driver is told it is recorded, so no phone keeps a       *)
(* capture in its queue for ever.                                          *)
RetriesAcknowledged ==
  \A i \in Rows \ {1} : key[i] # NoCapture => Acknowledged(key[i])

(* Nobody is told a step is recorded when it was not theirs: a positive    *)
(* answer goes only to the driver the row names, never for a row that a    *)
(* dispatcher overrode or that is still open.                              *)
AcknowledgedToItsAuthor ==
  \A c \in Captures : Acknowledged(c) =>
    status[c.row] \in Finished /\ performedBy[c.row] = c.by

(* Custody is one unbroken chain: each completed handover starts with the  *)
(* driver the previous one ended with, changes hands, and comes from its   *)
(* own completed request between the same two drivers.  So does the link   *)
(* being made: at most one request is pending, and it names the present    *)
(* holder as the one giving the trip up, so that the stale-request guard   *)
(* of _require_outgoing_still_holds never has to fire.                     *)
ChainUnbroken ==
  /\ \A n \in 1 .. Len(chain) :
       LET r == chain[n].request IN
       /\ chain[n].outgoing = Holder(n - 1)
       /\ chain[n].incoming # chain[n].outgoing
       /\ r \in DOMAIN requests /\ requests[r].state = "completed"
       /\ requests[r].outgoing = chain[n].outgoing
       /\ requests[r].incoming = chain[n].incoming
       /\ \A m \in 1 .. Len(chain) : chain[m].request = r => m = n
  /\ \A r \in DOMAIN requests : requests[r].state = "completed" =>
       \E n \in 1 .. Len(chain) : chain[n].request = r
  /\ \A r, q \in Pending : r = q
  /\ \A r \in Pending : requests[r].outgoing = CurrentDriver
                        /\ requests[r].incoming # CurrentDriver

(* Nobody becomes the driver of a trip by an immediate transfer without    *)
(* having accepted it: custody moves on the incoming driver's own capture, *)
(* whoever presses complete.                                               *)
IncomingAccepted ==
  \A n \in 1 .. Len(chain) :
    requests[chain[n].request].format = "immediate_v2" =>
      "incoming" \in requests[chain[n].request].saved

(* The ledger implements the custody record: decided rows are its entries, *)
(* completed handovers its changes of holder.                              *)
EntryOf(i) ==
  IF status[i] = "overridden" THEN [by |-> NoDriver, period |-> 0]
  ELSE [by |-> performedBy[i], period |-> custodySeq[i] + 1]

DecidedRows == IF position = NoRow THEN Len(Plan) ELSE position - 1

Custody == INSTANCE CustodyRecord WITH
  Dispatcher <- NoDriver,
  Length <- Len(Plan) - 1,
  holders <- [n \in 1 .. Len(chain) + 1 |-> Holder(n - 1)],
  record <- [k \in 1 .. DecidedRows - 1 |-> EntryOf(k + 1)],
  fate <- IF tripStatus \in Terminal THEN tripStatus ELSE "open"

(* Every behaviour of the handlers is one of the custody record: read      *)
(* through the mapping, each commit adds one entry by the present holder   *)
(* or the dispatcher, changes the holder, ends the trip, or is invisible.  *)
ImplementsCustodyRecord == Custody!CustodySpec
-----------------------------------------------------------------------------
(* Fairness.  The driver app's queue resends what is not yet acknowledged, *)
(* so the driver's next step is eventually taken; a warehouse closes the   *)
(* scan session of a stop once the truck has reached it, and not before.   *)
(* Nothing is assumed of dispatchers.                                      *)
TruckAt(stop) == \A i \in Rows :
  Plan[i].stop = stop /\ Plan[i].type \in {"activation", "arrival"} =>
    status[i] \in Resolved

FairSpec ==
  /\ Spec
  /\ WF_vars(DriverCompletes)
  /\ \A s \in Sessions : WF_vars(TruckAt(s[2]) /\ CloseSession(s))

(* A trip always ends on the drivers' and warehouses' work alone: no gate  *)
(* waits for something that happens after it, and no handover, blocked or  *)
(* half confirmed, leaves the trip without a driver who may go on.         *)
TripReachesAnEnd == <>(tripStatus \in Terminal)
-----------------------------------------------------------------------------
(* The claim of administration.py ("A pending driver handover cannot       *)
(* outlive its trip"), completion.py and termination.py: an ended trip has *)
(* no pending handover.  It does not hold: an override of the last open    *)
(* row closes the trip and leaves the request pending.                     *)
NoPendingOnEndedTrip == tripStatus \in Terminal => Pending = {}
=============================================================================
