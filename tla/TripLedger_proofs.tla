-------------------------- MODULE TripLedger_proofs --------------------------
(***************************************************************************)
(* Proofs about TripLedger, for every plan, set of drivers, set of scan    *)
(* sessions and number of handover requests.                               *)
(***************************************************************************)
EXTENDS TripLedger, SequenceTheorems, TLAPS

(* Every custody period the trip has had was opened by one of its drivers. *)
LEMMA HolderType ==
  ASSUME TypeOK, NEW n \in 0 .. Len(chain)
  PROVE  Holder(n) \in Drivers
  <1>1. CASE n = 0
    BY <1>1, DriversAssumption DEF Holder
  <1>2. CASE n # 0
    <2>1. chain \in Seq(Link) /\ n \in 1 .. Len(chain)
      BY <1>2 DEF TypeOK
    <2>2. chain[n] \in Link
      BY <2>1, ElementOfSeq
    <2> QED
      BY <1>2, <2>2 DEF Holder, Link
  <1> QED
    BY <1>1, <1>2

(* recompute_position yields a row of the plan or nothing.                 *)
LEMMA PositionType ==
  ASSUME NEW rows
  PROVE  PositionOf(rows) \in Rows \union {NoRow}
  BY DEF PositionOf, FirstOpen

(* Ending the pending request keeps the list of requests otherwise.        *)
LEMMA CancelledType ==
  ASSUME TypeOK
  PROVE  /\ WithPendingCancelled \in Seq(Request)
         /\ Len(WithPendingCancelled) = Len(requests)
         /\ DOMAIN WithPendingCancelled = DOMAIN requests
  <1>1. requests \in Seq(Request) /\ DOMAIN requests = 1 .. Len(requests)
    BY DEF TypeOK
  <1>2. \A r \in 1 .. Len(requests) : requests[r] \in Request
    BY <1>1
  <1>3. WithPendingCancelled \in [1 .. Len(requests) -> Request]
    BY <1>1, <1>2 DEF WithPendingCancelled, Request, Pending
  <1> QED
    BY <1>1, <1>3, SeqDef DEF WithPendingCancelled

(* A link or a request built from what the state holds is well formed.     *)
LEMMA LinkType ==
  ASSUME TypeOK, NEW r \in DOMAIN requests
  PROVE  LinkOf(r) \in Link /\ requests[r] \in Request
  <1>1. requests \in Seq(Request) /\ Len(requests) <= MaxRequests
    BY DEF TypeOK
  <1>2. r \in 1 .. Len(requests) /\ Len(requests) \in Nat
    BY <1>1
  <1>3. requests[r] \in Request
    BY <1>1, <1>2, ElementOfSeq
  <1>4. r \in 1 .. MaxRequests
    BY <1>1, <1>2, RequestsAssumption
  <1> QED
    BY <1>3, <1>4 DEF LinkOf, Link, Request

LEMMA NewRequestType ==
  ASSUME NEW from \in Drivers, NEW to \in Drivers, NEW f \in Formats
  PROVE  NewRequest(from, to, f) \in Request
  BY DEF NewRequest, Request, Roles

(* Changing the state of one request keeps the list well formed.           *)
LEMMA RequestEndType ==
  ASSUME TypeOK, NEW r \in DOMAIN requests,
         NEW s \in {"pending", "completed", "cancelled"}
  PROVE  /\ [requests EXCEPT ![r].state = s] \in Seq(Request)
         /\ Len([requests EXCEPT ![r].state = s]) = Len(requests)
  <1>1. requests \in Seq(Request) /\ r \in 1 .. Len(requests)
    BY DEF TypeOK
  <1>2. [requests[r] EXCEPT !.state = s] \in Request
    BY LinkType DEF Request
  <1>3. [requests EXCEPT ![r].state = s]
          = [requests EXCEPT ![r] = [requests[r] EXCEPT !.state = s]]
    OBVIOUS
  <1> QED
    BY <1>1, <1>2, <1>3, ExceptSeq
-----------------------------------------------------------------------------
LEMMA InitType == Init => TypeOK
  <1> SUFFICES ASSUME Init PROVE TypeOK
    OBVIOUS
  <1>1. Len(Plan) \in Nat /\ 1 \in Rows
    BY PlanAssumption DEF Rows
  <1>2. position \in Rows \union {NoRow}
    BY PositionType DEF Init
  <1>3. chain \in Seq(Link) /\ requests \in Seq(Request) /\ Len(requests) = 0
    BY EmptySeq DEF Init
  <1>4. status \in [Rows -> {"pending"} \union Resolved]
    BY DEF Init, Resolved, Finished
  <1>5. /\ key \in [Rows -> Captures \union {NoCapture}]
        /\ performedBy \in [Rows -> Drivers \union {NoDriver}]
        /\ custodySeq \in [Rows -> {Omitted} \union Nat]
    BY DEF Init
  <1>6. tripStatus \in {"created", "active"} \union Terminal
        /\ openSessions \subseteq Sessions
    BY DEF Init
  <1> QED
    BY <1>2, <1>3, <1>4, <1>5, <1>6, RequestsAssumption DEF TypeOK

LEMMA CompletePhaseType ==
  ASSUME TypeOK, NEW c \in Captures, NEW o \in Finished, CompletePhase(c, o)
  PROVE  TypeOK'
  <1> DEFINE decided == [status EXCEPT ![c.row] = o]
  <1>1. Len(chain) \in Nat
    BY DEF TypeOK
  <1>2. c.row \in Rows /\ c.by \in Drivers
    BY DEF Captures
  <1>3. status' = decided /\ status' \in [Rows -> {"pending"} \union Resolved]
    BY <1>2 DEF CompletePhase, TypeOK, Resolved
  <1>4. /\ key' \in [Rows -> Captures \union {NoCapture}]
        /\ performedBy' \in [Rows -> Drivers \union {NoDriver}]
        /\ custodySeq' \in [Rows -> {Omitted} \union Nat]
    BY <1>1, <1>2 DEF CompletePhase, TypeOK
  <1>5. position' \in Rows \union {NoRow}
    BY PositionType DEF CompletePhase, RecomputePosition
  <1>6. tripStatus' \in {"created", "active"} \union Terminal
    BY DEF CompletePhase, RecomputePosition, TypeOK, Terminal
  <1>7. requests' \in Seq(Request) /\ Len(requests') <= MaxRequests
    BY CancelledType DEF CompletePhase, TypeOK
  <1>8. chain' = chain /\ openSessions' = openSessions
    BY DEF CompletePhase
  <1> QED
    BY <1>3, <1>4, <1>5, <1>6, <1>7, <1>8 DEF TypeOK

LEMMA OverridePhaseType ==
  ASSUME TypeOK, NEW i \in Rows, OverridePhase(i)
  PROVE  TypeOK'
  <1>1. status' \in [Rows -> {"pending"} \union Resolved]
    BY DEF OverridePhase, TypeOK, Resolved
  <1>2. position' \in Rows \union {NoRow}
    BY PositionType DEF OverridePhase, RecomputePosition
  <1>3. tripStatus' \in {"created", "active"} \union Terminal
    BY DEF OverridePhase, RecomputePosition, TypeOK, Terminal
  <1> QED
    BY <1>1, <1>2, <1>3 DEF OverridePhase, TypeOK

LEMMA ArrangeType ==
  ASSUME TypeOK, NEW d \in Drivers, NEW f \in Formats, Arrange(d, f)
  PROVE  TypeOK'
  <1>1. Len(chain) \in 0 .. Len(chain) /\ Len(requests) \in Nat
    BY DEF TypeOK
  <1>2. NewRequest(CurrentDriver, d, f) \in Request
    BY <1>1, HolderType, NewRequestType DEF CurrentDriver
  <1>3. requests' \in Seq(Request) /\ Len(requests') <= MaxRequests
    BY <1>1, <1>2, AppendProperties, RequestsAssumption DEF Arrange, TypeOK
  <1> QED
    BY <1>3 DEF Arrange, TypeOK, ledger

LEMMA ReplaceType ==
  ASSUME TypeOK, NEW r \in DOMAIN requests, NEW d \in Drivers,
         NEW f \in Formats, Replace(r, d, f)
  PROVE  TypeOK'
  <1> DEFINE ended == [requests EXCEPT ![r].state = "cancelled"]
             new == NewRequest(requests[r].outgoing, d, f)
  <1>1. ended \in Seq(Request) /\ Len(ended) = Len(requests)
    BY RequestEndType
  <1>2. requests[r].outgoing \in Drivers
    BY LinkType DEF Request
  <1>3. new \in Request
    BY <1>2, NewRequestType
  <1>4. requests' = Append(ended, new) /\ Len(requests) < MaxRequests
    BY DEF Replace
  <1>5. Len(requests) \in Nat
    BY DEF TypeOK
  <1> HIDE DEF ended, new
  <1>6. requests' \in Seq(Request) /\ Len(requests') <= MaxRequests
    BY <1>1, <1>3, <1>4, <1>5, AppendProperties, RequestsAssumption
  <1> QED
    BY <1>6 DEF Replace, TypeOK, ledger

LEMMA ConfirmType ==
  ASSUME TypeOK, NEW r \in DOMAIN requests, NEW role \in Roles,
         NEW blocked \in BOOLEAN, Confirm(r, role, blocked)
  PROVE  TypeOK'
  <1> DEFINE saved == requests[r].saved \union {role}
             completes == RequiredRoles(requests[r].format) \subseteq saved
                            /\ ~blocked
             after == [requests[r] EXCEPT !.saved = saved,
                        !.state = IF completes THEN "completed" ELSE @]
  <1>1. requests \in Seq(Request) /\ r \in 1 .. Len(requests)
    BY DEF TypeOK
  <1>2. requests[r] \in Request
    BY LinkType
  <1>3. after \in Request
    BY <1>2 DEF Request
  <1>4. requests' = [requests EXCEPT ![r] = after]
    BY DEF Confirm
  <1>5. chain' = IF completes THEN Append(chain, LinkOf(r)) ELSE chain
    BY DEF Confirm
  <1> HIDE DEF after, completes
  <1>6. requests' \in Seq(Request) /\ Len(requests') = Len(requests)
    BY <1>1, <1>3, <1>4, ExceptSeq
  <1>7. chain' \in Seq(Link)
    BY <1>5, LinkType, AppendProperties DEF TypeOK
  <1> QED
    BY <1>6, <1>7 DEF Confirm, TypeOK, ledger

LEMMA CompleteAttestedType ==
  ASSUME TypeOK, NEW r \in DOMAIN requests, CompleteAttested(r)
  PROVE  TypeOK'
  <1>1. chain' \in Seq(Link)
    BY LinkType, AppendProperties DEF CompleteAttested, TypeOK
  <1>2. requests' \in Seq(Request) /\ Len(requests') = Len(requests)
    BY RequestEndType DEF CompleteAttested
  <1> QED
    BY <1>1, <1>2 DEF CompleteAttested, TypeOK, ledger

LEMMA NextType == TypeOK /\ [Next]_vars => TypeOK'
  <1> SUFFICES ASSUME TypeOK, [Next]_vars PROVE TypeOK'
    OBVIOUS
  <1>1. CASE DriverCompletes
    BY <1>1, CompletePhaseType DEF DriverCompletes
  <1>2. CASE \E i \in Rows : OverridePhase(i)
    BY <1>2, OverridePhaseType
  <1>3. CASE TerminateTrip
    BY <1>3, CancelledType DEF TerminateTrip, TypeOK, ledger, Terminal
  <1>4. CASE HandoverStep
    <2>1. ASSUME NEW d \in Drivers, NEW f \in Formats, Arrange(d, f)
          PROVE  TypeOK'
      BY <2>1, ArrangeType
    <2>2. ASSUME NEW r \in DOMAIN requests, CancelRequest(r)
          PROVE  TypeOK'
      BY <2>2, RequestEndType DEF CancelRequest, TypeOK, ledger
    <2>3. ASSUME NEW r \in DOMAIN requests, NEW d \in Drivers,
                 NEW f \in Formats, Replace(r, d, f)
          PROVE  TypeOK'
      BY <2>3, ReplaceType
    <2>4. ASSUME NEW r \in DOMAIN requests, NEW role \in Roles,
                 NEW blocked \in BOOLEAN, Confirm(r, role, blocked)
          PROVE  TypeOK'
      BY <2>4, ConfirmType
    <2>5. ASSUME NEW r \in DOMAIN requests, CompleteAttested(r)
          PROVE  TypeOK'
      BY <2>5, CompleteAttestedType
    <2> QED
      BY <1>4, <2>1, <2>2, <2>3, <2>4, <2>5 DEF HandoverStep
  <1>5. CASE \E s \in openSessions : CloseSession(s)
    BY <1>5 DEF CloseSession, TypeOK, ledger
  <1>6. CASE UNCHANGED vars
    BY <1>6 DEF vars, ledger, TypeOK
  <1> QED
    BY <1>1, <1>2, <1>3, <1>4, <1>5, <1>6 DEF Next

(* Every reachable state of a trip is well typed: rows, requests and links *)
(* hold what their columns may hold and the position names a row or none.  *)
THEOREM TypeCorrect == Spec => []TypeOK
  <1> QED
    BY InitType, NextType, PTL DEF Spec
-----------------------------------------------------------------------------
(* The shape every reachable ledger has: the decided rows are a prefix of  *)
(* the plan, and the row after it is the cached position.  LedgerInOrder   *)
(* alone is not inductive together with the position: that the first open  *)
(* row exists and is the only candidate is what a step preserves.          *)
DecidedUpTo(rows, p) == \A i \in Rows : rows[i] \in Resolved <=> i < p

Frontier ==
  \E p \in 2 .. Len(Plan) + 1 :
    /\ DecidedUpTo(status, p)
    /\ position = IF p \in Rows THEN p ELSE NoRow
    /\ tripStatus = "closed" <=> p \notin Rows

(* Scanning a decided prefix stops at the row after it.                    *)
LEMMA FirstOpenOfPrefix ==
  ASSUME NEW rows, NEW p \in 2 .. Len(Plan) + 1, DecidedUpTo(rows, p)
  PROVE  /\ FirstOpen(rows) = IF p \in Rows THEN {p} ELSE {}
         /\ PositionOf(rows) = IF p \in Rows THEN p ELSE NoRow
  <1>1. Len(Plan) \in Nat /\ Rows = 1 .. Len(Plan)
    BY PlanAssumption DEF Rows
  <1>2. FirstOpen(rows) = IF p \in Rows THEN {p} ELSE {}
    <2>1. CASE p \in Rows
      <3>1. \A i \in Rows : i \in FirstOpen(rows) <=> i = p
        BY <1>1, <2>1 DEF FirstOpen, DecidedUpTo
      <3> QED
        BY <2>1, <3>1 DEF FirstOpen
    <2>2. CASE p \notin Rows
      BY <1>1, <2>2 DEF FirstOpen, DecidedUpTo
    <2> QED
      BY <2>1, <2>2
  <1>3. (CHOOSE i \in {p} : TRUE) = p
    OBVIOUS
  <1> QED
    BY <1>2, <1>3 DEF PositionOf

(* Deciding a row that has no open row below it can only decide the row    *)
(* the position names, and moves the prefix up by one.                     *)
LEMMA FrontierMoves ==
  ASSUME TypeOK, NEW i \in Rows, NEW s \in Resolved,
         status[i] = "pending", ~OpenBelow(i),
         NEW p \in 2 .. Len(Plan) + 1, DecidedUpTo(status, p)
  PROVE  p = i /\ DecidedUpTo([status EXCEPT ![i] = s], i + 1)
  <1>1. Len(Plan) \in Nat /\ Rows = 1 .. Len(Plan)
    BY PlanAssumption DEF Rows
  <1>2. "pending" \notin Resolved
    BY DEF Resolved, Finished
  <1>3. p = i
    <2>1. ~(i < p)
      BY <1>2 DEF DecidedUpTo
    <2>2. ~(p < i)
      <3>1. ASSUME p < i PROVE FALSE
        <4>1. p \in Rows /\ status[p] \notin Resolved
          BY <1>1, <3>1 DEF DecidedUpTo
        <4> QED
          BY <3>1, <4>1 DEF OpenBelow
      <3> QED
        BY <3>1
    <2> QED
      BY <1>1, <2>1, <2>2
  <1>4. \A j \in Rows : [status EXCEPT ![i] = s][j]
                          = IF j = i THEN s ELSE status[j]
    BY DEF TypeOK
  <1> QED
    BY <1>1, <1>3, <1>4 DEF DecidedUpTo

(* Both ways of deciding a row decide the row of the position and move the *)
(* position to the next one, or off the plan.                              *)
LEMMA RowDecided ==
  ASSUME TypeOK, Frontier, NEW i \in Rows, NEW s \in Resolved,
         status[i] = "pending", ~OpenBelow(i), NEW otherwise,
         otherwise # "closed",
         status' = [status EXCEPT ![i] = s],
         RecomputePosition([status EXCEPT ![i] = s], otherwise)
  PROVE  /\ i \in 2 .. Len(Plan)
         /\ DecidedUpTo(status, i) /\ position = i
         /\ DecidedUpTo(status', i + 1)
         /\ position' = IF i + 1 \in Rows THEN i + 1 ELSE NoRow
         /\ tripStatus' = IF i + 1 \in Rows THEN otherwise ELSE "closed"
  <1>1. PICK p \in 2 .. Len(Plan) + 1 :
          /\ DecidedUpTo(status, p)
          /\ position = IF p \in Rows THEN p ELSE NoRow
    BY DEF Frontier
  <1>2. p = i /\ DecidedUpTo(status', i + 1)
    BY <1>1, FrontierMoves
  <1>3. i \in 2 .. Len(Plan) /\ i + 1 \in 2 .. Len(Plan) + 1
    BY <1>2, PlanAssumption DEF Rows
  <1>4. /\ FirstOpen(status') = IF i + 1 \in Rows THEN {i + 1} ELSE {}
        /\ PositionOf(status') = IF i + 1 \in Rows THEN i + 1 ELSE NoRow
    BY <1>2, <1>3, FirstOpenOfPrefix
  <1>5. /\ position' = IF i + 1 \in Rows THEN i + 1 ELSE NoRow
        /\ tripStatus' = IF i + 1 \in Rows THEN otherwise ELSE "closed"
    BY <1>4 DEF RecomputePosition
  <1> QED
    BY <1>1, <1>2, <1>3, <1>5

LEMMA FrontierStep ==
  ASSUME TypeOK, Frontier, NEW i \in Rows, NEW s \in Resolved,
         status[i] = "pending", ~OpenBelow(i), NEW otherwise,
         otherwise # "closed",
         status' = [status EXCEPT ![i] = s],
         RecomputePosition([status EXCEPT ![i] = s], otherwise)
  PROVE  Frontier'
  <1>1. i + 1 \in 2 .. Len(Plan) + 1
    BY PlanAssumption DEF Rows
  <1>2. /\ DecidedUpTo(status', i + 1)
        /\ position' = IF i + 1 \in Rows THEN i + 1 ELSE NoRow
        /\ tripStatus' = "closed" <=> i + 1 \notin Rows
    BY RowDecided
  <1> QED
    BY <1>1, <1>2 DEF Frontier, DecidedUpTo

LEMMA InitFrontier == Init => Frontier
  <1> SUFFICES ASSUME Init PROVE Frontier
    OBVIOUS
  <1>1. Len(Plan) \in Nat /\ 2 \in 2 .. Len(Plan) + 1 /\ 2 \in Rows
    BY PlanAssumption DEF Rows
  <1>2. DecidedUpTo(status, 2)
    BY <1>1 DEF Init, DecidedUpTo, Resolved, Finished, Rows
  <1>3. position = 2 /\ tripStatus = "created"
    BY <1>1, <1>2, FirstOpenOfPrefix DEF Init
  <1> QED
    BY <1>1, <1>2, <1>3 DEF Frontier

LEMMA NextFrontier == TypeOK /\ Frontier /\ [Next]_vars => Frontier'
  <1> SUFFICES ASSUME TypeOK, Frontier, [Next]_vars PROVE Frontier'
    OBVIOUS
  <1>1. ASSUME NEW c \in Captures, NEW o \in Finished, CompletePhase(c, o)
        PROVE  Frontier'
    <2> DEFINE otherwise == IF Plan[c.row].type = "activation"
                            THEN "active" ELSE tripStatus
    <2>1. c.row \in Rows /\ o \in Resolved
      BY DEF Captures, Resolved
    <2>2. /\ status[c.row] = "pending" /\ ~OpenBelow(c.row) /\ Underway
          /\ status' = [status EXCEPT ![c.row] = o]
          /\ RecomputePosition([status EXCEPT ![c.row] = o], otherwise)
      BY <1>1 DEF CompletePhase, Accepts
    <2>3. otherwise # "closed"
      BY <2>2 DEF Underway, Terminal
    <2> HIDE DEF otherwise
    <2> QED
      BY <2>1, <2>2, <2>3, FrontierStep
  <1>2. ASSUME NEW i \in Rows, OverridePhase(i)
        PROVE  Frontier'
    <2>1. /\ status[i] = "pending" /\ ~OpenBelow(i) /\ Underway
          /\ status' = [status EXCEPT ![i] = "overridden"]
          /\ RecomputePosition([status EXCEPT ![i] = "overridden"], tripStatus)
      BY <1>2 DEF OverridePhase, Overridable
    <2>2. tripStatus # "closed" /\ "overridden" \in Resolved
      BY <2>1 DEF Underway, Terminal, Resolved
    <2> QED
      BY <2>1, <2>2, FrontierStep
  <1>3. CASE TerminateTrip
    BY <1>3 DEF TerminateTrip, Underway, Terminal, Frontier, DecidedUpTo, ledger
  <1>4. CASE UNCHANGED <<status, position, tripStatus>>
    BY <1>4 DEF Frontier, DecidedUpTo
  <1>5. HandoverStep => UNCHANGED <<status, position, tripStatus>>
    BY DEF HandoverStep, Arrange, CancelRequest, Replace, Confirm,
           CompleteAttested, ledger
  <1>6. (\E s \in openSessions : CloseSession(s)) \/ UNCHANGED vars
          => UNCHANGED <<status, position, tripStatus>>
    BY DEF CloseSession, vars, ledger
  <1> QED
    BY <1>1, <1>2, <1>3, <1>4, <1>5, <1>6 DEF Next, DriverCompletes

LEMMA FrontierImplies ==
  ASSUME TypeOK, Frontier
  PROVE  LedgerInOrder /\ PositionFollowsLedger
  <1>1. Len(Plan) \in Nat /\ Rows = 1 .. Len(Plan)
    BY PlanAssumption DEF Rows
  <1>2. PICK p \in 2 .. Len(Plan) + 1 :
          /\ DecidedUpTo(status, p)
          /\ position = IF p \in Rows THEN p ELSE NoRow
          /\ tripStatus = "closed" <=> p \notin Rows
    BY DEF Frontier
  <1>3. \A i \in Rows : status[i] = "pending" <=> ~(i < p)
    BY <1>2 DEF TypeOK, DecidedUpTo, Resolved, Finished
  <1>4. LedgerInOrder
    BY <1>1, <1>3 DEF LedgerInOrder
  <1>5. PositionFollowsLedger
    BY <1>1, <1>2, <1>3 DEF PositionFollowsLedger, NoRow
  <1> QED
    BY <1>4, <1>5

LEMMA LedgerInvariant == Spec => [](TypeOK /\ Frontier)
  <1>1. Init => TypeOK /\ Frontier
    BY InitType, InitFrontier
  <1>2. TypeOK /\ Frontier /\ [Next]_vars => (TypeOK /\ Frontier)'
    BY NextType, NextFrontier
  <1> QED
    BY <1>1, <1>2, PTL DEF Spec

(* No row of any trip, on any plan, is decided before the rows below it.   *)
THEOREM LedgerIsInOrder == Spec => []LedgerInOrder
  <1> QED
    BY LedgerInvariant, FrontierImplies, PTL

(* The position and the closed status never drift from the ledger.         *)
THEOREM PositionIsDerived == Spec => []PositionFollowsLedger
  <1> QED
    BY LedgerInvariant, FrontierImplies, PTL
-----------------------------------------------------------------------------
(* A handover adds a period and leaves the holder of every earlier one.    *)
LEMMA HoldersKept ==
  ASSUME TypeOK, NEW link \in Link,
         chain' = chain \/ chain' = Append(chain, link)
  PROVE  /\ Len(chain) <= Len(chain')
         /\ \A n \in 0 .. Len(chain) : Holder(n)' = Holder(n)
  <1>1. chain \in Seq(Link) /\ Len(chain) \in Nat
    BY DEF TypeOK
  <1>2. CASE chain' = chain
    BY <1>1, <1>2 DEF Holder
  <1>3. CASE chain' = Append(chain, link)
    <2>1. /\ Len(chain') = Len(chain) + 1
          /\ \A n \in 1 .. Len(chain) : chain'[n] = chain[n]
      BY <1>1, <1>3, AppendProperties
    <2> QED
      BY <1>1, <2>1 DEF Holder
  <1> QED
    BY <1>2, <1>3

(* Steps that do not touch the ledger keep its attribution.                *)
LEMMA AttributionKept ==
  ASSUME TypeOK, AttributedToHolder, UNCHANGED ledger,
         Len(chain) <= Len(chain'), Len(chain') \in Nat,
         \A n \in 0 .. Len(chain) : Holder(n)' = Holder(n)
  PROVE  AttributedToHolder'
  <1> USE DEF ledger
  <1>1. Len(chain) \in Nat
    BY DEF TypeOK
  <1>2. SUFFICES ASSUME NEW i \in Rows \ {1}, AttributedAt(i)
                 PROVE  AttributedAt(i)'
    BY DEF AttributedToHolder
  <1>3. CASE status[i] \in Finished
    <2>1. custodySeq[i] \in 0 .. Len(chain) /\ custodySeq'[i] = custodySeq[i]
      BY <1>2, <1>3 DEF AttributedAt
    <2>2. \A n \in 0 .. Len(chain) :
            (IF n = 0 THEN Original ELSE chain'[n].incoming)
              = (IF n = 0 THEN Original ELSE chain[n].incoming)
      BY DEF Holder
    <2>3. performedBy'[i] = (IF custodySeq'[i] = 0 THEN Original
                             ELSE chain'[custodySeq'[i]].incoming)
      BY <1>2, <1>3, <2>1, <2>2 DEF AttributedAt, Holder
    <2>4. custodySeq'[i] \in 0 .. Len(chain')
      BY <1>1, <2>1
    <2> QED
      BY <1>2, <1>3, <2>3, <2>4 DEF AttributedAt, Holder
  <1>4. CASE status[i] \notin Finished
    BY <1>2, <1>4 DEF AttributedAt
  <1> QED
    BY <1>3, <1>4

(* An accepted completion comes from the present holder, for the present   *)
(* period: the retry exemption of the claim check cannot apply to an open  *)
(* row, because an open row carries no key.                                *)
LEMMA AcceptedIsCurrent ==
  ASSUME TypeOK, AttributedToHolder, NEW c \in Captures, Accepts(c)
  PROVE  /\ c.by = Holder(Len(chain))
         /\ ClaimFits(c)
  <1>1. c.row \in Rows \ {1} /\ status[c.row] \notin Finished
    BY DEF Captures, Accepts, Finished
  <1>2. key[c.row] = NoCapture
    BY <1>1 DEF AttributedToHolder, AttributedAt
  <1>3. ~OwnCompletion(c)
    BY <1>2, CaptureAssumption DEF OwnCompletion
  <1>4. Admitted(c)
    BY DEF Accepts
  <1>5. c.by = CurrentDriver /\ ClaimFits(c)
    BY <1>3, <1>4 DEF Admitted
  <1> QED
    BY <1>5 DEF CurrentDriver

LEMMA CompletePhaseAttribution ==
  ASSUME TypeOK, Frontier, AttributedToHolder,
         NEW c \in Captures, NEW o \in Finished, CompletePhase(c, o)
  PROVE  AttributedToHolder'
  <1> DEFINE r == c.row
  <1>1. r \in Rows \ {1} /\ Len(chain) \in Nat /\ Rows \subseteq Nat
    BY DEF Captures, TypeOK, Rows
  <1>2. Accepts(c) /\ chain' = chain
    BY DEF CompletePhase
  <1>3. \A i \in Rows :
          /\ status'[i] = IF i = r THEN o ELSE status[i]
          /\ key'[i] = IF i = r THEN c ELSE key[i]
          /\ performedBy'[i] = IF i = r THEN c.by ELSE performedBy[i]
          /\ custodySeq'[i] = IF i = r THEN Len(chain) ELSE custodySeq[i]
    BY DEF CompletePhase, TypeOK
  <1>5. \A j \in Rows : r < j => status[j] \notin Finished
    <2>1. LedgerInOrder /\ status[r] = "pending"
      BY <1>2, FrontierImplies DEF Accepts
    <2> QED
      BY <1>1, <2>1 DEF LedgerInOrder, Finished
  <1>6. /\ c.by = Holder(Len(chain))
        /\ ClaimFits(c)
    BY <1>2, AcceptedIsCurrent
  <1>7. SUFFICES ASSUME NEW i \in Rows \ {1} PROVE AttributedAt(i)'
    BY DEF AttributedToHolder
  <1>8. CASE i = r
    <2>1. \A j \in Rows : i < j => status'[j] \notin Finished
      BY <1>1, <1>3, <1>5, <1>8
    <2>2. /\ custodySeq'[i] = Len(chain) /\ performedBy'[i] = c.by
          /\ key'[i] = c /\ status'[i] \in Finished
      BY <1>3, <1>8
    <2> QED
      BY <1>1, <1>2, <1>6, <1>8, <2>1, <2>2 DEF AttributedAt, Holder, ClaimFits
  <1>9. CASE i # r
    <2>1. /\ status'[i] = status[i] /\ key'[i] = key[i]
          /\ performedBy'[i] = performedBy[i] /\ custodySeq'[i] = custodySeq[i]
      BY <1>3, <1>9
    <2>2. AttributedAt(i)
      BY DEF AttributedToHolder
    <2>3. CASE status[i] \in Finished
      <3>1. custodySeq[i] \in 0 .. Len(chain)
        BY <2>2, <2>3 DEF AttributedAt
      <3>2. ASSUME NEW j \in Rows, i < j, status'[j] \in Finished
            PROVE  custodySeq[i] <= custodySeq'[j]
        <4>1. CASE j = r
          BY <1>1, <1>3, <3>1, <4>1
        <4>2. CASE j # r
          BY <1>3, <2>2, <2>3, <3>2, <4>2 DEF AttributedAt
        <4> QED
          BY <4>1, <4>2
      <3> QED
        BY <1>2, <2>1, <2>2, <2>3, <3>2 DEF AttributedAt, Holder
    <2>4. CASE status[i] \notin Finished
      BY <2>1, <2>2, <2>4 DEF AttributedAt
    <2> QED
      BY <2>3, <2>4
  <1> QED
    BY <1>8, <1>9

LEMMA OverridePhaseAttribution ==
  ASSUME TypeOK, AttributedToHolder, NEW r \in Rows, OverridePhase(r)
  PROVE  AttributedToHolder'
  <1>1. /\ UNCHANGED <<key, performedBy, custodySeq, chain>>
        /\ status[r] = "pending"
        /\ \A i \in Rows : status'[i] = IF i = r THEN "overridden" ELSE status[i]
    BY DEF OverridePhase, Overridable, TypeOK
  <1>2. \A i \in Rows : status'[i] \in Finished <=> status[i] \in Finished
    BY <1>1 DEF Finished
  <1>3. SUFFICES ASSUME NEW i \in Rows \ {1}, AttributedAt(i)
                 PROVE  AttributedAt(i)'
    BY DEF AttributedToHolder
  <1>4. CASE status[i] \in Finished
    BY <1>1, <1>2, <1>3, <1>4 DEF AttributedAt, Holder
  <1>5. CASE status[i] \notin Finished
    BY <1>1, <1>2, <1>3, <1>5 DEF AttributedAt
  <1> QED
    BY <1>4, <1>5

(* A completed handover comes from an actionable request: it appends one   *)
(* link, or nothing when a confirmation does not complete it.              *)
LEMMA HandoverGrowsChain ==
  ASSUME TypeOK, HandoverStep
  PROVE  /\ UNCHANGED <<ledger, tripStatus, position, openSessions>>
         /\ \/ chain' = chain
            \/ \E link \in Link : chain' = Append(chain, link)
  <1>1. UNCHANGED <<ledger, tripStatus, position, openSessions>>
    BY DEF HandoverStep, Arrange, CancelRequest, Replace, Confirm,
           CompleteAttested
  <1>2. CASE UNCHANGED chain
    BY <1>1, <1>2
  <1>3. ASSUME NEW r \in DOMAIN requests,
               chain' = chain \/ chain' = Append(chain, LinkOf(r))
        PROVE  \/ chain' = chain
               \/ \E link \in Link : chain' = Append(chain, link)
    BY <1>3, LinkType
  <1>4. \/ UNCHANGED chain
        \/ \E r \in DOMAIN requests :
             chain' = chain \/ chain' = Append(chain, LinkOf(r))
    BY DEF HandoverStep, Arrange, CancelRequest, Replace, Confirm,
           CompleteAttested
  <1> QED
    BY <1>1, <1>2, <1>3, <1>4

LEMMA NextAttribution ==
  TypeOK /\ Frontier /\ AttributedToHolder /\ [Next]_vars => AttributedToHolder'
  <1> SUFFICES ASSUME TypeOK, Frontier, AttributedToHolder, [Next]_vars
               PROVE  AttributedToHolder'
    OBVIOUS
  <1>1. CASE DriverCompletes
    BY <1>1, CompletePhaseAttribution DEF DriverCompletes
  <1>2. CASE \E i \in Rows : OverridePhase(i)
    BY <1>2, OverridePhaseAttribution
  <1>3. Len(chain') \in Nat /\ Len(chain) \in Nat
    BY NextType DEF TypeOK
  <1>4. CASE UNCHANGED ledger /\ UNCHANGED chain
    <2>1. \A n \in 0 .. Len(chain) : Holder(n)' = Holder(n)
      BY <1>4 DEF Holder
    <2> QED
      BY <1>3, <1>4, <2>1, AttributionKept
  <1>5. CASE HandoverStep
    <2>1. UNCHANGED ledger
      BY <1>5, HandoverGrowsChain
    <2>2. CASE \E link \in Link : chain' = Append(chain, link)
      <3>1. PICK link \in Link : chain' = Append(chain, link)
        BY <2>2
      <3>2. /\ Len(chain) <= Len(chain')
            /\ \A n \in 0 .. Len(chain) : Holder(n)' = Holder(n)
        BY <3>1, HoldersKept
      <3> QED
        BY <1>3, <2>1, <3>2, AttributionKept
    <2> QED
      BY <1>4, <1>5, <2>1, <2>2, HandoverGrowsChain
  <1>6. TerminateTrip \/ (\E s \in openSessions : CloseSession(s))
          \/ UNCHANGED vars
        => UNCHANGED ledger /\ UNCHANGED chain
    BY DEF TerminateTrip, CloseSession, vars
  <1> QED
    BY <1>1, <1>2, <1>4, <1>5, <1>6 DEF Next

LEMMA InitAttribution == Init => AttributedToHolder
  <1> SUFFICES ASSUME Init, NEW i \in Rows \ {1} PROVE AttributedAt(i)
    BY DEF AttributedToHolder
  <1>1. /\ status[i] = "pending" /\ performedBy[i] = NoDriver
        /\ key[i] = NoCapture /\ custodySeq[i] = Omitted
    BY DEF Init
  <1> QED
    BY <1>1 DEF AttributedAt, Finished

LEMMA AttributionInvariant ==
  Spec => [](TypeOK /\ Frontier /\ AttributedToHolder)
  <1>1. Init => TypeOK /\ Frontier /\ AttributedToHolder
    BY InitType, InitFrontier, InitAttribution
  <1>2. TypeOK /\ Frontier /\ AttributedToHolder /\ [Next]_vars
          => (TypeOK /\ Frontier /\ AttributedToHolder)'
    BY NextType, NextFrontier, NextAttribution
  <1> QED
    BY <1>1, <1>2, PTL DEF Spec

(* However captures are queued, resent or delivered late, every row names  *)
(* the driver who held the trip in the period the row carries.             *)
THEOREM EvidenceIsAttributed == Spec => []AttributedToHolder
  <1> QED
    BY AttributionInvariant, PTL
-----------------------------------------------------------------------------
(* A row that carries a key was finished by a driver who has held the      *)
(* trip, under that very key.                                              *)
LEMMA KeyedRow ==
  ASSUME AttributedToHolder, NEW i \in Rows \ {1}, key[i] # NoCapture
  PROVE  /\ status[i] \in Finished
         /\ key[i].row = i /\ OwnCompletion(key[i])
         /\ key[i].by \in Participants
  <1>1. AttributedAt(i)
    BY DEF AttributedToHolder
  <1>2. status[i] \in Finished
    BY <1>1 DEF AttributedAt
  <1>3. /\ key[i].by = performedBy[i] /\ key[i].row = i
        /\ custodySeq[i] \in 0 .. Len(chain)
        /\ performedBy[i] = Holder(custodySeq[i])
    BY <1>1, <1>2 DEF AttributedAt
  <1> QED
    BY <1>2, <1>3 DEF OwnCompletion, Participants

LEMMA RetriesFollow ==
  ASSUME AttributedToHolder
  PROVE  RetriesAcknowledged
  <1>1. SUFFICES ASSUME NEW i \in Rows \ {1}, key[i] # NoCapture
                 PROVE  Acknowledged(key[i])
    BY DEF RetriesAcknowledged
  <1>2. /\ status[key[i].row] \in Finished /\ OwnCompletion(key[i])
        /\ key[i].by \in Participants
    BY <1>1, KeyedRow
  <1>3. CASE key[i].by = CurrentDriver
    BY <1>2, <1>3 DEF Acknowledged, Admitted, MayReplay
  <1>4. CASE key[i].by # CurrentDriver
    BY <1>2, <1>4 DEF Acknowledged
  <1> QED
    BY <1>3, <1>4

LEMMA AuthorFollows ==
  ASSUME TypeOK, AttributedToHolder
  PROVE  AcknowledgedToItsAuthor
  <1>1. SUFFICES ASSUME NEW c \in Captures, Acknowledged(c)
                 PROVE  status[c.row] \in Finished /\ performedBy[c.row] = c.by
    BY DEF AcknowledgedToItsAuthor
  <1>2. c.row \in Rows \ {1} /\ AttributedAt(c.row)
    BY DEF Captures, AttributedToHolder
  <1>3. CASE OwnCompletion(c)
    <2>1. key[c.row] # NoCapture /\ performedBy[c.row] = c.by
      BY <1>3, CaptureAssumption DEF OwnCompletion
    <2> QED
      BY <1>2, <2>1, KeyedRow
  <1>4. CASE ~OwnCompletion(c)
    <2>1. /\ c.by = CurrentDriver /\ status[c.row] \in Finished
          /\ Len(chain) = 0
      BY <1>1, <1>4 DEF Acknowledged, Admitted, MayReplay
    <2>2. performedBy[c.row] = Holder(custodySeq[c.row])
          /\ custodySeq[c.row] \in 0 .. Len(chain)
      BY <1>2, <2>1 DEF AttributedAt
    <2>3. custodySeq[c.row] = 0
      BY <2>1, <2>2
    <2> QED
      BY <2>1, <2>2, <2>3 DEF CurrentDriver
  <1> QED
    BY <1>3, <1>4

(* For any number of handovers and in any state of the trip, a driver who  *)
(* resends a capture that was recorded is told so.                         *)
THEOREM RetriesAreAcknowledged == Spec => []RetriesAcknowledged
  <1> QED
    BY AttributionInvariant, RetriesFollow, PTL

(* No driver is ever told that a step is recorded unless it is, by them.   *)
THEOREM AcknowledgementIsTrue == Spec => []AcknowledgedToItsAuthor
  <1> QED
    BY AttributionInvariant, AuthorFollows, PTL
-----------------------------------------------------------------------------
(* Custody.  A completed request is never written again, so a step that    *)
(* adds no link keeps the chain unbroken when it leaves at most one        *)
(* request pending and that one right.                                     *)
PendingFits ==
  /\ \A r, q \in Pending : r = q
  /\ \A r \in Pending : requests[r].outgoing = CurrentDriver
                        /\ requests[r].incoming # CurrentDriver

Unbroken == ChainUnbroken /\ IncomingAccepted

LEMMA ChainKept ==
  ASSUME TypeOK, Unbroken, chain' = chain, PendingFits',
         \A r \in DOMAIN requests :
           requests[r].state = "completed" =>
             r \in DOMAIN requests' /\ requests'[r] = requests[r],
         \A r \in DOMAIN requests' :
           requests'[r].state = "completed" =>
             r \in DOMAIN requests /\ requests[r].state = "completed"
  PROVE  Unbroken'
  <1>1. Len(chain) \in Nat
    BY DEF TypeOK
  <1>2. \A n \in 1 .. Len(chain) :
          /\ chain[n].request \in DOMAIN requests'
          /\ requests'[chain[n].request] = requests[chain[n].request]
    BY DEF Unbroken, ChainUnbroken
  <1>3. ChainUnbroken'
    BY <1>2 DEF Unbroken, ChainUnbroken, PendingFits, Holder
  <1>4. IncomingAccepted'
    BY <1>2 DEF Unbroken, IncomingAccepted
  <1> QED
    BY <1>3, <1>4 DEF Unbroken

(* A pending request that is completed becomes the next link: it starts    *)
(* with the present holder, and nothing stays pending beside it.           *)
LEMMA ChainExtended ==
  ASSUME TypeOK, TypeOK', Unbroken, NEW r \in Pending, NEW after,
         requests' = [requests EXCEPT ![r] = after],
         after.state = "completed", after.format = requests[r].format,
         after.outgoing = requests[r].outgoing,
         after.incoming = requests[r].incoming,
         after.format = "immediate_v2" => "incoming" \in after.saved,
         chain' = Append(chain, LinkOf(r))
  PROVE  Unbroken' /\ requests[r].incoming # CurrentDriver
  <1> DEFINE m == Len(chain)
  <1>1. /\ chain \in Seq(Link) /\ m \in Nat
        /\ r \in DOMAIN requests /\ requests[r].state = "pending"
    BY DEF TypeOK, Pending
  <1>2. /\ Len(chain') = m + 1
        /\ \A n \in 1 .. m : chain'[n] = chain[n]
        /\ chain'[m + 1] = LinkOf(r)
    BY <1>1, LinkType, AppendProperties
  <1>3. /\ DOMAIN requests' = DOMAIN requests
        /\ requests'[r] = after
        /\ \A q \in DOMAIN requests \ {r} : requests'[q] = requests[q]
    BY <1>1
  <1>4. \A n \in 0 .. m : Holder(n)' = Holder(n)
    BY <1>1, <1>2 DEF Holder
  <1>5. requests[r].outgoing = Holder(m) /\ requests[r].incoming # Holder(m)
    BY DEF Unbroken, ChainUnbroken, CurrentDriver
  <1>6. Pending' = {}
    BY <1>1, <1>3 DEF Pending, Unbroken, ChainUnbroken
  <1>7. \A n \in 1 .. m :
          /\ chain[n].outgoing = Holder(n - 1)
          /\ chain[n].incoming # chain[n].outgoing
          /\ chain[n].request \in DOMAIN requests
          /\ requests[chain[n].request].state = "completed"
          /\ requests[chain[n].request].outgoing = chain[n].outgoing
          /\ requests[chain[n].request].incoming = chain[n].incoming
          /\ \A k \in 1 .. m : chain[k].request = chain[n].request => k = n
    BY DEF Unbroken, ChainUnbroken
  <1>8. \A n \in 1 .. m : /\ chain[n].request # r
                          /\ requests'[chain[n].request] = requests[chain[n].request]
    BY <1>1, <1>3, <1>7
  <1>9. ASSUME NEW n \in 1 .. m + 1
        PROVE  LET q == chain'[n].request IN
               /\ chain'[n].outgoing = Holder(n - 1)'
               /\ chain'[n].incoming # chain'[n].outgoing
               /\ q \in DOMAIN requests' /\ requests'[q].state = "completed"
               /\ requests'[q].outgoing = chain'[n].outgoing
               /\ requests'[q].incoming = chain'[n].incoming
               /\ \A k \in 1 .. m + 1 : chain'[k].request = q => k = n
               /\ requests'[q].format = "immediate_v2" =>
                    "incoming" \in requests'[q].saved
    <2>1. CASE n \in 1 .. m
      <3>1. n - 1 \in 0 .. m /\ Holder(n - 1)' = Holder(n - 1)
        BY <1>1, <1>4, <2>1
      <3>2. \A k \in 1 .. m + 1 : chain'[k].request = chain[n].request => k = n
        BY <1>1, <1>2, <1>7, <1>8, <2>1 DEF LinkOf
      <3>3. requests[chain[n].request].format = "immediate_v2" =>
              "incoming" \in requests[chain[n].request].saved
        BY <2>1 DEF Unbroken, IncomingAccepted
      <3>4. /\ chain'[n] = chain[n]
            /\ requests'[chain[n].request] = requests[chain[n].request]
            /\ chain[n].request \in DOMAIN requests'
        BY <1>2, <1>3, <1>7, <1>8, <2>1
      <3>5. /\ chain[n].outgoing = Holder(n - 1)
            /\ chain[n].incoming # chain[n].outgoing
            /\ requests[chain[n].request].state = "completed"
            /\ requests[chain[n].request].outgoing = chain[n].outgoing
            /\ requests[chain[n].request].incoming = chain[n].incoming
        BY <1>7, <2>1
      <3> QED
        BY <3>1, <3>2, <3>3, <3>4, <3>5
    <2>2. CASE n = m + 1
      <3>1. n - 1 = m /\ Holder(n - 1)' = Holder(m)
        BY <1>1, <1>4, <2>2
      <3>2. chain'[n] = [outgoing |-> requests[r].outgoing,
                         incoming |-> requests[r].incoming, request |-> r]
        BY <1>2, <2>2 DEF LinkOf
      <3>3. \A k \in 1 .. m + 1 : chain'[k].request = r => k = n
        BY <1>1, <1>2, <1>8, <2>2
      <3> QED
        BY <1>1, <1>3, <1>5, <3>1, <3>2, <3>3
    <2> QED
      BY <1>1, <2>1, <2>2
  <1>10. ASSUME NEW q \in DOMAIN requests', requests'[q].state = "completed"
         PROVE  \E n \in 1 .. m + 1 : chain'[n].request = q
    <2>1. CASE q = r
      BY <1>1, <1>2, <2>1 DEF LinkOf
    <2>2. CASE q # r
      <3>1. PICK n \in 1 .. m : chain[n].request = q
        BY <1>3, <1>10, <2>2 DEF Unbroken, ChainUnbroken
      <3> QED
        BY <1>1, <1>2, <3>1
    <2> QED
      BY <2>1, <2>2
  <1>11. ChainUnbroken'
    BY <1>2, <1>6, <1>9, <1>10 DEF ChainUnbroken
  <1>12. IncomingAccepted'
    BY <1>2, <1>9 DEF IncomingAccepted
  <1> QED
    BY <1>5, <1>11, <1>12 DEF Unbroken, CurrentDriver

(* The other writers of requests leave the completed ones alone.           *)
LEMMA NewRequestFits ==
  ASSUME TypeOK, Unbroken, chain' = chain, NEW base \in Seq(Request),
         Len(base) = Len(requests),
         \A q \in DOMAIN requests : base[q].state # "pending",
         \A q \in DOMAIN requests : requests[q].state # "pending" =>
           base[q] = requests[q],
         \A q \in DOMAIN requests : requests[q].state = "pending" =>
           base[q].state = "cancelled",
         NEW d \in Drivers, NEW f \in Formats, d # CurrentDriver,
         requests' = Append(base, NewRequest(CurrentDriver, d, f))
  PROVE  Unbroken'
  <1> DEFINE m == Len(requests)
             new == NewRequest(CurrentDriver, d, f)
  <1>1. requests \in Seq(Request) /\ m \in Nat /\ DOMAIN requests = 1 .. m
    BY DEF TypeOK
  <1>2. /\ DOMAIN requests' = 1 .. m + 1
        /\ \A q \in 1 .. m : requests'[q] = base[q]
        /\ requests'[m + 1] = new
    <2>1. Len(chain) \in 0 .. Len(chain)
      BY DEF TypeOK
    <2>2. new \in Request
      BY <2>1, HolderType, NewRequestType DEF CurrentDriver
    <2>3. requests' = Append(base, new) /\ Len(base) = m
      OBVIOUS
    <2> HIDE DEF new, m
    <2>4. requests' \in Seq(Request) /\ Len(requests') = m + 1
      BY <1>1, <2>2, <2>3, AppendProperties
    <2> QED
      BY <1>1, <2>2, <2>3, <2>4, AppendProperties
  <1>3. new.state = "pending" /\ new.outgoing = CurrentDriver /\ new.incoming = d
    BY DEF NewRequest
  <1> HIDE DEF new, m
  <1>4. Pending' = {m + 1}
    BY <1>1, <1>2, <1>3 DEF Pending
  <1>5. CurrentDriver' = CurrentDriver
    BY DEF CurrentDriver, Holder
  <1>6. PendingFits'
    BY <1>2, <1>3, <1>4, <1>5 DEF PendingFits
  <1>7. \A q \in DOMAIN requests : requests[q].state = "completed" =>
          q \in DOMAIN requests' /\ requests'[q] = requests[q]
    BY <1>1, <1>2
  <1>8. \A q \in DOMAIN requests' : requests'[q].state = "completed" =>
          q \in DOMAIN requests /\ requests[q].state = "completed"
    <2>1. ASSUME NEW q \in 1 .. m, requests'[q].state = "completed"
          PROVE  requests[q].state = "completed"
      <3>1. base[q].state = "completed"
        BY <1>2, <2>1
      <3>2. requests[q].state # "pending"
        BY <1>1, <3>1
      <3> QED
        BY <1>1, <3>1, <3>2
    <2>2. requests'[m + 1].state # "completed"
      BY <1>2, <1>3
    <2> QED
      BY <1>1, <1>2, <2>1, <2>2
  <1> QED
    BY <1>6, <1>7, <1>8, ChainKept

LEMMA RequestsEnded ==
  ASSUME TypeOK, Unbroken, chain' = chain, DOMAIN requests' = DOMAIN requests,
         \A q \in DOMAIN requests :
           \/ requests'[q] = requests[q]
           \/ requests[q].state = "pending" /\ requests'[q].state = "cancelled"
  PROVE  Unbroken'
  <1>1. \A q \in Pending' : q \in Pending /\ requests'[q] = requests[q]
    BY DEF Pending
  <1>2. CurrentDriver' = CurrentDriver
    BY DEF CurrentDriver, Holder
  <1>3. PendingFits'
    BY <1>1, <1>2 DEF PendingFits, Unbroken, ChainUnbroken
  <1>4. \A q \in DOMAIN requests : requests[q].state = "completed" =>
          requests'[q] = requests[q]
    OBVIOUS
  <1>5. \A q \in DOMAIN requests' : requests'[q].state = "completed" =>
          q \in DOMAIN requests /\ requests[q].state = "completed"
    OBVIOUS
  <1> QED
    BY <1>3, <1>4, <1>5, ChainKept

\* cancel_pending_for_terminal_trip
LEMMA CancellingEnds ==
  ASSUME TypeOK, Unbroken, chain' = chain,
         requests' = requests \/ requests' = WithPendingCancelled
  PROVE  Unbroken'
  <1>1. DOMAIN requests' = DOMAIN requests
    BY CancelledType
  <1>2. \A q \in DOMAIN requests :
          \/ requests'[q] = requests[q]
          \/ requests[q].state = "pending" /\ requests'[q].state = "cancelled"
    <2>1. CASE requests' = requests
      BY <2>1
    <2>2. CASE requests' = WithPendingCancelled
      <3>1. SUFFICES ASSUME NEW q \in DOMAIN requests, requests[q].state = "pending"
                     PROVE  requests'[q].state = "cancelled"
        BY <2>2 DEF WithPendingCancelled, Pending
      <3>2. requests'[q] = [requests[q] EXCEPT !.state = "cancelled"]
        BY <2>2, <3>1 DEF WithPendingCancelled, Pending
      <3>3. requests[q] \in Request
        BY LinkType
      <3> QED
        BY <3>2, <3>3 DEF Request
    <2> QED
      BY <2>1, <2>2
  <1> QED
    BY <1>1, <1>2, RequestsEnded

LEMMA ArrangeUnbroken ==
  ASSUME TypeOK, Unbroken, NEW d \in Drivers, NEW f \in Formats, Arrange(d, f)
  PROVE  Unbroken'
  <1>1. /\ requests \in Seq(Request) /\ d # CurrentDriver /\ chain' = chain
        /\ requests' = Append(requests, NewRequest(CurrentDriver, d, f))
    BY DEF Arrange, TypeOK
  <1>2. \A q \in DOMAIN requests : requests[q].state # "pending"
    BY DEF Arrange, NonePending, Pending
  <1> QED
    BY <1>1, <1>2, NewRequestFits

LEMMA ReplaceUnbroken ==
  ASSUME TypeOK, Unbroken, NEW r \in DOMAIN requests, NEW d \in Drivers,
         NEW f \in Formats, Replace(r, d, f)
  PROVE  Unbroken'
  <1> DEFINE base == [requests EXCEPT ![r].state = "cancelled"]
  <1>1. base \in Seq(Request) /\ Len(base) = Len(requests)
    BY RequestEndType
  <1>2. /\ r \in Pending /\ requests[r].outgoing = CurrentDriver
        /\ \A q \in DOMAIN requests : requests[q].state = "pending" => q = r
    BY DEF Replace, Unbroken, ChainUnbroken, Pending
  <1>3. requests[r] \in Request
    BY LinkType
  <1>4. /\ base[r].state = "cancelled"
        /\ \A q \in DOMAIN requests \ {r} : base[q] = requests[q]
    BY <1>3 DEF Request
  <1>5. /\ d # CurrentDriver /\ chain' = chain
        /\ requests' = Append(base, NewRequest(CurrentDriver, d, f))
    BY <1>2 DEF Replace
  <1>6. /\ \A q \in DOMAIN requests : base[q].state # "pending"
        /\ \A q \in DOMAIN requests :
             requests[q].state # "pending" => base[q] = requests[q]
        /\ \A q \in DOMAIN requests :
             requests[q].state = "pending" => base[q].state = "cancelled"
    <2> HIDE DEF base
    <2>1. requests[r].state = "pending"
      BY <1>2 DEF Pending
    <2> QED
      BY <1>2, <1>4, <2>1
  <1> HIDE DEF base
  <1> QED
    BY <1>1, <1>5, <1>6, NewRequestFits

LEMMA CancelUnbroken ==
  ASSUME TypeOK, Unbroken, NEW r \in DOMAIN requests, CancelRequest(r)
  PROVE  Unbroken'
  <1>1. requests[r] \in Request /\ requests[r].state = "pending"
    BY LinkType DEF CancelRequest, Pending
  <1>2. /\ chain' = chain /\ DOMAIN requests' = DOMAIN requests
        /\ requests' = [requests EXCEPT ![r] = [requests[r] EXCEPT !.state = "cancelled"]]
    BY DEF CancelRequest
  <1>3. requests'[r].state = "cancelled"
    BY <1>1, <1>2 DEF Request
  <1>4. \A q \in DOMAIN requests \ {r} : requests'[q] = requests[q]
    BY <1>2
  <1> QED
    BY <1>1, <1>2, <1>3, <1>4, RequestsEnded

(* A step that completes request r: what the chain gains, for the          *)
(* invariant here and for the refinement below.                            *)
Completes(r) ==
  /\ Actionable(r)
  /\ chain' = Append(chain, LinkOf(r))
  /\ requests[r].incoming # CurrentDriver

LEMMA ConfirmUnbroken ==
  ASSUME TypeOK, TypeOK', Unbroken, NEW r \in DOMAIN requests,
         NEW role \in Roles, NEW blocked \in BOOLEAN, Confirm(r, role, blocked)
  PROVE  Unbroken' /\ (chain' = chain \/ Completes(r))
  <1> DEFINE saved == requests[r].saved \union {role}
             completes == RequiredRoles(requests[r].format) \subseteq saved
                            /\ ~blocked
             after == [requests[r] EXCEPT !.saved = saved,
                        !.state = IF completes THEN "completed" ELSE @]
  <1>1. r \in Pending /\ requests[r] \in Request /\ Actionable(r)
    BY LinkType DEF Confirm, Actionable
  <1>2. requests' = [requests EXCEPT ![r] = after]
    BY DEF Confirm
  <1>3. /\ after.outgoing = requests[r].outgoing
        /\ after.incoming = requests[r].incoming
        /\ after.format = requests[r].format
        /\ after.saved = saved
        /\ after.state = IF completes THEN "completed" ELSE requests[r].state
    BY <1>1 DEF Request
  <1>4. chain' = IF completes THEN Append(chain, LinkOf(r)) ELSE chain
    BY DEF Confirm
  <1>5. completes /\ after.format = "immediate_v2" => "incoming" \in after.saved
    BY <1>3 DEF RequiredRoles
  <1> HIDE DEF after, completes
  <1>6. CASE completes
    <2>1. Unbroken' /\ requests[r].incoming # CurrentDriver
      BY <1>1, <1>2, <1>3, <1>4, <1>5, <1>6, ChainExtended
    <2> QED
      BY <1>1, <1>4, <1>6, <2>1 DEF Completes
  <1>7. CASE ~completes
    <2>1. chain' = chain /\ after.state = requests[r].state
      BY <1>3, <1>4, <1>7
    <2>2. /\ DOMAIN requests' = DOMAIN requests /\ requests'[r] = after
          /\ \A q \in DOMAIN requests \ {r} : requests'[q] = requests[q]
      BY <1>2
    <2>3. requests[r].state = "pending"
      BY <1>1 DEF Pending
    <2>4. CurrentDriver' = CurrentDriver
      BY <2>1 DEF CurrentDriver, Holder
    <2>5. PendingFits'
      <3>1. Pending' = Pending
        BY <2>1, <2>2 DEF Pending
      <3>2. \A q \in Pending : /\ requests'[q].outgoing = requests[q].outgoing
                               /\ requests'[q].incoming = requests[q].incoming
        BY <1>3, <2>2 DEF Pending
      <3> QED
        BY <2>4, <3>1, <3>2 DEF PendingFits, Unbroken, ChainUnbroken
    <2>6. /\ \A q \in DOMAIN requests :
               requests[q].state = "completed" => requests'[q] = requests[q]
          /\ \A q \in DOMAIN requests' : requests'[q].state = "completed" =>
               q \in DOMAIN requests /\ requests[q].state = "completed"
      BY <2>1, <2>2, <2>3
    <2> QED
      BY <2>1, <2>2, <2>5, <2>6, ChainKept
  <1> QED
    BY <1>6, <1>7

LEMMA CompleteAttestedUnbroken ==
  ASSUME TypeOK, TypeOK', Unbroken, NEW r \in DOMAIN requests,
         CompleteAttested(r)
  PROVE  Unbroken' /\ Completes(r)
  <1> DEFINE after == [requests[r] EXCEPT !.state = "completed"]
  <1>1. r \in Pending /\ requests[r] \in Request /\ Actionable(r)
    BY LinkType DEF CompleteAttested, Actionable
  <1>2. requests' = [requests EXCEPT ![r] = after] /\ chain' = Append(chain, LinkOf(r))
    BY DEF CompleteAttested
  <1>3. /\ after.outgoing = requests[r].outgoing
        /\ after.incoming = requests[r].incoming
        /\ after.format = requests[r].format
        /\ after.saved = requests[r].saved
        /\ after.state = "completed"
    BY <1>1 DEF Request
  <1>4. requests[r].format = "immediate_v2" => "incoming" \in requests[r].saved
    BY DEF CompleteAttested, RequiredRoles
  <1> HIDE DEF after
  <1>5. Unbroken' /\ requests[r].incoming # CurrentDriver
    BY <1>1, <1>2, <1>3, <1>4, ChainExtended
  <1> QED
    BY <1>1, <1>2, <1>5 DEF Completes

LEMMA HandoverUnbroken ==
  ASSUME TypeOK, TypeOK', Unbroken, HandoverStep
  PROVE  Unbroken' /\ (chain' = chain \/ \E r \in DOMAIN requests : Completes(r))
  <1>1. ASSUME NEW d \in Drivers, NEW f \in Formats, Arrange(d, f)
        PROVE  Unbroken' /\ chain' = chain
    BY <1>1, ArrangeUnbroken DEF Arrange
  <1>2. ASSUME NEW r \in DOMAIN requests, CancelRequest(r)
        PROVE  Unbroken' /\ chain' = chain
    BY <1>2, CancelUnbroken DEF CancelRequest
  <1>3. ASSUME NEW r \in DOMAIN requests, NEW d \in Drivers,
               NEW f \in Formats, Replace(r, d, f)
        PROVE  Unbroken' /\ chain' = chain
    BY <1>3, ReplaceUnbroken DEF Replace
  <1>4. ASSUME NEW r \in DOMAIN requests, NEW role \in Roles,
               NEW blocked \in BOOLEAN, Confirm(r, role, blocked)
        PROVE  Unbroken' /\ (chain' = chain \/ Completes(r))
    BY <1>4, ConfirmUnbroken
  <1>5. ASSUME NEW r \in DOMAIN requests, CompleteAttested(r)
        PROVE  Unbroken' /\ Completes(r)
    BY <1>5, CompleteAttestedUnbroken
  <1> QED
    BY <1>1, <1>2, <1>3, <1>4, <1>5 DEF HandoverStep

LEMMA NextUnbroken == TypeOK /\ Unbroken /\ [Next]_vars => Unbroken'
  <1> SUFFICES ASSUME TypeOK, Unbroken, [Next]_vars PROVE Unbroken'
    OBVIOUS
  <1>1. TypeOK'
    BY NextType
  <1>2. CASE HandoverStep
    BY <1>1, <1>2, HandoverUnbroken
  <1>3. CASE /\ chain' = chain
             /\ requests' = requests \/ requests' = WithPendingCancelled
    BY <1>3, CancellingEnds
  <1>4. \/ DriverCompletes \/ (\E i \in Rows : OverridePhase(i))
        \/ TerminateTrip \/ (\E s \in openSessions : CloseSession(s))
        \/ UNCHANGED vars
        => /\ chain' = chain
           /\ requests' = requests \/ requests' = WithPendingCancelled
    BY DEF DriverCompletes, CompletePhase, OverridePhase, TerminateTrip,
           CloseSession, vars
  <1> QED
    BY <1>2, <1>3, <1>4 DEF Next

LEMMA InitUnbroken == Init => Unbroken
  BY DEF Init, Unbroken, ChainUnbroken, IncomingAccepted, Pending

LEMMA ChainInvariant == Spec => [](TypeOK /\ Unbroken)
  <1>1. Init => TypeOK /\ Unbroken
    BY InitType, InitUnbroken
  <1>2. TypeOK /\ Unbroken /\ [Next]_vars => (TypeOK /\ Unbroken)'
    BY NextType, NextUnbroken
  <1> QED
    BY <1>1, <1>2, PTL DEF Spec

(* Every link of the chain joins the one before it and comes from its own  *)
(* completed request, and the pending request names the present holder,    *)
(* for any number of drivers, requests, replacements and confirmations.    *)
THEOREM ChainIsUnbroken == Spec => []ChainUnbroken
  <1> QED
    BY ChainInvariant, PTL DEF Unbroken

(* No immediate transfer moves custody without the incoming driver's       *)
(* capture.                                                                *)
THEOREM IncomingHasAccepted == Spec => []IncomingAccepted
  <1> QED
    BY ChainInvariant, PTL DEF Unbroken
-----------------------------------------------------------------------------
(* The custody record.  What the mapping of ImplementsCustodyRecord reads  *)
(* off the state, under names: the drivers so far, the entries made, and   *)
(* what became of the trip.                                                *)
Holders == [n \in 1 .. Len(chain) + 1 |-> Holder(n - 1)]
Entries == [k \in 1 .. DecidedRows - 1 |-> EntryOf(k + 1)]
Fate == IF tripStatus \in Terminal THEN tripStatus ELSE "open"

EntryType == [by : Drivers \union {NoDriver}, period : Nat]

(* A function on 1 .. n is a sequence, and one value longer it is an       *)
(* append.                                                                 *)
LEMMA FunctionIsSeq ==
  ASSUME NEW S, NEW n \in Nat, NEW f \in [1 .. n -> S]
  PROVE  f \in Seq(S) /\ Len(f) = n
  BY SeqDef

LEMMA OneMore ==
  ASSUME NEW S, NEW s \in Seq(S), NEW t \in Seq(S), NEW e \in S,
         Len(t) = Len(s) + 1, t[Len(s) + 1] = e,
         \A i \in 1 .. Len(s) : t[i] = s[i]
  PROVE  t = Append(s, e)
  <1>1. /\ Append(s, e) \in Seq(S)
        /\ Len(Append(s, e)) = Len(s) + 1
        /\ \A i \in 1 .. Len(s) : Append(s, e)[i] = s[i]
        /\ Append(s, e)[Len(s) + 1] = e
    BY AppendProperties
  <1>2. Len(s) \in Nat
    BY LenProperties
  <1>3. ASSUME NEW i \in 1 .. Len(t) PROVE t[i] = Append(s, e)[i]
    <2>1. i \in 1 .. Len(s) \/ i = Len(s) + 1
      BY <1>2
    <2> QED
      BY <1>1, <2>1
  <1> QED
    BY <1>1, <1>3, SeqEqual

HoldersRight ==
  /\ Holders \in Seq(Drivers) /\ Len(Holders) = Len(chain) + 1
  /\ Holders[Len(Holders)] = CurrentDriver
  /\ \A n \in 1 .. Len(chain) + 1 : Holders[n] = Holder(n - 1)

LEMMA HoldersType == TypeOK => HoldersRight
  <1> SUFFICES ASSUME TypeOK PROVE HoldersRight
    OBVIOUS
  <1>1. Len(chain) \in Nat
    BY DEF TypeOK
  <1>2. \A n \in 1 .. Len(chain) + 1 : Holder(n - 1) \in Drivers
    BY <1>1, HolderType
  <1>3. Holders \in [1 .. Len(chain) + 1 -> Drivers]
    BY <1>2 DEF Holders
  <1>4. Holders \in Seq(Drivers) /\ Len(Holders) = Len(chain) + 1
    BY <1>1, <1>3, FunctionIsSeq
  <1>5. \A n \in 1 .. Len(chain) + 1 : Holders[n] = Holder(n - 1)
    BY DEF Holders
  <1>6. Len(chain) + 1 \in 1 .. Len(chain) + 1 /\ (Len(chain) + 1) - 1 = Len(chain)
    BY <1>1
  <1> QED
    BY <1>4, <1>5, <1>6 DEF CurrentDriver, HoldersRight

EntriesRight == \A p \in 2 .. Len(Plan) + 1 :
  DecidedRows = p - 1 =>
    /\ Entries \in Seq(EntryType) /\ Len(Entries) = p - 2
    /\ \A k \in 1 .. p - 2 : Entries[k] = EntryOf(k + 1)

LEMMA EntriesType == TypeOK => EntriesRight
  <1> SUFFICES ASSUME TypeOK, NEW p \in 2 .. Len(Plan) + 1, DecidedRows = p - 1
               PROVE  /\ Entries \in Seq(EntryType) /\ Len(Entries) = p - 2
                      /\ \A k \in 1 .. p - 2 : Entries[k] = EntryOf(k + 1)
    BY DEF EntriesRight
  <1>1. Len(Plan) \in Nat /\ p - 2 \in Nat /\ DecidedRows - 1 = p - 2
    BY PlanAssumption
  <1>2. ASSUME NEW k \in 1 .. p - 2 PROVE EntryOf(k + 1) \in EntryType
    <2>1. k + 1 \in Rows
      BY <1>1 DEF Rows
    <2>2. /\ performedBy[k + 1] \in Drivers \union {NoDriver}
          /\ custodySeq[k + 1] + 1 \in Nat
      BY <2>1 DEF TypeOK, Omitted
    <2> QED
      BY <2>2 DEF EntryOf, EntryType
  <1>3. Entries = [k \in 1 .. p - 2 |-> EntryOf(k + 1)]
    BY <1>1 DEF Entries
  <1>4. Entries \in [1 .. p - 2 -> EntryType]
    BY <1>2, <1>3
  <1> QED
    BY <1>1, <1>3, <1>4, FunctionIsSeq

(* A link to the chain is a driver appended to the holders.                *)
LEMMA HoldersGrow ==
  ASSUME TypeOK, TypeOK', NEW r \in DOMAIN requests,
         chain' = Append(chain, LinkOf(r))
  PROVE  Holders' = Append(Holders, requests[r].incoming)
  <1> DEFINE m == Len(chain)
  <1>1. /\ m \in Nat /\ chain \in Seq(Link) /\ LinkOf(r) \in Link
        /\ requests[r].incoming \in Drivers
    BY LinkType DEF TypeOK, Request
  <1>2. /\ Len(chain') = m + 1 /\ chain'[m + 1] = LinkOf(r)
        /\ \A n \in 1 .. m : chain'[n] = chain[n]
    BY <1>1, AppendProperties
  <1>3. /\ Holders \in Seq(Drivers) /\ Len(Holders) = m + 1
        /\ \A n \in 1 .. m + 1 : Holders[n] = Holder(n - 1)
    BY HoldersType DEF HoldersRight
  <1>4. /\ Holders' \in Seq(Drivers) /\ Len(Holders') = m + 2
        /\ \A n \in 1 .. m + 2 : Holders'[n] = Holder(n - 1)'
    <2>1. HoldersRight'
      BY HoldersType, PTL
    <2>2. Len(chain') + 1 = m + 2
      BY <1>1, <1>2
    <2> QED
      BY <2>1, <2>2 DEF HoldersRight, Holder
  <1>5. \A n \in 0 .. m : Holder(n)' = Holder(n)
    BY <1>1, <1>2 DEF Holder
  <1>6. chain'[m + 1].incoming = requests[r].incoming
    BY <1>1, <1>2 DEF LinkOf
  <1>7. ASSUME NEW n \in 1 .. m + 1 PROVE Holders'[n] = Holders[n]
    <2>1. n - 1 \in 0 .. m /\ n \in 1 .. m + 2
      BY <1>1
    <2> HIDE DEF m
    <2>2. Holders'[n] = Holder(n - 1)' /\ Holder(n - 1)' = Holder(n - 1)
      BY <1>4, <1>5, <2>1 DEF Holder
    <2> QED
      BY <1>3, <2>2
  <1>8. Holders'[m + 2] = requests[r].incoming
    <2>1. m + 2 \in 1 .. m + 2 /\ (m + 2) - 1 = m + 1 /\ m + 1 # 0
      BY <1>1
    <2> HIDE DEF m
    <2> QED
      BY <1>4, <1>6, <2>1 DEF Holder
  <1> HIDE DEF m
  <1> QED
    BY <1>1, <1>3, <1>4, <1>7, <1>8, OneMore

(* Deciding a row makes the next entry, and the last one closes the trip.  *)
LEMMA EntryMade ==
  ASSUME TypeOK, TypeOK', Frontier, Underway,
         NEW i \in Rows, NEW s \in Resolved,
         status[i] = "pending", ~OpenBelow(i), NEW otherwise,
         otherwise \notin Terminal,
         status' = [status EXCEPT ![i] = s],
         RecomputePosition([status EXCEPT ![i] = s], otherwise),
         \A j \in Rows \ {i} : /\ performedBy'[j] = performedBy[j]
                               /\ custodySeq'[j] = custodySeq[j],
         chain' = chain
  PROVE  /\ Entries' = Append(Entries, EntryOf(i)')
         /\ Holders' = Holders
         /\ Fate = "open"
         /\ Fate' = IF Len(Entries') = Len(Plan) - 1 THEN "closed" ELSE "open"
  <1>1. Len(Plan) \in Nat /\ Rows = 1 .. Len(Plan)
    BY PlanAssumption DEF Rows
  <1>2. otherwise # "closed"
    BY DEF Terminal
  <1>3. /\ i \in 2 .. Len(Plan) /\ position = i
        /\ position' = IF i + 1 \in Rows THEN i + 1 ELSE NoRow
        /\ tripStatus' = IF i + 1 \in Rows THEN otherwise ELSE "closed"
    BY <1>2, RowDecided
  <1>4. DecidedRows = i - 1 /\ DecidedRows' = (i + 1) - 1
    BY <1>1, <1>3 DEF DecidedRows, NoRow
  <1>5. /\ Entries \in Seq(EntryType) /\ Len(Entries) = i - 2
        /\ \A k \in 1 .. i - 2 : Entries[k] = EntryOf(k + 1)
    BY <1>1, <1>3, <1>4, EntriesType DEF EntriesRight
  <1>6. /\ Entries' \in Seq(EntryType) /\ Len(Entries') = i - 1
        /\ \A k \in 1 .. i - 1 : Entries'[k] = EntryOf(k + 1)'
    <2>1. EntriesRight'
      BY EntriesType, PTL
    <2>2. i + 1 \in 2 .. Len(Plan) + 1 /\ (i + 1) - 2 = i - 1
      BY <1>1, <1>3
    <2> QED
      BY <1>4, <2>1, <2>2 DEF EntriesRight, EntryOf
  <1>7. \A k \in 1 .. i - 2 : Entries'[k] = Entries[k]
    <2>1. SUFFICES ASSUME NEW k \in 1 .. i - 2 PROVE Entries'[k] = Entries[k]
      OBVIOUS
    <2>2. k + 1 \in Rows \ {i} /\ k \in 1 .. i - 1
      BY <1>1, <1>3
    <2>3. status'[k + 1] = status[k + 1]
      BY <2>2 DEF TypeOK
    <2> QED
      BY <1>5, <1>6, <2>1, <2>2, <2>3 DEF EntryOf
  <1>8. Entries'[i - 1] = EntryOf(i)'
    <2>1. i - 1 \in 1 .. i - 1 /\ (i - 1) + 1 = i
      BY <1>1, <1>3
    <2> QED
      BY <1>6, <2>1 DEF EntryOf
  <1>9. Entries' = Append(Entries, EntryOf(i)')
    <2>1. Entries'[i - 1] \in EntryType
      BY <1>1, <1>3, <1>6, ElementOfSeq
    <2>2. Len(Entries') = Len(Entries) + 1 /\ Len(Entries) + 1 = i - 1
      BY <1>1, <1>3, <1>5, <1>6
    <2>3. EntryOf(i)' \in EntryType
      BY <1>8, <2>1
    <2> QED
      BY <1>5, <1>6, <1>7, <1>8, <2>2, <2>3, OneMore
  <1>10. Holders' = Holders
    BY DEF Holders, Holder
  <1>11. Fate = "open"
    BY DEF Fate, Underway
  <1>12. Fate' = IF Len(Entries') = Len(Plan) - 1 THEN "closed" ELSE "open"
    <2>1. i + 1 \in Rows <=> Len(Entries') # Len(Plan) - 1
      BY <1>1, <1>3, <1>6
    <2> QED
      BY <1>3, <2>1 DEF Fate, Terminal
  <1> QED
    BY <1>9, <1>10, <1>11, <1>12

\* what each kind of step is in the custody record
MakesEntry(entry) ==
  /\ Fate = "open"
  /\ Entries' = Append(Entries, entry)
  /\ Fate' = IF Len(Entries') = Len(Plan) - 1 THEN "closed" ELSE "open"
  /\ Holders' = Holders

LEMMA CompletePhaseMakesEntry ==
  ASSUME TypeOK, TypeOK', Frontier, AttributedToHolder,
         NEW c \in Captures, NEW o \in Finished, CompletePhase(c, o)
  PROVE  MakesEntry([by |-> Holders[Len(Holders)], period |-> Len(Holders)])
  <1> DEFINE otherwise == IF Plan[c.row].type = "activation"
                          THEN "active" ELSE tripStatus
  <1>1. c.row \in Rows /\ o \in Resolved /\ o # "overridden"
    BY DEF Captures, Resolved, Finished
  <1>2. /\ Accepts(c) /\ status[c.row] = "pending" /\ ~OpenBelow(c.row) /\ Underway
        /\ status' = [status EXCEPT ![c.row] = o]
        /\ RecomputePosition([status EXCEPT ![c.row] = o], otherwise)
        /\ performedBy' = [performedBy EXCEPT ![c.row] = c.by]
        /\ custodySeq' = [custodySeq EXCEPT ![c.row] = Len(chain)]
        /\ chain' = chain
    BY DEF CompletePhase, Accepts
  <1>3. otherwise \notin Terminal
    BY <1>2 DEF Underway, Terminal
  <1>4. \A j \in Rows \ {c.row} : /\ performedBy'[j] = performedBy[j]
                                  /\ custodySeq'[j] = custodySeq[j]
    BY <1>2 DEF TypeOK
  <1>5. c.by = CurrentDriver
    BY <1>2, AcceptedIsCurrent DEF CurrentDriver
  <1>6. /\ status'[c.row] = o /\ performedBy'[c.row] = CurrentDriver
        /\ custodySeq'[c.row] = Len(chain)
    BY <1>1, <1>2, <1>5 DEF TypeOK
  <1>7. EntryOf(c.row)' = [by |-> CurrentDriver, period |-> Len(chain) + 1]
    BY <1>1, <1>6 DEF EntryOf
  <1>8. Holders[Len(Holders)] = CurrentDriver /\ Len(Holders) = Len(chain) + 1
    BY HoldersType DEF HoldersRight
  <1> HIDE DEF otherwise
  <1>9. /\ Entries' = Append(Entries, EntryOf(c.row)')
        /\ Holders' = Holders /\ Fate = "open"
        /\ Fate' = IF Len(Entries') = Len(Plan) - 1 THEN "closed" ELSE "open"
    BY <1>1, <1>2, <1>3, <1>4, EntryMade
  <1> QED
    BY <1>7, <1>8, <1>9 DEF MakesEntry

LEMMA OverrideMakesEntry ==
  ASSUME TypeOK, TypeOK', Frontier, NEW i \in Rows, OverridePhase(i)
  PROVE  MakesEntry([by |-> NoDriver, period |-> 0])
  <1>1. /\ status[i] = "pending" /\ ~OpenBelow(i) /\ Underway
        /\ status' = [status EXCEPT ![i] = "overridden"]
        /\ RecomputePosition([status EXCEPT ![i] = "overridden"], tripStatus)
        /\ UNCHANGED <<performedBy, custodySeq, chain>>
    BY DEF OverridePhase, Overridable
  <1>2. tripStatus \notin Terminal /\ "overridden" \in Resolved
    BY <1>1 DEF Underway, Resolved
  <1>3. status'[i] = "overridden"
    BY <1>1 DEF TypeOK
  <1>4. EntryOf(i)' = [by |-> NoDriver, period |-> 0]
    BY <1>3 DEF EntryOf
  <1> QED
    BY <1>1, <1>2, <1>4, EntryMade DEF MakesEntry

(* The mapping leaves nothing to the steps that decide nothing.            *)
LEMMA MappedKept ==
  ASSUME UNCHANGED <<status, performedBy, custodySeq, position, chain>>
  PROVE  Holders' = Holders /\ Entries' = Entries
  <1>1. \A n : Holder(n)' = Holder(n)
    BY DEF Holder
  <1>2. DecidedRows' = DecidedRows /\ \A i : EntryOf(i)' = EntryOf(i)
    BY DEF DecidedRows, EntryOf
  <1> QED
    BY <1>1, <1>2 DEF Holders, Entries, Holder, EntryOf

LEMMA InitMapped == Init => Custody!CustodyInit
  <1> SUFFICES ASSUME Init PROVE Custody!CustodyInit
    OBVIOUS
  <1>1. position = 2 /\ tripStatus = "created" /\ chain = <<>>
    <2>1. Len(Plan) \in Nat /\ 2 \in 2 .. Len(Plan) + 1 /\ 2 \in Rows
      BY PlanAssumption DEF Rows
    <2>2. DecidedUpTo(status, 2)
      BY <2>1 DEF Init, DecidedUpTo, Resolved, Finished, Rows
    <2> QED
      BY <2>1, <2>2, FirstOpenOfPrefix DEF Init
  <1>2. Len(chain) = 0 /\ DecidedRows - 1 = 0
    BY <1>1 DEF DecidedRows, NoRow
  <1>3. Holders = <<Original>>
    <2>1. Holders \in Seq(Drivers) /\ Len(Holders) = 1 /\ Holders[1] = Original
      BY <1>2, InitType, HoldersType DEF HoldersRight, Holder
    <2>2. <<Original>> \in Seq(Drivers) /\ Len(<<Original>>) = 1
      BY DriversAssumption
    <2> QED
      BY <2>1, <2>2, SeqEqual
  <1>4. Entries = <<>>
    <2>1. PICK p \in 2 .. Len(Plan) + 1 : p = 2
      BY PlanAssumption
    <2>2. Entries \in Seq(EntryType) /\ Len(Entries) = 0
      BY <1>2, <2>1, InitType, EntriesType DEF EntriesRight
    <2> QED
      BY <2>2, EmptySeq
  <1>5. Fate = "open"
    BY <1>1 DEF Fate, Terminal
  <1> QED
    BY <1>3, <1>4, <1>5 DEF Custody!CustodyInit, Holders, Entries, Fate

LEMMA NextMapped ==
  TypeOK /\ Frontier /\ AttributedToHolder /\ Unbroken /\ [Next]_vars
    => [Custody!CustodyNext]_(Custody!custodyVars)
  <1> SUFFICES ASSUME TypeOK, Frontier, AttributedToHolder, Unbroken, [Next]_vars
               PROVE  [Custody!CustodyNext]_(Custody!custodyVars)
    OBVIOUS
  <1>1. TypeOK'
    BY NextType
  <1>2. ASSUME NEW c \in Captures, NEW o \in Finished, CompletePhase(c, o)
        PROVE  Custody!Record(Custody!ByHolder)
    <2>1. MakesEntry([by |-> Holders[Len(Holders)], period |-> Len(Holders)])
      BY <1>1, <1>2, CompletePhaseMakesEntry
    <2> QED
      BY <2>1 DEF MakesEntry, Custody!Record, Custody!ByHolder, Custody!Entry,
                  Holders, Entries, Fate
  <1>3. ASSUME NEW i \in Rows, OverridePhase(i)
        PROVE  Custody!Record(Custody!ByDispatcher)
    <2>1. MakesEntry([by |-> NoDriver, period |-> 0])
      BY <1>1, <1>3, OverrideMakesEntry
    <2> QED
      BY <2>1 DEF MakesEntry, Custody!Record, Custody!ByDispatcher,
                  Custody!Entry, Holders, Entries, Fate
  <1>4. CASE TerminateTrip
    <2>1. Fate = "open" /\ Fate' = "cancelled"
      BY <1>4 DEF TerminateTrip, Fate, Underway, Terminal
    <2>2. Holders' = Holders /\ Entries' = Entries
      BY <1>4, MappedKept DEF TerminateTrip, ledger
    <2>3. Custody!Abandon
      BY <2>1, <2>2 DEF Custody!Abandon, Holders, Entries, Fate
    <2> QED
      BY <2>3 DEF Custody!CustodyNext
  <1>5. CASE UNCHANGED <<ledger, tripStatus, position, chain>>
    <2>1. Holders' = Holders /\ Entries' = Entries /\ Fate' = Fate
      BY <1>5, MappedKept DEF ledger, Fate
    <2> QED
      BY <2>1 DEF Custody!custodyVars, Holders, Entries, Fate
  <1>6. CASE HandoverStep
    <2>1. UNCHANGED <<ledger, tripStatus, position, openSessions>>
      BY <1>6, HandoverGrowsChain
    <2>2. CASE chain' = chain
      BY <1>5, <2>1, <2>2
    <2>3. ASSUME NEW r \in DOMAIN requests, Completes(r)
          PROVE  Custody!HandOver(requests[r].incoming)
      <3>1. Holders' = Append(Holders, requests[r].incoming)
        BY <1>1, <2>3, HoldersGrow DEF Completes
      <3>2. requests[r].incoming # Holders[Len(Holders)]
        BY <2>3, HoldersType DEF HoldersRight, Completes
      <3>3. Fate = "open" /\ Fate' = Fate
        BY <2>1, <2>3 DEF Completes, Actionable, Live, Fate, Terminal
      <3>4. Entries' = Entries
        <4>1. DecidedRows' = DecidedRows /\ \A i : EntryOf(i)' = EntryOf(i)
          BY <2>1 DEF DecidedRows, EntryOf, ledger
        <4> QED
          BY <4>1 DEF Entries, EntryOf
      <3> QED
        BY <3>1, <3>2, <3>3, <3>4 DEF Custody!HandOver, Holders, Entries, Fate
    <2>4. ASSUME NEW r \in DOMAIN requests, Completes(r)
          PROVE  Custody!CustodyNext
      <3>1. requests[r].incoming \in Drivers
        BY LinkType DEF Request
      <3> QED
        BY <2>3, <2>4, <3>1 DEF Custody!CustodyNext
    <2> QED
      BY <1>1, <1>6, <2>2, <2>4, HandoverUnbroken
  <1>7. (\E s \in openSessions : CloseSession(s)) \/ UNCHANGED vars
          => UNCHANGED <<ledger, tripStatus, position, chain>>
    BY DEF CloseSession, vars
  <1> QED
    BY <1>2, <1>3, <1>4, <1>5, <1>6, <1>7
       DEF Next, DriverCompletes, Custody!CustodyNext

(* The trip as its handlers run it is the custody record: every commit     *)
(* adds one entry by the present holder or by a dispatcher, changes the    *)
(* holder, abandons the trip, or cannot be seen in the record, whatever    *)
(* the plan and however many drivers, requests and resends.                *)
THEOREM LedgerImplementsCustody == Spec => ImplementsCustodyRecord
  <1>1. Spec => [](TypeOK /\ Frontier /\ AttributedToHolder /\ Unbroken)
    BY AttributionInvariant, ChainInvariant, PTL
  <1> QED
    BY <1>1, InitMapped, NextMapped, PTL
       DEF Spec, ImplementsCustodyRecord, Custody!CustodySpec
=============================================================================
