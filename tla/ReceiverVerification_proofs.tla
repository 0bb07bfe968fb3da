--------------------- MODULE ReceiverVerification_proofs ---------------------
(***************************************************************************)
(* Proofs about ReceiverVerification, for any set of tokens and any        *)
(* monthly limit.                                                          *)
(***************************************************************************)
EXTENDS ReceiverVerification, FiniteSetTheorems, TLAPS

(* What holds of one token's row, and makes the properties inductive: a    *)
(* session being opened is a pending row's, with its link alive, so that   *)
(* its failure cannot touch a verdict; the vendor's present answer is one  *)
(* it gave; and only a row that was answered is resolved.                  *)
RowInv(t) ==
  /\ starting = t => row[t].status = "pending" /\ ~row[t].session /\ link[t]
  /\ vendor[t] \in Decisions => vendor[t] \in given[t]
  /\ row[t].resolved => row[t].status # "absent"
  /\ row[t].status = "verified" =>
       "approved" \in given[t] /\ row[t].identity_match # "differs"
  /\ "mismatch" \in filed[t] => row[t].resolved /\ row[t].status = "failed"

WithSession == {t \in Tokens : row[t].session}

(* The quota: the slot of the session being opened is still free, because  *)
(* the start of a session keeps the month's counter locked.                *)
QuotaInv ==
  /\ IsFiniteSet(WithSession) /\ Cardinality(WithSession) <= used
  /\ used <= SessionLimit
  /\ starting # NoBody => used < SessionLimit
  /\ opened <= used + lost

RowsInv == \A t \in Tokens : RowInv(t)

\* one disjunct of Next
Step(t) ==
  \/ \E consented, has_document \in BOOLEAN : Consent(t, consented, has_document)
  \/ BeginVerification(t)
  \/ Starting(t)
  \/ \E d \in Decisions : VendorDecides(t, d)
  \/ \E written \in BOOLEAN :
       \/ ResolveWithoutSession(t, written)
       \/ \E m \in Matches : ResolveWithDecision(t, m, written)
  \/ \E d \in Decisions \union {"deciding"} : Webhook(t, d)
  \/ Sweep(t) \/ LinkDies(t)

LEMMA NextIsStep == Next <=> \E t \in Tokens : Step(t)
  BY Zenon DEF Next, Step

LEMMA VerdictType ==
  ASSUME NEW d \in Decisions \union {"none", "deciding"}, NEW m \in Matches
  PROVE  /\ Verdict(d, m) \in {"pending", "verified", "failed", "unverified"}
         /\ Verdict(d, m) = "verified" => d = "approved" /\ m # "differs"
         /\ Finding(d, m) \subseteq {"mismatch", "unverified"}
         /\ "mismatch" \in Finding(d, m) => Verdict(d, m) = "failed"
  BY DEF Verdict, Finding, Decisions, Matches

(* Every write of a row is a write of a whole row.                         *)
LEMMA RowWritten ==
  ASSUME TypeOK, NEW t \in Tokens, NEW new \in Row,
         row' = [row EXCEPT ![t] = new]
  PROVE  /\ row' \in [Tokens -> Row]
         /\ row'[t] = new
         /\ \A u \in Tokens \ {t} : row'[u] = row[u]
  BY DEF TypeOK
-----------------------------------------------------------------------------
LEMMA InitType == Init => TypeOK
  BY VerificationAssumption
     DEF Init, TypeOK, Row, Absent, Statuses, Matches, Decisions

(* What a step at one token does to that token's row, by the fields.       *)
LEMMA ConsentRow ==
  ASSUME TypeOK, NEW t \in Tokens, NEW consented \in BOOLEAN,
         NEW has_document \in BOOLEAN, Consent(t, consented, has_document)
  PROVE  /\ row' \in [Tokens -> Row]
         /\ \A u \in Tokens \ {t} : row'[u] = row[u]
         /\ row[t].status = "absent"
         /\ row'[t].status \in {"pending", "unverified"}
         /\ row'[t].session = row[t].session
         /\ row'[t].resolved = row[t].resolved
         /\ row'[t].identity_match = row[t].identity_match
  <1> DEFINE new == [row[t] EXCEPT !.consent = consented,
       !.status = IF consented /\ has_document THEN "pending" ELSE "unverified"]
  <1>1. row[t] \in Row /\ row[t].status = "absent" /\ row' = [row EXCEPT ![t] = new]
    BY DEF Consent, TypeOK
  <1>2. new \in Row /\ new.status \in {"pending", "unverified"}
        /\ new.session = row[t].session /\ new.resolved = row[t].resolved
        /\ new.identity_match = row[t].identity_match
    BY <1>1 DEF Row, Statuses
  <1> HIDE DEF new
  <1> QED
    BY <1>1, <1>2, RowWritten

\* the writers of the status alone
LEMMA StatusRow ==
  ASSUME TypeOK, NEW t \in Tokens, NEW s \in Statuses,
         row' = [row EXCEPT ![t].status = s]
  PROVE  /\ row' \in [Tokens -> Row]
         /\ \A u \in Tokens \ {t} : row'[u] = row[u]
         /\ row'[t].status = s
         /\ row'[t].session = row[t].session
         /\ row'[t].resolved = row[t].resolved
         /\ row'[t].identity_match = row[t].identity_match
  <1> DEFINE new == [row[t] EXCEPT !.status = s]
  <1>1. row[t] \in Row /\ row' = [row EXCEPT ![t] = new]
    BY DEF TypeOK
  <1>2. new \in Row /\ new.status = s /\ new.session = row[t].session
        /\ new.resolved = row[t].resolved
        /\ new.identity_match = row[t].identity_match
    BY <1>1 DEF Row
  <1> HIDE DEF new
  <1> QED
    BY <1>1, <1>2, RowWritten

\* the three flags
LEMMA SessionRow ==
  ASSUME TypeOK, NEW t \in Tokens, row' = [row EXCEPT ![t].session = TRUE]
  PROVE  /\ row' \in [Tokens -> Row]
         /\ \A u \in Tokens \ {t} : row'[u] = row[u]
         /\ row'[t].status = row[t].status
         /\ row'[t].identity_match = row[t].identity_match
         /\ row'[t].resolved = row[t].resolved
         /\ row'[t].session = TRUE
  <1> DEFINE new == [row[t] EXCEPT !.session = TRUE]
  <1>1. row[t] \in Row /\ row' = [row EXCEPT ![t] = new]
    BY DEF TypeOK
  <1>2. new \in Row /\ new.status = row[t].status
        /\ new.identity_match = row[t].identity_match
        /\ new.resolved = row[t].resolved
        /\ new.session = TRUE
    BY <1>1 DEF Row
  <1> HIDE DEF new
  <1> QED
    BY <1>1, <1>2, RowWritten

LEMMA ResolvedRow ==
  ASSUME TypeOK, NEW t \in Tokens, row' = [row EXCEPT ![t].resolved = TRUE]
  PROVE  /\ row' \in [Tokens -> Row]
         /\ \A u \in Tokens \ {t} : row'[u] = row[u]
         /\ row'[t].status = row[t].status
         /\ row'[t].identity_match = row[t].identity_match
         /\ row'[t].session = row[t].session
         /\ row'[t].resolved = TRUE
  <1> DEFINE new == [row[t] EXCEPT !.resolved = TRUE]
  <1>1. row[t] \in Row /\ row' = [row EXCEPT ![t] = new]
    BY DEF TypeOK
  <1>2. new \in Row /\ new.status = row[t].status
        /\ new.identity_match = row[t].identity_match
        /\ new.session = row[t].session
        /\ new.resolved = TRUE
    BY <1>1 DEF Row
  <1> HIDE DEF new
  <1> QED
    BY <1>1, <1>2, RowWritten

LEMMA LateRow ==
  ASSUME TypeOK, NEW t \in Tokens, row' = [row EXCEPT ![t].late = TRUE]
  PROVE  /\ row' \in [Tokens -> Row]
         /\ \A u \in Tokens \ {t} : row'[u] = row[u]
         /\ row'[t].status = row[t].status
         /\ row'[t].identity_match = row[t].identity_match
         /\ row'[t].session = row[t].session
         /\ row'[t].resolved = row[t].resolved
  <1> DEFINE new == [row[t] EXCEPT !.late = TRUE]
  <1>1. row[t] \in Row /\ row' = [row EXCEPT ![t] = new]
    BY DEF TypeOK
  <1>2. new \in Row /\ new.status = row[t].status
        /\ new.identity_match = row[t].identity_match
        /\ new.session = row[t].session
        /\ new.resolved = row[t].resolved
    BY <1>1 DEF Row
  <1> HIDE DEF new
  <1> QED
    BY <1>1, <1>2, RowWritten

\* the verdict at the receiver's return
LEMMA DecisionRow ==
  ASSUME TypeOK, NEW t \in Tokens, NEW m \in Matches, NEW written \in BOOLEAN,
         ResolveWithDecision(t, m, written)
  PROVE  LET v == Verdict(vendor[t], m) IN
         /\ row' \in [Tokens -> Row]
         /\ \A u \in Tokens \ {t} : row'[u] = row[u]
         /\ row'[t].status = v
         /\ row'[t].identity_match = m
         /\ row'[t].resolved = (v # "pending")
         /\ row'[t].session = row[t].session
  <1> DEFINE v == Verdict(vendor[t], m)
             new == [row[t] EXCEPT !.identity_match = m, !.status = v,
                                   !.resolved = (v # "pending")]
  <1>1. row[t] \in Row /\ row' = [row EXCEPT ![t] = new]
    BY DEF ResolveWithDecision, TypeOK
  <1>2. v \in Statuses
    BY VerdictType DEF TypeOK, Statuses
  <1> HIDE DEF v
  <1>3. new \in Row /\ new.status = v /\ new.identity_match = m
        /\ new.resolved = (v # "pending") /\ new.session = row[t].session
    BY <1>1, <1>2 DEF Row
  <1> HIDE DEF new
  <1> QED
    BY <1>1, <1>3, RowWritten DEF v
-----------------------------------------------------------------------------
(* A step at one token: types, that row, and the other rows untouched.     *)
Elsewhere(t) == \A u \in Tokens \ {t} :
  /\ row'[u] = row[u] /\ filed'[u] = filed[u] /\ link'[u] = link[u]
  /\ vendor'[u] = vendor[u] /\ given'[u] = given[u]
  /\ starting' = u => starting = u

LEMMA OthersKept ==
  ASSUME RowsInv, NEW t \in Tokens, Elsewhere(t), RowInv(t)'
  PROVE  RowsInv'
  <1>1. SUFFICES ASSUME NEW u \in Tokens \ {t} PROVE RowInv(u)'
    BY DEF RowsInv
  <1>2. RowInv(u)
    BY DEF RowsInv
  <1> QED
    BY <1>2 DEF Elsewhere, RowInv

(* A resolved verdict as a step may leave it.                              *)
Stands(t) == row[t].resolved /\ row[t].status # "pending" =>
  /\ row'[t].status = row[t].status
  /\ row'[t].identity_match = row[t].identity_match
  /\ filed'[t] = filed[t]

(* One conclusion for every action: it is typed, keeps the row invariant   *)
(* of its token and the others' rows, leaves a verdict standing, and opens *)
(* no session unless it is the one that was being opened; what the vendor  *)
(* meters is paid for by a slot or by a lost start.                        *)
Good(t) ==
  /\ TypeOK' /\ RowInv(t)' /\ Elsewhere(t) /\ Stands(t)
  /\ \/ /\ row'[t].session = row[t].session
        /\ used' = used \/ (starting = t /\ used' = used + 1 /\ starting' = NoBody)
        /\ starting' \in {starting, NoBody} \/ used < SessionLimit
     \/ starting = t /\ used' = used + 1 /\ starting' = NoBody
  /\ opened <= used + lost => opened' <= used' + lost'

LEMMA ConsentGood ==
  ASSUME TypeOK, RowsInv, NEW t \in Tokens, NEW consented \in BOOLEAN,
         NEW has_document \in BOOLEAN, Consent(t, consented, has_document)
  PROVE  Good(t)
  <1>1. /\ row' \in [Tokens -> Row]
        /\ \A u \in Tokens \ {t} : row'[u] = row[u]
        /\ row[t].status = "absent" /\ row'[t].status \in {"pending", "unverified"}
        /\ row'[t].session = row[t].session /\ row'[t].resolved = row[t].resolved
        /\ row'[t].identity_match = row[t].identity_match
    BY ConsentRow
  <1>2. UNCHANGED <<filed, link, used, opened, lost, starting, vendor, given>>
    BY DEF Consent, quotaVars
  <1>3. RowInv(t)
    BY DEF RowsInv
  <1>4. ~row[t].resolved /\ starting # t
    BY <1>1, <1>3 DEF RowInv
  <1> QED
    BY <1>1, <1>2, <1>3, <1>4 DEF Good, TypeOK, RowInv, Elsewhere, Stands

LEMMA BeginGood ==
  ASSUME TypeOK, RowsInv, NEW t \in Tokens, BeginVerification(t)
  PROVE  Good(t)
  <1>1. /\ row[t].status = "pending" /\ ~row[t].session /\ link[t]
        /\ starting = NoBody
        /\ UNCHANGED <<filed, link, used, opened, lost, vendor, given>>
    BY DEF BeginVerification, Startable, quotaVars
  <1>2. RowInv(t)
    BY DEF RowsInv
  <1>3. CASE SlotFree
    <2>1. starting' = t /\ row' = row
      BY <1>3 DEF BeginVerification
    <2> QED
      BY <1>1, <1>2, <1>3, <2>1, VerificationAssumption
         DEF Good, TypeOK, RowInv, Elsewhere, Stands, SlotFree
  <1>4. CASE ~SlotFree
    <2>1. row' = [row EXCEPT ![t].status = "unverified"] /\ starting' = starting
      BY <1>4 DEF BeginVerification
    <2>2. /\ row' \in [Tokens -> Row]
          /\ \A u \in Tokens \ {t} : row'[u] = row[u]
          /\ row'[t].status = "unverified" /\ row'[t].session = row[t].session
          /\ row'[t].resolved = row[t].resolved
      BY <2>1, StatusRow DEF Statuses
    <2> QED
      BY <1>1, <1>2, <2>1, <2>2, VerificationAssumption
         DEF Good, TypeOK, RowInv, Elsewhere, Stands
  <1> QED
    BY <1>3, <1>4

LEMMA StartingGood ==
  ASSUME TypeOK, RowsInv, NEW t \in Tokens, Starting(t)
  PROVE  Good(t)
  <1>1. /\ RowInv(t) /\ starting = t /\ starting' = NoBody
        /\ UNCHANGED <<filed, link, given>>
    BY DEF RowsInv, Starting, SessionCreated, VendorUnavailable, VerificationLost
  <1>2. row[t].status = "pending" /\ ~row[t].session /\ link[t]
    BY <1>1 DEF RowInv
  <1>3. CASE SessionCreated(t)
    <2>1. /\ row' \in [Tokens -> Row]
          /\ \A u \in Tokens \ {t} : row'[u] = row[u]
          /\ row'[t].status = row[t].status /\ row'[t].resolved = row[t].resolved
      BY <1>3, SessionRow DEF SessionCreated
    <2>2. /\ used' = used + 1 /\ opened' = opened + 1 /\ lost' = lost
          /\ vendor' = [vendor EXCEPT ![t] = "deciding"]
      BY <1>3 DEF SessionCreated, Metered
    <2>3. vendor' \in [Tokens -> Decisions \union {"none", "deciding"}]
          /\ vendor'[t] \notin Decisions
          /\ \A u \in Tokens \ {t} : vendor'[u] = vendor[u]
      BY <2>2 DEF TypeOK, Decisions
    <2> QED
      BY <1>1, <1>2, <2>1, <2>2, <2>3, VerificationAssumption
         DEF Good, TypeOK, RowInv, Elsewhere, Stands
  <1>4. ASSUME NEW reached \in BOOLEAN, VendorUnavailable(t, reached) PROVE Good(t)
    <2>1. /\ row' \in [Tokens -> Row]
          /\ \A u \in Tokens \ {t} : row'[u] = row[u]
          /\ row'[t].status = "unverified" /\ row'[t].session = row[t].session
          /\ row'[t].resolved = row[t].resolved
      BY <1>4, StatusRow DEF VendorUnavailable, Statuses
    <2>2. /\ used' = used + 1 /\ lost' = lost /\ vendor' = vendor
          /\ opened' = opened \/ opened' = opened + 1
      BY <1>4 DEF VendorUnavailable, Metered
    <2>3. /\ used' \in Nat /\ opened' \in Nat /\ lost' \in 0..MaxLost
          /\ opened <= used + lost => opened' <= used' + lost'
      <3>1. used \in Nat /\ opened \in Nat /\ lost \in 0..MaxLost
        BY DEF TypeOK
      <3> QED
        BY <2>2, <3>1, VerificationAssumption
    <2>4. RowInv(t)' /\ Elsewhere(t) /\ Stands(t)
      BY <1>1, <1>2, <2>1, <2>2, VerificationAssumption
         DEF RowInv, Elsewhere, Stands
    <2>5. TypeOK'
      BY <1>1, <2>1, <2>2, <2>3 DEF TypeOK
    <2> QED
      BY <1>1, <2>1, <2>2, <2>3, <2>4, <2>5 DEF Good
  <1>5. ASSUME NEW reached \in BOOLEAN, VerificationLost(t, reached) PROVE Good(t)
    <2>1. /\ opened' = opened \/ opened' = opened + 1
          /\ lost < MaxLost /\ lost' = lost + 1
          /\ UNCHANGED <<row, used, vendor>>
      BY <1>5 DEF VerificationLost, Metered
    <2>2. /\ used' \in Nat /\ opened' \in Nat /\ lost' \in 0..MaxLost
          /\ opened <= used + lost => opened' <= used' + lost'
      <3>1. used \in Nat /\ opened \in Nat /\ lost \in 0..MaxLost
        BY DEF TypeOK
      <3> QED
        BY <2>1, <3>1, VerificationAssumption
    <2>3. RowInv(t)' /\ Elsewhere(t) /\ Stands(t)
      BY <1>1, <1>2, <2>1, VerificationAssumption
         DEF RowInv, Elsewhere, Stands
    <2>4. TypeOK'
      BY <1>1, <2>1, <2>2 DEF TypeOK
    <2> QED
      BY <1>1, <2>1, <2>2, <2>3, <2>4 DEF Good
  <1> QED
    BY <1>3, <1>4, <1>5 DEF Starting

LEMMA DecidesGood ==
  ASSUME TypeOK, RowsInv, NEW t \in Tokens, NEW d \in Decisions,
         VendorDecides(t, d)
  PROVE  Good(t)
  <1>1. /\ RowInv(t) /\ UNCHANGED <<row, filed, link, used, opened, lost, starting>>
        /\ vendor' = [vendor EXCEPT ![t] = d]
        /\ given' = [given EXCEPT ![t] = @ \union {d}]
    BY DEF RowsInv, VendorDecides, quotaVars
  <1>2. /\ vendor' \in [Tokens -> Decisions \union {"none", "deciding"}]
        /\ given' \in [Tokens -> SUBSET Decisions]
        /\ vendor'[t] = d /\ given'[t] = given[t] \union {d}
        /\ \A u \in Tokens \ {t} : vendor'[u] = vendor[u] /\ given'[u] = given[u]
    BY <1>1 DEF TypeOK
  <1> QED
    BY <1>1, <1>2 DEF Good, TypeOK, RowInv, Elsewhere, Stands

LEMMA FiledType ==
  ASSUME TypeOK, NEW t \in Tokens, NEW written \in BOOLEAN,
         NEW finding \in SUBSET {"mismatch", "unverified"},
         File(t, finding, written)
  PROVE  /\ filed' \in [Tokens -> SUBSET {"mismatch", "unverified"}]
         /\ filed'[t] \subseteq filed[t] \union finding
         /\ \A u \in Tokens \ {t} : filed'[u] = filed[u]
  BY DEF TypeOK, File

LEMMA WithoutSessionGood ==
  ASSUME TypeOK, RowsInv, NEW t \in Tokens, NEW written \in BOOLEAN,
         ResolveWithoutSession(t, written)
  PROVE  Good(t)
  <1>1. /\ RowInv(t) /\ starting # t /\ ~row[t].resolved /\ row[t].status # "absent"
        /\ UNCHANGED <<link, used, opened, lost, starting, vendor, given>>
        /\ File(t, {"unverified"}, written)
        /\ row' = [row EXCEPT ![t].resolved = TRUE]
    BY DEF RowsInv, ResolveWithoutSession, Locked, AlreadyResolved, quotaVars
  <1>2. /\ filed' \in [Tokens -> SUBSET {"mismatch", "unverified"}]
        /\ filed'[t] \subseteq filed[t] \union {"unverified"}
        /\ \A u \in Tokens \ {t} : filed'[u] = filed[u]
    BY <1>1, FiledType
  <1>3. /\ row' \in [Tokens -> Row]
        /\ \A u \in Tokens \ {t} : row'[u] = row[u]
        /\ row'[t].status = row[t].status /\ row'[t].session = row[t].session
        /\ row'[t].identity_match = row[t].identity_match
    BY <1>1, ResolvedRow
  <1>4. "mismatch" \notin filed'[t]
    BY <1>1, <1>2 DEF RowInv
  <1> QED
    BY <1>1, <1>2, <1>3, <1>4 DEF Good, TypeOK, RowInv, Elsewhere, Stands

LEMMA WithDecisionGood ==
  ASSUME TypeOK, RowsInv, NEW t \in Tokens, NEW m \in Matches,
         NEW written \in BOOLEAN, ResolveWithDecision(t, m, written)
  PROVE  Good(t)
  <1> DEFINE v == Verdict(vendor[t], m)
             finding == Finding(vendor[t], m)
  <1>1. /\ RowInv(t) /\ starting # t /\ ~row[t].resolved
        /\ UNCHANGED <<link, used, opened, lost, starting, vendor, given>>
        /\ File(t, finding, written)
    BY DEF RowsInv, ResolveWithDecision, Locked, AlreadyResolved, quotaVars
  <1>2. /\ v \in {"pending", "verified", "failed", "unverified"}
        /\ v = "verified" => vendor[t] = "approved" /\ m # "differs"
        /\ finding \subseteq {"mismatch", "unverified"}
        /\ "mismatch" \in finding => v = "failed"
    BY VerdictType DEF TypeOK
  <1>3. /\ row' \in [Tokens -> Row]
        /\ \A u \in Tokens \ {t} : row'[u] = row[u]
        /\ row'[t].status = v /\ row'[t].identity_match = m
        /\ row'[t].resolved = (v # "pending")
        /\ row'[t].session = row[t].session
    BY DecisionRow
  <1> HIDE DEF v, finding
  <1>4. /\ filed' \in [Tokens -> SUBSET {"mismatch", "unverified"}]
        /\ filed'[t] \subseteq filed[t] \union finding
        /\ \A u \in Tokens \ {t} : filed'[u] = filed[u]
    BY <1>1, <1>2, FiledType
  <1>5. "mismatch" \in filed'[t] => v = "failed"
    BY <1>1, <1>2, <1>4 DEF RowInv
  <1>6. "approved" \in Decisions
    BY DEF Decisions
  <1>7. RowInv(t)' /\ Elsewhere(t) /\ Stands(t)
    BY <1>1, <1>2, <1>3, <1>4, <1>5, <1>6
       DEF TypeOK, RowInv, Elsewhere, Stands
  <1>8. TypeOK' /\ (opened <= used + lost => opened' <= used' + lost')
    BY <1>1, <1>3, <1>4 DEF TypeOK
  <1> QED
    BY <1>1, <1>3, <1>7, <1>8 DEF Good

LEMMA WebhookGood ==
  ASSUME TypeOK, RowsInv, NEW t \in Tokens,
         NEW d \in Decisions \union {"deciding"}, Webhook(t, d)
  PROVE  Good(t)
  <1> DEFINE v == Verdict(d, row[t].identity_match)
  <1>1. /\ RowInv(t) /\ row[t].session
        /\ d \in given[t] \union {"deciding"}
        /\ UNCHANGED <<filed, link, used, opened, lost, starting, vendor, given>>
    BY DEF RowsInv, Webhook, quotaVars
  <1>2. starting # t
    BY <1>1 DEF RowInv
  <1>3. CASE row[t].status = "pending"
    <2>1. row' = [row EXCEPT ![t].status = v]
      BY <1>3 DEF Webhook, StillPending
    <2>2. row[t].identity_match \in Matches
      BY DEF TypeOK, Row
    <2>3. /\ v \in Statuses /\ v # "absent"
          /\ v = "verified" => d = "approved" /\ row[t].identity_match # "differs"
      BY <2>2, VerdictType DEF Statuses
    <2> HIDE DEF v
    <2>4. /\ row' \in [Tokens -> Row]
          /\ \A u \in Tokens \ {t} : row'[u] = row[u]
          /\ row'[t].status = v /\ row'[t].session = row[t].session
          /\ row'[t].resolved = row[t].resolved
          /\ row'[t].identity_match = row[t].identity_match
      BY <2>1, <2>3, StatusRow
    <2> QED
      BY <1>1, <1>2, <1>3, <2>3, <2>4 DEF Good, TypeOK, RowInv, Elsewhere, Stands
  <1>4. CASE row[t].status # "pending"
    <2>1. row' = [row EXCEPT ![t].late = TRUE]
      BY <1>4 DEF Webhook, StillPending
    <2>2. /\ row' \in [Tokens -> Row]
          /\ \A u \in Tokens \ {t} : row'[u] = row[u]
          /\ row'[t].status = row[t].status /\ row'[t].session = row[t].session
          /\ row'[t].resolved = row[t].resolved
          /\ row'[t].identity_match = row[t].identity_match
      BY <2>1, LateRow
    <2> QED
      BY <1>1, <1>2, <2>2 DEF Good, TypeOK, RowInv, Elsewhere, Stands
  <1> QED
    BY <1>3, <1>4

LEMMA SweepGood ==
  ASSUME TypeOK, RowsInv, NEW t \in Tokens, Sweep(t)
  PROVE  Good(t)
  <1>1. /\ RowInv(t) /\ row[t].status = "pending" /\ ~link[t]
        /\ row' = [row EXCEPT ![t].status = "unverified"]
        /\ UNCHANGED <<filed, link, used, opened, lost, starting, vendor, given>>
    BY DEF RowsInv, Sweep, Abandoned, quotaVars
  <1>2. /\ row' \in [Tokens -> Row]
        /\ \A u \in Tokens \ {t} : row'[u] = row[u]
        /\ row'[t].status = "unverified" /\ row'[t].session = row[t].session
        /\ row'[t].resolved = row[t].resolved
    BY <1>1, StatusRow DEF Statuses
  <1>3. starting # t
    BY <1>1 DEF RowInv
  <1> QED
    BY <1>1, <1>2, <1>3 DEF Good, TypeOK, RowInv, Elsewhere, Stands

LEMMA LinkDiesGood ==
  ASSUME TypeOK, RowsInv, NEW t \in Tokens, LinkDies(t)
  PROVE  Good(t)
  <1>1. /\ RowInv(t) /\ starting # t
        /\ link' = [link EXCEPT ![t] = FALSE]
        /\ UNCHANGED <<row, filed, used, opened, lost, starting, vendor, given>>
    BY DEF RowsInv, LinkDies, Locked, quotaVars
  <1> QED
    BY <1>1 DEF Good, TypeOK, RowInv, Elsewhere, Stands

LEMMA StepGood ==
  ASSUME TypeOK, RowsInv, NEW t \in Tokens, Step(t)
  PROVE  Good(t)
  BY ConsentGood, BeginGood, StartingGood, DecidesGood, WithoutSessionGood,
     WithDecisionGood, WebhookGood, SweepGood, LinkDiesGood DEF Step
-----------------------------------------------------------------------------
(* The month's counter covers every session on record: one is recorded     *)
(* only by the start that held the counter, in the slot it found free.     *)
LEMMA QuotaStep ==
  ASSUME TypeOK, QuotaInv, NEW t \in Tokens, Good(t)
  PROVE  QuotaInv'
  <1>0. opened' <= used' + lost'
    BY DEF Good, QuotaInv
  <1>1. /\ used \in Nat /\ SessionLimit \in Nat
        /\ t # NoBody
        /\ IsFiniteSet(WithSession) /\ Cardinality(WithSession) \in Nat
        /\ Cardinality(WithSession) <= used
    BY VerificationAssumption, FS_CardinalityType DEF TypeOK, QuotaInv
  <1>2. CASE row'[t].session = row[t].session
    <2>1. WithSession' = WithSession
      BY <1>2 DEF Good, Elsewhere, WithSession
    <2>2. /\ used' = used \/ (starting = t /\ used' = used + 1 /\ starting' = NoBody)
          /\ starting' \in {starting, NoBody} \/ used < SessionLimit
      BY <1>2 DEF Good
    <2> QED
      BY <1>0, <1>1, <2>1, <2>2 DEF QuotaInv
  <1>3. CASE row'[t].session # row[t].session
    <2>1. starting = t /\ used' = used + 1 /\ starting' = NoBody
      BY <1>3 DEF Good
    <2>2. WithSession' \subseteq WithSession \union {t}
      BY DEF Good, Elsewhere, WithSession
    <2>3. /\ IsFiniteSet(WithSession \union {t})
          /\ Cardinality(WithSession \union {t}) <= Cardinality(WithSession) + 1
      <3>1. /\ IsFiniteSet(WithSession \union {t})
            /\ Cardinality(WithSession \union {t})
                 = IF t \in WithSession THEN Cardinality(WithSession)
                   ELSE Cardinality(WithSession) + 1
        BY <1>1, FS_AddElement, Zenon
      <3> QED
        BY <1>1, <3>1
    <2>4. /\ IsFiniteSet(WithSession')
          /\ Cardinality(WithSession') <= Cardinality(WithSession \union {t})
      BY <2>2, <2>3, FS_Subset
    <2>5. /\ Cardinality(WithSession') \in Nat
          /\ Cardinality(WithSession \union {t}) \in Nat
      BY <2>3, <2>4, FS_CardinalityType
    <2> QED
      BY <1>0, <1>1, <2>1, <2>3, <2>4, <2>5 DEF QuotaInv
  <1> QED
    BY <1>2, <1>3

VerificationInv == TypeOK /\ RowsInv /\ QuotaInv

LEMMA InitVerification == Init => VerificationInv
  <1> SUFFICES ASSUME Init PROVE VerificationInv
    OBVIOUS
  <1>1. \A t \in Tokens : row[t] = Absent
    BY DEF Init
  <1>2. RowsInv
    BY <1>1, VerificationAssumption DEF Init, RowsInv, RowInv, Absent, Decisions
  <1>3. WithSession = {}
    BY <1>1 DEF WithSession, Absent
  <1>4. QuotaInv
    BY <1>3, FS_EmptySet, VerificationAssumption DEF Init, QuotaInv
  <1> QED
    BY <1>2, <1>4, InitType DEF VerificationInv

LEMMA NextVerification == VerificationInv /\ [Next]_vars => VerificationInv'
  <1> SUFFICES ASSUME VerificationInv, [Next]_vars PROVE VerificationInv'
    OBVIOUS
  <1>1. ASSUME NEW t \in Tokens, Step(t) PROVE VerificationInv'
    <2>1. Good(t)
      BY <1>1, StepGood DEF VerificationInv
    <2> QED
      BY <2>1, OthersKept, QuotaStep DEF VerificationInv, Good
  <1>2. CASE UNCHANGED vars
    BY <1>2 DEF vars, quotaVars, VerificationInv, TypeOK, RowsInv, RowInv, QuotaInv,
                WithSession
  <1> QED
    BY <1>1, <1>2, NextIsStep

LEMMA VerificationInvariant == Spec => []VerificationInv
  <1> QED
    BY InitVerification, NextVerification, PTL DEF Spec

(* Every reachable state of a check, its quota and its findings is typed.  *)
THEOREM TypeCorrect == Spec => []TypeOK
  <1> QED
    BY VerificationInvariant, PTL DEF VerificationInv

LEMMA QuotaFollows == VerificationInv => QuotaHolds
  BY DEF VerificationInv, QuotaInv, QuotaHolds, WithSession

(* However many receivers ask at once: the month's counter keeps to the    *)
(* limit and covers the sessions on record, whichever way starts fail, and *)
(* what the vendor meters is beyond it by no more than the starts that     *)
(* ended before their commit.                                              *)
THEOREM QuotaIsKept == Spec => []QuotaHolds
  <1> QED
    BY VerificationInvariant, QuotaFollows, PTL

LEMMA GroundFollows == VerificationInv => VerdictIsGrounded
  BY DEF VerificationInv, RowsInv, RowInv, VerdictIsGrounded

(* In whatever order returns, webhooks and reviews come, a verified        *)
(* receiver was approved, and a mismatch is reported only of a failed one. *)
THEOREM VerdictHasGround == Spec => []VerdictIsGrounded
  <1> QED
    BY VerificationInvariant, GroundFollows, PTL

(* A recorded verdict is never overwritten by any later path.              *)
THEOREM VerdictIsFinal == Spec => VerdictStands
  <1>1. VerificationInv /\ [Next]_vars =>
          [\A t \in Tokens : row[t].resolved /\ row[t].status # "pending" =>
             /\ row'[t].status = row[t].status
             /\ row'[t].identity_match = row[t].identity_match
             /\ filed'[t] = filed[t]]_vars
    <2>1. SUFFICES ASSUME VerificationInv, NEW t \in Tokens, Step(t),
                          NEW u \in Tokens
                   PROVE  Stands(u)
      BY NextIsStep DEF Stands
    <2>2. Good(t)
      BY <2>1, StepGood DEF VerificationInv
    <2> QED
      BY <2>2 DEF Good, Elsewhere, Stands
  <1> QED
    BY <1>1, VerificationInvariant, PTL DEF Spec, VerdictStands
=============================================================================
