------------------------- MODULE ReceiverVerification -------------------------
(***************************************************************************)
(* The identity check beside a receiver's code (orchestration/handover/    *)
(* receiver_verification.py, consent.py, quota.py, verdict.py,             *)
(* idvs_webhook.py and service.py).  The receiver consents, a session is   *)
(* opened with the vendor against a monthly quota, and the decision comes  *)
(* back on three paths that nobody orders: the receiver's own return, the  *)
(* vendor's webhook, and a sweep for checks nobody finished.               *)
(*                                                                         *)
(* Every path takes the row's lock and so is one step, except the start of *)
(* a session, which keeps the row and the quota locked while it asks the   *)
(* vendor.  The vendor's side of it is not undone when the request ends    *)
(* before its commit: the slot goes back, and the row forgets a session    *)
(* that exists.                                                            *)
(***************************************************************************)
EXTENDS Integers, FiniteSets

CONSTANTS
  Tokens,        \* codes whose receivers are asked to verify themselves
  NoBody,
  SessionLimit,  \* IDVS_MONTHLY_SESSION_LIMIT
  MaxLost        \* bound: starts of a session that end before their commit

ASSUME VerificationAssumption ==
  NoBody \notin Tokens /\ SessionLimit \in Nat /\ MaxLost \in Nat

VARIABLES
  row,      \* receiver_identity_verifications, at most one per token
  filed,    \* the exceptions raised for each token's verification
  link,     \* TRUE while requests with the token can still arrive
  used,     \* sessions_used of this month
  opened,   \* external: the sessions the vendor opened, and meters
  lost,     \* how many starts have ended before their commit
  starting, \* the token whose session is being opened, or NoBody
  vendor,   \* external: what the vendor would answer for the row's session
  given     \* external: every decision it ever gave for it

quotaVars == <<used, opened, lost>>
vars == <<row, filed, link, quotaVars, starting, vendor, given>>

Decisions == {"approved", "declined", "lapsed"}   \* the terminal ones
Matches == {"nothing", "agrees", "differs"}       \* identity_match: NULL, TRUE, FALSE
Statuses == {"absent", "pending", "verified", "failed", "unverified"}
Row == [status : Statuses, consent : BOOLEAN, session : BOOLEAN,
        identity_match : Matches, resolved : BOOLEAN, late : BOOLEAN]

Absent == [status |-> "absent", consent |-> FALSE, session |-> FALSE,
           identity_match |-> "nothing", resolved |-> FALSE, late |-> FALSE]
-----------------------------------------------------------------------------
(* Plausible slips, for the mutation check of the runs.                    *)

OnlyWithSession(t) == row[t].status = "pending" /\ row[t].session /\ ~link[t]
OneMore == used <= SessionLimit
SlotRefunded(t, reached) ==
  /\ starting = t
  /\ starting' = NoBody
  /\ opened' = IF reached THEN opened + 1 ELSE opened
  /\ row' = [row EXCEPT ![t].status = "unverified"]
  /\ UNCHANGED <<filed, link, used, lost, vendor, given>>
AnyUnlessFailed(t) == row[t].status # "failed"
VendorsWord(d, m) == d
DifferenceAccuses(d, m) == IF m = "differs" \/ d = "declined" THEN {"mismatch"}
  ELSE IF d = "lapsed" THEN {"unverified"} ELSE {}
-----------------------------------------------------------------------------
(* resolve_verdict: the vendor's decision and the cross-check, mapped onto *)
(* the status ...                                                          *)
Verdict(d, m) == CASE d = "approved" -> IF m = "differs" THEN "failed" ELSE "verified"
  [] d = "declined" -> "failed"
  [] d = "lapsed" -> "unverified"
  [] OTHER -> "pending"

\* ... and onto the exception it calls for
Finding(d, m) ==
  CASE d = "approved" -> IF m = "differs" THEN {"mismatch"} ELSE {}
    [] d = "declined" -> {"mismatch"}
    [] d = "lapsed" -> {"unverified"}
    [] OTHER -> {}

\* start_verification's guard
Startable(t) == row[t].consent /\ row[t].status = "pending" /\ ~row[t].session

\* consume_quota_slot's WHERE
SlotFree == used < SessionLimit

\* the guard of resolve_receiver_verification
AlreadyResolved(t) == row[t].resolved

\* ingest_webhook_decision moves the status of such a row only
StillPending(t) == row[t].status = "pending"

\* older than IDVS_ABANDON_AFTER_SECONDS, by which time the link is dead
Abandoned(t) == row[t].status = "pending" /\ ~link[t]

Locked(t) == starting = t
-----------------------------------------------------------------------------
Init ==
  /\ row = [t \in Tokens |-> Absent]
  /\ filed = [t \in Tokens |-> {}]
  /\ link = [t \in Tokens |-> TRUE]
  /\ used = 0 /\ opened = 0 /\ lost = 0
  /\ starting = NoBody
  /\ vendor = [t \in Tokens |-> "none"]
  /\ given = [t \in Tokens |-> {}]

(* The receiver agrees with a document, agrees without one, or declines.   *)
Consent(t, consented, has_document) ==
  /\ link[t] /\ row[t].status = "absent"
  /\ row' = [row EXCEPT ![t].consent = consented,
       ![t].status = IF consented /\ has_document THEN "pending" ELSE "unverified"]
  /\ UNCHANGED <<filed, link, quotaVars, starting, vendor, given>>

(* The receiver asks for a session.  The row and the month's quota stay    *)
(* locked until the vendor has answered.                                   *)
BeginVerification(t) ==
  /\ link[t] /\ Startable(t)
  /\ starting = NoBody
  /\ IF SlotFree
     THEN starting' = t /\ UNCHANGED row
     ELSE row' = [row EXCEPT ![t].status = "unverified"] /\ UNCHANGED starting
  /\ UNCHANGED <<filed, link, quotaVars, vendor, given>>

\* create_session has returned, or has failed on the way to or from the vendor
Metered(reached) == opened' = IF reached THEN opened + 1 ELSE opened

SessionCreated(t) ==
  /\ starting = t
  /\ starting' = NoBody
  /\ used' = used + 1
  /\ Metered(TRUE)
  /\ row' = [row EXCEPT ![t].session = TRUE]
  /\ vendor' = [vendor EXCEPT ![t] = "deciding"]
  /\ UNCHANGED <<filed, link, lost, given>>

(* IdvsError: the slot is spent, since a session may have been opened      *)
(* whose answer was lost; the delivery goes on without the check.          *)
VendorUnavailable(t, reached) ==
  /\ starting = t
  /\ starting' = NoBody
  /\ used' = used + 1
  /\ Metered(reached)
  /\ row' = [row EXCEPT ![t].status = "unverified"]
  /\ UNCHANGED <<filed, link, lost, vendor, given>>

(* The request ends before its commit, and takes its slot back.  A session *)
(* the vendor opened for it is on no row: its webhook is for an unknown    *)
(* session, and the row may be started again.                              *)
VerificationLost(t, reached) ==
  /\ starting = t
  /\ lost < MaxLost
  /\ starting' = NoBody
  /\ lost' = lost + 1
  /\ Metered(reached)
  /\ UNCHANGED <<row, filed, link, used, vendor, given>>

\* external: the vendor decides, and may change its answer on review
VendorDecides(t, d) ==
  /\ vendor[t] \notin {"none", d}
  /\ vendor' = [vendor EXCEPT ![t] = d]
  /\ given' = [given EXCEPT ![t] = @ \union {d}]
  /\ UNCHANGED <<row, filed, link, quotaVars, starting>>

(* raise_verification_exception: filed once, and given up if it cannot be. *)
File(t, finding, written) ==
  filed' = IF written THEN [filed EXCEPT ![t] = @ \union finding] ELSE filed

(* The receiver is back, with a name typed on the page, or on a reload     *)
(* with nothing typed.  Without a session there is nobody to ask, and the  *)
(* finding is filed at once.                                               *)
ResolveWithoutSession(t, written) ==
  /\ link[t] /\ row[t].status # "absent" /\ ~Locked(t) /\ ~AlreadyResolved(t)
  /\ ~row[t].session
  /\ File(t, {"unverified"}, written)
  /\ row' = [row EXCEPT ![t].resolved = TRUE]
  /\ UNCHANGED <<link, quotaVars, starting, vendor, given>>

\* the authoritative decision, fetched under the row's lock
ResolveWithDecision(t, m, written) ==
  /\ link[t] /\ ~Locked(t) /\ ~AlreadyResolved(t)
  /\ row[t].session
  /\ row' = [row EXCEPT ![t].identity_match = m,
       ![t].status = Verdict(vendor[t], m),
       ![t].resolved = Verdict(vendor[t], m) # "pending"]
  /\ File(t, Finding(vendor[t], m), written)
  /\ UNCHANGED <<link, quotaVars, starting, vendor, given>>

(* The vendor's webhook, once, again, or long after: it carries a decision *)
(* given at some time, or none yet, and never asks who was typed.          *)
Webhook(t, d) ==
  /\ row[t].session
  /\ d \in given[t] \union {"deciding"}
  /\ row' = IF StillPending(t)
       THEN [row EXCEPT ![t].status = Verdict(d, row[t].identity_match)]
       ELSE [row EXCEPT ![t].late = TRUE]
  /\ UNCHANGED <<filed, link, quotaVars, starting, vendor, given>>

\* the beat: a check nobody finished is no longer pending
Sweep(t) ==
  /\ Abandoned(t)
  /\ row' = [row EXCEPT ![t].status = "unverified"]
  /\ UNCHANGED <<filed, link, quotaVars, starting, vendor, given>>

\* the token dies; no request with it is under way
LinkDies(t) ==
  /\ link[t] /\ ~Locked(t)
  /\ link' = [link EXCEPT ![t] = FALSE]
  /\ UNCHANGED <<row, filed, quotaVars, starting, vendor, given>>

Starting(t) ==
  \/ SessionCreated(t)
  \/ \E reached \in BOOLEAN : VendorUnavailable(t, reached) \/ VerificationLost(t, reached)

Next == \E t \in Tokens :
  \/ \E consented, has_document \in BOOLEAN : Consent(t, consented, has_document)
  \/ BeginVerification(t)
  \/ Starting(t)
  \/ \E d \in Decisions : VendorDecides(t, d)
  \/ \E written \in BOOLEAN :
       \/ ResolveWithoutSession(t, written)
       \/ \E m \in Matches : ResolveWithDecision(t, m, written)
  \/ \E d \in Decisions \union {"deciding"} : Webhook(t, d)
  \/ Sweep(t) \/ LinkDies(t)

Spec == Init /\ [][Next]_vars
-----------------------------------------------------------------------------
TypeOK ==
  /\ row \in [Tokens -> Row]
  /\ filed \in [Tokens -> SUBSET {"mismatch", "unverified"}]
  /\ link \in [Tokens -> BOOLEAN]
  /\ used \in Nat /\ opened \in Nat /\ lost \in 0..MaxLost
  /\ starting \in Tokens \union {NoBody}
  /\ vendor \in [Tokens -> Decisions \union {"none", "deciding"}]
  /\ given \in [Tokens -> SUBSET Decisions]

(* The month's quota, when two receivers ask for the last slot and starts  *)
(* fail on either side of the vendor's answer: the counter keeps to the    *)
(* limit and covers every session on record, and what the vendor meters    *)
(* exceeds the counter by at most one session for each start that ended    *)
(* before its commit, whose slot a rollback gives back.                    *)
QuotaHolds ==
  /\ used <= SessionLimit
  /\ Cardinality({t \in Tokens : row[t].session}) <= used
  /\ opened <= used + lost

(* A recorded verdict is never overwritten: neither by a changed decision  *)
(* of the vendor, nor by a second name typed, nor by the sweep.            *)
VerdictStands ==
  [][\A t \in Tokens : row[t].resolved /\ row[t].status # "pending" =>
       /\ row'[t].status = row[t].status
       /\ row'[t].identity_match = row[t].identity_match
       /\ filed'[t] = filed[t]]_vars

(* A verdict has its ground in the vendor's answers, in whatever order     *)
(* returns and webhooks came: a receiver is verified only by an approval   *)
(* of the session of that very row with no cross-check that disagreed, and *)
(* reported for another's identity only where the record says failed, and  *)
(* goes on saying so.                                                      *)
VerdictIsGrounded == \A t \in Tokens :
  /\ row[t].status = "verified" =>
       "approved" \in given[t] /\ row[t].identity_match # "differs"
  /\ "mismatch" \in filed[t] => row[t].resolved /\ row[t].status = "failed"

(* resolve_receiver_verification's docstring: resolved_at is "set here     *)
(* only once the verdict is final".                                        *)
ResolvedIsFinal == \A t \in Tokens : row[t].resolved => row[t].status # "pending"
-----------------------------------------------------------------------------
(* Fairness.  The vendor call is bounded by IDVS_SESSION_TIMEOUT_SECONDS,  *)
(* a token dies by the clock however often its receiver tries again (so it *)
(* is strong), and the beat runs the sweep.  Nothing is assumed of the     *)
(* receiver or of the vendor.                                              *)
FairSpec ==
  /\ Spec
  /\ \A t \in Tokens : WF_vars(Starting(t)) /\ SF_vars(LinkDies(t)) /\ WF_vars(Sweep(t))

(* An evidence record does not say "still waiting" for ever.               *)
EventuallyDecided == \A t \in Tokens :
  row[t].status = "pending" ~> row[t].status \notin {"absent", "pending"}
=============================================================================
