----------------------- MODULE ExceptionReports_proofs -----------------------
(***************************************************************************)
(* Proofs about ExceptionReports, for any drivers, photos, submissions,    *)
(* session changes and faults: what is filed is what the driver submitted, *)
(* an acknowledgement removes no newer revision, and a photo is stored     *)
(* twice only for a cause.                                                 *)
(*                                                                         *)
(* The argument: the report's lock keeps the two senders apart, so that    *)
(* what the one that holds it has copied stays what is stored, and every   *)
(* photo it still has to send is one whose id nobody was given.            *)
(***************************************************************************)
EXTENDS ExceptionReports, SequenceTheorems, TLAPS
-----------------------------------------------------------------------------
(* The session of ActorLease: what a session change leaves as it was.      *)

(* The app opens with nobody bound and at most the profile read of the     *)
(* stored session (restore in AuthContext.tsx).                            *)
LEMMA LeaseInvInit == LeaseInit => LeaseInv
BY LeaseAssumption
   DEF LeaseInit, LeaseInv, LeaseTypeOK, LookupsFitTheSession,
       ActorIsTheSession, Reading, Lookup

(* A session change, a sign-out or a profile answer keeps the bound driver *)
(* and the account together (observeAuthSession, bindActorLease).          *)
LEMMA LeaseInvStep == ASSUME LeaseInv, SessionStep PROVE LeaseInv'
<1> USE LeaseAssumption DEF LeaseInv, LeaseTypeOK, LookupsFitTheSession,
                            ActorIsTheSession
<1>1. ASSUME NEW d \in Drivers \cup {NoDriver}, Observe(d) PROVE LeaseInv'
  BY <1>1 DEF Observe, NewGeneration, Lookup
<1>2. ASSUME SignOut PROVE LeaseInv'
  BY <1>2 DEF SignOut, NewGeneration
<1>3. ASSUME NEW l \in lookups, ProfileAnswer(l) PROVE LeaseInv'
  BY <1>3 DEF ProfileAnswer, MayBind
<1>4. QED BY <1>1, <1>2, <1>3, SessionStep DEF SessionStep

(* A restart forgets the bound driver and reads the stored session again.  *)
LEMMA LeaseInvForget == ASSUME LeaseInv, ForgetLease PROVE LeaseInv'
BY LeaseAssumption
   DEF LeaseInv, LeaseTypeOK, LookupsFitTheSession, ActorIsTheSession,
       ForgetLease, Reading, Lookup

LEMMA LeaseInvStutter == ASSUME LeaseInv, UNCHANGED leaseVars PROVE LeaseInv'
BY DEF LeaseInv, LeaseTypeOK, LookupsFitTheSession, ActorIsTheSession, leaseVars

(* Within one generation the account does not change: what observes the    *)
(* generation observes the account (assertActorGeneration).                *)
LEMMA GenerationFixesTheAccount ==
  ASSUME LeaseInv, SessionStep
  PROVE  /\ generation' >= generation
         /\ generation' = generation => subject' = subject
BY LeaseAssumption
   DEF LeaseInv, LeaseTypeOK, SessionStep, Observe, SignOut, ProfileAnswer,
       NewGeneration
-----------------------------------------------------------------------------
(* The reports.                                                            *)

Busy == {"sending", "uploaded", "posted"}
Leases == [actor : Drivers \cup {NoDriver}, gen : Nat]

SendStates ==
  [at : {"idle", "waiting", "locked", "listed"} \cup Busy, lease : Leases,
   copy : Envelopes, durable : BOOLEAN, photo : SUBSET Photos,
   ans : Answers \cup {"none"}]

Reports == [rev : 0..MaxRevisions, by : Drivers \cup {NoDriver},
            photos : SUBSET Photos]

TypeInv ==
  /\ stored \in Envelopes /\ stored.ids \subseteq stored.photos
  /\ draft \in Seq(SUBSET Photos) /\ Len(draft) <= MaxRevisions
  /\ reporter \in Leases /\ pageOpen \in BOOLEAN
  /\ holder \in Senders \cup {"none"}
  /\ send \in [Senders -> SendStates]
  /\ volatileIds \subseteq Photos
  /\ copies \in [Photos -> Nat]
  /\ filed \in Reports
  /\ faults \in 0..MaxFaults

\* The lock is held by the one sender that acts on the report.
LockKept ==
  /\ send["page"].at \in {"idle", "waiting", "locked"} \cup Busy
  /\ send["flush"].at \in {"idle", "listed"} \cup Busy
  /\ holder = "page" <=> send["page"].at \in {"locked"} \cup Busy
  /\ holder = "flush" <=> send["flush"].at \in Busy

\* An envelope is one revision as it was submitted, by the one reporter.
Submitted(e) ==
  /\ e.rev \in 1..Len(draft) /\ e.photos = draft[e.rev]
  /\ e.by = reporter.actor

CopiesSubmitted ==
  /\ stored # NoEnvelope => Submitted(stored)
  /\ \A c \in Senders : send[c].at # "idle" =>
       /\ Submitted(send[c].copy) /\ send[c].copy.ids \subseteq send[c].copy.photos
       /\ send[c].lease.actor = reporter.actor

\* The sender with the lock: its copy is what is stored, and it knows every
\* id this session was given.
HolderKnows == \A c \in Senders : send[c].at \in Busy =>
  /\ volatileIds \cap send[c].copy.photos \subseteq send[c].copy.ids
  /\ send[c].durable /\ stored # NoEnvelope => stored.rev = send[c].copy.rev
  /\ send[c].at = "uploaded" => \E p \in send[c].copy.photos : send[c].photo = {p}
  /\ send[c].at = "posted" /\ send[c].ans = "ok" => filed # NoReport

FiledInv == filed # NoReport => filed.rev \in 1..Len(draft) /\ FiledAsSubmitted

\* The session has the id of photo p, or will have it with the next answer.
Answered(c, p) ==
  /\ send[c].at = "uploaded" /\ send[c].photo = {p} /\ send[c].ans = "ok"
  /\ MaySend(c)

IdIsHeld(p) == p \in volatileIds \/ \E c \in Senders : Answered(c, p)

\* A copy whose id is not held has been paid for.
CopiesCost == filed = NoReport => \A p \in Photos :
  /\ copies[p] <= 1 + faults + generation
  /\ ~IdIsHeld(p) => copies[p] <= faults + generation

ReportInv ==
  /\ LeaseInv /\ TypeInv /\ LockKept /\ CopiesSubmitted /\ HolderKnows
  /\ FiledInv /\ CopiesCost
-----------------------------------------------------------------------------
\* Nothing is stored, sent or filed before the driver submits.
LEMMA EmptyTyped ==
  /\ NoEnvelope \in Envelopes /\ NoLease \in Leases /\ NoReport \in Reports
  /\ Asleep \in SendStates
  BY ReportsAssumption
  DEF NoEnvelope, Envelopes, NoLease, Leases, NoReport, Reports, Asleep, SendStates

LEMMA LeaseTyped == LeaseInv => Lease \in Leases
  BY LeaseAssumption DEF LeaseInv, LeaseTypeOK, Lease, Leases

LEMMA ReportInit == Init => ReportInv
  <1> SUFFICES ASSUME Init PROVE ReportInv
    OBVIOUS
  <1>1. LeaseInv
    BY LeaseInvInit DEF Init
  <1>2. send["page"] = Asleep /\ send["flush"] = Asleep /\ Asleep.at = "idle"
    BY DEF Init, Senders, Asleep
  <1>3. TypeInv
    <2>1. stored.ids \subseteq stored.photos
      BY DEF Init, NoEnvelope
    <2>2. QED
      BY <2>1, EmptyTyped, ReportsAssumption DEF Init, TypeInv, Senders
  <1>4. LockKept
    BY <1>2 DEF Init, LockKept, Busy
  <1>5. CopiesSubmitted /\ HolderKnows
    BY <1>2 DEF Init, CopiesSubmitted, HolderKnows, Senders, Busy
  <1>6. FiledInv
    BY DEF Init, FiledInv
  <1>7. CopiesCost
    BY <1>1 DEF Init, CopiesCost, LeaseInv, LeaseTypeOK
  <1>8. QED
    BY <1>1, <1>3, <1>4, <1>5, <1>6, <1>7 DEF ReportInv
-----------------------------------------------------------------------------
(* Steps of the lock.                                                      *)

\* The other sender, which at most is handed the lock it waits for.
Rest(d) ==
  /\ send'[d].lease = send[d].lease /\ send'[d].copy = send[d].copy
  /\ send'[d].durable = send[d].durable /\ send'[d].photo = send[d].photo
  /\ send'[d].ans = send[d].ans
  /\ send'[d].at = send[d].at \/ (send[d].at = "waiting" /\ send'[d].at = "locked")

LEMMA EndsReleases ==
  ASSUME TypeInv, LockKept, NEW c \in Senders, send[c].at \in {"locked"} \cup Busy, Ends(c)
  PROVE  /\ send' \in [Senders -> SendStates] /\ holder' \in Senders \cup {"none"}
         /\ send'[c] = Asleep /\ \A d \in Senders \ {c} : Rest(d)
         /\ LockKept'
  <1> DEFINE next == [send EXCEPT ![c] = Asleep]
  <1>1. /\ next \in [Senders -> SendStates] /\ next[c] = Asleep
        /\ \A d \in Senders \ {c} : next[d] = send[d]
    BY EmptyTyped DEF TypeInv
  <1>2. holder' = AfterRelease(next).holder /\ send' = AfterRelease(next).send
    BY DEF Ends
  <1>3. Asleep.at = "idle"
    BY DEF Asleep
  <1> HIDE DEF next
  <1>4. CASE next["page"].at = "waiting"
    <2>1. holder' = "page" /\ send' = [next EXCEPT !["page"].at = "locked"]
      BY <1>2, <1>4 DEF AfterRelease
    <2>2. c = "flush" /\ send["page"].at = "waiting" /\ next["page"] = send["page"]
      BY <1>1, <1>3, <1>4 DEF Senders
    <2>3. /\ send'["flush"] = Asleep
          /\ send'["page"] = [send["page"] EXCEPT !.at = "locked"]
          /\ send' \in [Senders -> SendStates]
      BY <1>1, <2>1, <2>2 DEF Senders, SendStates
    <2>4. Rest("page")
      BY <1>1, <2>2, <2>3 DEF Rest, SendStates, Senders
    <2>5. QED
      BY <1>3, <2>1, <2>2, <2>3, <2>4 DEF LockKept, Senders, Busy, Rest
  <1>5. CASE next["page"].at # "waiting"
    <2>1. holder' = "none" /\ send' = next
      BY <1>2, <1>5 DEF AfterRelease
    <2>2. \A d \in Senders \ {c} : Rest(d)
      BY <1>1, <2>1 DEF Rest
    <2>3. LockKept'
      BY <1>1, <1>3, <1>5, <2>1 DEF LockKept, Senders, Busy
    <2>4. QED
      BY <1>1, <2>1, <2>2, <2>3 DEF Senders
  <1>6. QED
    BY <1>4, <1>5
-----------------------------------------------------------------------------
(* Steps that keep what the two senders know of the report.                *)

Core ==
  TypeInv /\ LockKept /\ CopiesSubmitted /\ HolderKnows /\ FiledInv

\* No variable but those of the senders and the page changes out of its type.
OthersTyped ==
  /\ stored' \in Envelopes /\ stored'.ids \subseteq stored'.photos
  /\ stored' # NoEnvelope => Submitted(stored')
  /\ volatileIds' \subseteq Photos /\ copies' \in [Photos -> Nat]
  /\ faults' \in 0..MaxFaults /\ pageOpen' \in BOOLEAN
  /\ UNCHANGED <<draft, reporter>>

LEMMA FiledStays == ASSUME FiledInv, UNCHANGED <<draft, reporter, filed>> PROVE FiledInv'
  BY DEF FiledInv, FiledAsSubmitted

LEMMA CoreReleases ==
  ASSUME Core, NEW c \in Senders, send[c].at \in {"locked"} \cup Busy, Ends(c),
         OthersTyped, UNCHANGED filed
  PROVE  Core'
  <1> USE DEF Core
  <1>1. /\ send' \in [Senders -> SendStates] /\ holder' \in Senders \cup {"none"}
        /\ send'[c] = Asleep /\ \A d \in Senders \ {c} : Rest(d)
        /\ LockKept'
    BY EndsReleases
  <1>2. TypeInv'
    BY <1>1 DEF TypeInv, OthersTyped
  <1>3. Asleep.at = "idle"
    BY DEF Asleep
  <1>4. CopiesSubmitted'
    <2>1. stored' # NoEnvelope => Submitted(stored)'
      BY DEF OthersTyped, Submitted
    <2>2. ASSUME NEW d \in Senders, send'[d].at # "idle"
          PROVE  /\ Submitted(send[d].copy)' /\ (send[d].lease.actor)' = reporter'.actor
                 /\ send'[d].copy.ids \subseteq send'[d].copy.photos
      <3>1. d # c
        BY <1>1, <1>3, <2>2
      <3>2. Rest(d) /\ UNCHANGED <<draft, reporter>>
        BY <1>1, <3>1 DEF OthersTyped
      <3>3. QED
        BY <2>2, <3>2 DEF Rest, CopiesSubmitted, Submitted
    <2>3. QED
      BY <2>1, <2>2 DEF CopiesSubmitted
  <1>5. HolderKnows'
    <2>1. \A d \in Senders \ {c} : send[d].at \notin Busy
      BY DEF LockKept, Senders, Busy
    <2>2. \A d \in Senders : send'[d].at \notin Busy
      BY <1>1, <1>3, <2>1 DEF Rest, Busy
    <2>3. QED
      BY <2>2 DEF HolderKnows
  <1>6. FiledInv'
    BY FiledStays DEF OthersTyped
  <1>7. QED
    BY <1>1, <1>2, <1>4, <1>5, <1>6

\* A sender that keeps the lock goes on with the revision it took.
LEMMA CoreGoesOn ==
  ASSUME Core, NEW c \in Senders, send[c].at \in Busy, OthersTyped,
         UNCHANGED holder, NEW s \in SendStates, send' = [send EXCEPT ![c] = s],
         s.at \in Busy, s.lease = send[c].lease, Submitted(s.copy),
         s.copy.ids \subseteq s.copy.photos,
         volatileIds' \cap s.copy.photos \subseteq s.copy.ids,
         s.durable /\ stored' # NoEnvelope => stored'.rev = s.copy.rev,
         s.at = "uploaded" => \E p \in s.copy.photos : s.photo = {p},
         s.at = "posted" /\ s.ans = "ok" => filed' # NoReport,
         FiledInv', filed' \in Reports
  PROVE  Core'
  <1> USE DEF Core
  <1>1. /\ send' \in [Senders -> SendStates] /\ send'[c] = s
        /\ \A d \in Senders \ {c} : send'[d] = send[d]
    BY DEF TypeInv
  <1>2. TypeInv'
    BY <1>1 DEF TypeInv, OthersTyped
  <1>3. LockKept'
    BY <1>1 DEF LockKept, Senders, Busy
  <1>4. CopiesSubmitted'
    <2>1. ASSUME NEW d \in Senders, send'[d].at # "idle"
          PROVE  /\ Submitted(send'[d].copy) /\ send'[d].lease.actor = reporter.actor
                 /\ send'[d].copy.ids \subseteq send'[d].copy.photos
      <3>1. CASE d = c
        BY <1>1, <3>1 DEF CopiesSubmitted, Busy
      <3>2. CASE d # c
        BY <1>1, <2>1, <3>2 DEF CopiesSubmitted
      <3>3. QED
        BY <3>1, <3>2
    <2>2. QED
      BY <2>1 DEF CopiesSubmitted, OthersTyped, Submitted
  <1>5. HolderKnows'
    <2>1. \A d \in Senders \ {c} : send'[d].at \notin Busy
      BY <1>1 DEF LockKept, Senders, Busy
    <2>2. QED
      BY <1>1, <2>1 DEF HolderKnows
  <1>6. QED
    BY <1>2, <1>3, <1>4, <1>5

\* run ends, however it ends.
LEMMA CoreEnding ==
  ASSUME Core, NEW c \in Senders,
         \/ StopSending(c) \/ Rejected(c) \/ Unanswered(c)
         \/ \E removed \in BOOLEAN : Acknowledged(c, removed)
  PROVE  Core'
  <1> USE DEF Core
  <1>1. \/ stored' = stored
        \/ stored' = NoEnvelope
        \/ stored # NoEnvelope /\ stored' = [stored EXCEPT !.status = "needs-attention"]
    BY DEF StopSending, Rejected, Unanswered, Acknowledged
  <1>2. stored' \in Envelopes /\ stored'.ids \subseteq stored'.photos
    BY <1>1, EmptyTyped DEF TypeInv, Envelopes, NoEnvelope
  <1>3. stored' # NoEnvelope => Submitted(stored')
    <2>1. CASE stored' = stored \/ stored' = NoEnvelope
      BY <2>1 DEF CopiesSubmitted
    <2>2. CASE stored # NoEnvelope /\ stored' = [stored EXCEPT !.status = "needs-attention"]
      <3>1. stored'.rev = stored.rev /\ stored'.photos = stored.photos /\ stored'.by = stored.by
        BY <2>2 DEF TypeInv, Envelopes
      <3>2. QED
        BY <2>2, <3>1 DEF CopiesSubmitted, Submitted
    <2>3. QED
      BY <1>1, <2>1, <2>2
  <1>4. /\ Ends(c) /\ send[c].at \in Busy /\ pageOpen' \in BOOLEAN
        /\ volatileIds' \in {volatileIds, {}}
        /\ UNCHANGED <<draft, reporter, filed, copies, faults>>
    BY DEF StopSending, Rejected, Unanswered, Acknowledged, Leave, pageVars, serverVars,
       TypeInv, Busy
  <1>5. OthersTyped
    BY <1>2, <1>3, <1>4 DEF OthersTyped, TypeInv
  <1>6. QED
    BY <1>4, <1>5, CoreReleases

\* One photo goes up.
LEMMA CoreSendPhoto ==
  ASSUME Core, NEW c \in Senders, NEW p \in Photos, NEW ans \in Answers, SendPhoto(c, p, ans)
  PROVE  Core'
  <1> USE DEF Core
  <1> DEFINE s == [send[c] EXCEPT !.at = "uploaded", !.photo = {p}, !.ans = ans]
  <1>1. /\ send[c] \in SendStates /\ send[c].at = "sending"
        /\ p \in send[c].copy.photos
    BY DEF SendPhoto, TypeInv, Missing
  <1>2. /\ s \in SendStates /\ s.at = "uploaded" /\ s.photo = {p} /\ s.lease = send[c].lease
        /\ s.copy = send[c].copy /\ s.durable = send[c].durable
    BY <1>1 DEF SendStates, Busy
  <1>3. send' = [send EXCEPT ![c] = s]
    BY DEF SendPhoto, TypeInv
  <1>4. copies' \in [Photos -> Nat] /\ faults' \in 0..MaxFaults
    BY ReportsAssumption DEF SendPhoto, TypeInv, FaultIf, Fault
  <1>5. UNCHANGED <<stored, draft, reporter, pageOpen, holder, volatileIds, filed>>
    BY DEF SendPhoto, pageVars
  <1>6. OthersTyped
    BY <1>4, <1>5 DEF OthersTyped, TypeInv, CopiesSubmitted
  <1>7. FiledInv'
    BY <1>5, FiledStays
  <1>8. send[c].at \in Busy /\ Submitted(send[c].copy)
    BY <1>1 DEF Busy, CopiesSubmitted
  <1> HIDE DEF s
  <1>9. /\ s.copy.ids \subseteq s.copy.photos
        /\ volatileIds' \cap s.copy.photos \subseteq s.copy.ids
        /\ s.durable /\ stored' # NoEnvelope => stored'.rev = s.copy.rev
    BY <1>1, <1>2, <1>5, <1>8 DEF HolderKnows, CopiesSubmitted
  <1>10. filed' \in Reports /\ s.at \in Busy
    BY <1>2, <1>5 DEF TypeInv, Busy
  <1>11. s.at = "uploaded" => \E q \in s.copy.photos : s.photo = {q}
    BY <1>1, <1>2
  <1>12. s.at # "posted"
    BY <1>2
  <1>13. QED
    BY <1>2, <1>3, <1>5, <1>6, <1>7, <1>8, <1>9, <1>10, <1>11, <1>12, CoreGoesOn

\* A sender that may send does so for the driver who submitted.
LEMMA SendsForReporter ==
  ASSUME Core, LeaseInv, NEW c \in Senders, send[c].at # "idle", MaySend(c)
  PROVE  subject = reporter.actor /\ reporter.actor \in Drivers
  <1>1. send[c].lease.actor = reporter.actor
    BY DEF Core, CopiesSubmitted
  <1>2. send[c].lease.actor = actor /\ actor # NoDriver
    BY DEF MaySend, LeaseIsCurrent, Lease
  <1>3. QED
    BY <1>1, <1>2 DEF LeaseInv, LeaseTypeOK, ActorIsTheSession

\* The report goes up, all its photos stored.
LEMMA CorePost ==
  ASSUME Core, LeaseInv, NEW c \in Senders, NEW ans \in Answers, NEW arrives \in BOOLEAN,
         Post(c, ans, arrives)
  PROVE  Core'
  <1> USE DEF Core
  <1> DEFINE s == [send[c] EXCEPT !.at = "posted", !.ans = ans]
             copy == send[c].copy
             report == [rev |-> copy.rev, by |-> subject, photos |-> copy.ids]
  <1>1. send[c] \in SendStates /\ send[c].at = "sending" /\ send[c].at \in Busy
    BY DEF Post, TypeInv, Busy
  <1>2. /\ s \in SendStates /\ s.at = "posted" /\ s.lease = send[c].lease /\ s.ans = ans
        /\ s.copy = copy /\ s.durable = send[c].durable
    BY <1>1 DEF SendStates, Busy
  <1>3. send' = [send EXCEPT ![c] = s]
    BY DEF Post, TypeInv
  <1>4. faults' \in 0..MaxFaults
    BY ReportsAssumption DEF Post, TypeInv, FaultIf, Fault
  <1>5. UNCHANGED <<stored, draft, reporter, pageOpen, holder, volatileIds, copies>>
    BY DEF Post, pageVars
  <1>6. OthersTyped
    BY <1>4, <1>5 DEF OthersTyped, TypeInv, CopiesSubmitted
  <1>7. Submitted(copy) /\ copy \in Envelopes
    BY <1>1 DEF CopiesSubmitted, SendStates
  <1>8. /\ copy.ids \subseteq copy.photos
        /\ volatileIds \cap copy.photos \subseteq copy.ids
        /\ send[c].durable /\ stored # NoEnvelope => stored.rev = copy.rev
    BY <1>1 DEF HolderKnows, CopiesSubmitted
  <1>9. copy.ids = copy.photos
    BY <1>8 DEF Post, Missing
  <1>10. subject = reporter.actor /\ reporter.actor \in Drivers
    BY <1>1, SendsForReporter DEF Post
  <1>11. filed' = IF arrives /\ filed = NoReport THEN report ELSE filed
    BY DEF Post
  <1>12. report # NoReport /\ report \in Reports
    BY <1>7, <1>10 DEF Submitted, NoReport, Reports, Envelopes, TypeInv
  <1>13. FiledInv'
    <2>1. CASE arrives /\ filed = NoReport
      <3>1. filed'.rev = copy.rev /\ filed'.photos = copy.photos /\ filed'.by = reporter.actor
        BY <1>9, <1>10, <1>11, <2>1
      <3>2. QED
        BY <1>5, <1>7, <3>1 DEF FiledInv, FiledAsSubmitted, Submitted
    <2>2. CASE ~(arrives /\ filed = NoReport)
      BY <1>5, <1>11, <2>2, FiledStays
    <2>3. QED
      BY <2>1, <2>2
  <1>14. s.ans = "ok" => filed' # NoReport
    BY <1>2, <1>11, <1>12 DEF Post
  <1>15. filed' \in Reports
    BY <1>11, <1>12 DEF TypeInv
  <1> HIDE DEF s, copy, report
  <1>16. QED
    BY <1>1, <1>2, <1>3, <1>5, <1>6, <1>7, <1>8, <1>13, <1>14, <1>15, CoreGoesOn DEF Busy

\* The id of an uploaded photo is taken down.
LEMMA CoreTakePhoto ==
  ASSUME Core, NEW c \in Senders, NEW recorded \in BOOLEAN, TakePhoto(c, recorded)
  PROVE  Core'
  <1> USE DEF Core
  <1> DEFINE photo == send[c].photo
             copy == [send[c].copy EXCEPT !.ids = @ \cup photo]
             s == [send[c] EXCEPT !.at = "sending", !.photo = {}, !.copy.ids = @ \cup photo,
                                  !.ans = "none"]
  <1>1. send[c] \in SendStates /\ send[c].at = "uploaded" /\ send[c].at \in Busy
    BY DEF TakePhoto, TypeInv, Busy
  <1>2. Submitted(send[c].copy) /\ send[c].copy \in Envelopes
    BY <1>1 DEF CopiesSubmitted, SendStates
  <1>3. PICK p \in send[c].copy.photos : photo = {p}
    BY <1>1 DEF HolderKnows
  <1>4. p \in Photos
    BY <1>2 DEF Envelopes
  <1>5. /\ copy \in Envelopes /\ copy.rev = send[c].copy.rev /\ copy.by = send[c].copy.by
        /\ copy.photos = send[c].copy.photos /\ copy.ids = send[c].copy.ids \cup photo
    BY <1>2, <1>3, <1>4 DEF Envelopes
  <1>6. s = [send[c] EXCEPT !.at = "sending", !.photo = {}, !.copy = copy, !.ans = "none"]
    BY <1>1 DEF SendStates
  <1>7. s \in SendStates /\ s.at = "sending" /\ s.lease = send[c].lease /\ s.copy = copy
        /\ s.durable = send[c].durable
    <2> HIDE DEF copy, s
    <2>1. QED
      BY <1>1, <1>5, <1>6 DEF SendStates, Busy
  <1>8. send' = [send EXCEPT ![c] = s]
    BY DEF TakePhoto, TypeInv
  <1>9. volatileIds' = volatileIds \cup photo
    BY DEF TakePhoto
  <1>10. UNCHANGED <<draft, reporter, pageOpen, holder, copies, filed, faults>>
    BY DEF TakePhoto, pageVars, serverVars
  <1>11. /\ stored' \in Envelopes /\ stored'.ids \subseteq stored'.photos
         /\ stored'.rev = stored.rev /\ stored'.photos = stored.photos /\ stored'.by = stored.by
         /\ stored' # NoEnvelope => stored # NoEnvelope
    <2>1. CASE stored' = stored
      BY <2>1 DEF TypeInv
    <2>2. CASE stored' = [stored EXCEPT !.ids = @ \cup photo] /\ photo \subseteq stored.photos
      <3>1. stored # NoEnvelope
        BY <1>3, <2>2 DEF NoEnvelope
      <3>2. QED
        BY <2>2, <3>1 DEF TypeInv, Envelopes
    <2>3. QED
      BY <2>1, <2>2 DEF TakePhoto
  <1>12. OthersTyped
    BY <1>3, <1>4, <1>9, <1>10, <1>11 DEF OthersTyped, TypeInv, CopiesSubmitted, Submitted
  <1>13. /\ copy.ids \subseteq copy.photos
         /\ volatileIds' \cap copy.photos \subseteq copy.ids
         /\ s.durable /\ stored' # NoEnvelope => stored'.rev = copy.rev
    <2>1. /\ send[c].copy.ids \subseteq send[c].copy.photos
          /\ volatileIds \cap send[c].copy.photos \subseteq send[c].copy.ids
          /\ send[c].durable /\ stored # NoEnvelope => stored.rev = send[c].copy.rev
      BY <1>1 DEF HolderKnows, CopiesSubmitted
    <2> HIDE DEF copy, s
    <2>2. QED
      BY <2>1, <1>3, <1>5, <1>7, <1>9, <1>11
  <1>14. Submitted(copy)
    BY <1>2, <1>5 DEF Submitted
  <1>15. FiledInv' /\ filed' \in Reports
    BY <1>10, FiledStays DEF TypeInv
  <1> HIDE DEF s, copy, photo
  <1>16. QED
    BY <1>1, <1>7, <1>8, <1>10, <1>12, <1>13, <1>14, <1>15, CoreGoesOn DEF Busy

\* The driver submits: one more revision, by the driver of all the others.
LEMMA CorePress ==
  ASSUME Core, LeaseInv, NEW photos \in SUBSET Photos, Press(photos)
  PROVE  Core'
  <1> USE DEF Core
  <1> DEFINE copy == [rev |-> Len(draft) + 1, by |-> actor, status |-> "pending",
                      photos |-> photos, ids |-> {}]
             at == IF holder = "none" THEN "locked" ELSE "waiting"
             s == [Asleep EXCEPT !.at = at, !.lease = Lease, !.copy = copy]
  <1>1. /\ send["page"].at = "idle" /\ Len(draft) < MaxRevisions /\ actor # NoDriver
        /\ draft # <<>> => LeaseIsCurrent(reporter)
        /\ draft' = Append(draft, photos) /\ reporter' = Lease
        /\ holder' = IF holder = "none" THEN "page" ELSE holder
        /\ send' = [send EXCEPT !["page"] = s]
        /\ UNCHANGED <<stored, pageOpen, volatileIds, copies, filed, faults>>
    BY DEF Press, serverVars
  <1>2. actor \in Drivers /\ Lease \in Leases /\ Lease.actor = actor
    BY <1>1, LeaseTyped DEF LeaseInv, LeaseTypeOK, Lease
  <1>3. Len(draft) \in Nat /\ MaxRevisions \in Nat
    BY ReportsAssumption DEF TypeInv
  <1>4. copy \in Envelopes /\ copy.rev = Len(draft) + 1 /\ copy.by = actor /\ copy.photos = photos
        /\ copy.ids = {}
    BY <1>1, <1>2, <1>3 DEF Envelopes
  <1> HIDE DEF copy
  <1>5. s \in SendStates /\ s.at = at /\ s.lease = Lease /\ s.copy = copy
    BY <1>2, <1>4, EmptyTyped DEF SendStates
  <1> HIDE DEF s
  <1>6. /\ send' \in [Senders -> SendStates] /\ send'["page"] = s
        /\ send'["flush"] = send["flush"]
    BY <1>1, <1>5 DEF TypeInv, Senders
  <1>7. /\ draft' \in Seq(SUBSET Photos) /\ Len(draft') = Len(draft) + 1
        /\ \A k \in 1..Len(draft) : draft'[k] = draft[k]
        /\ draft'[Len(draft) + 1] = photos
    BY <1>1, <1>3 DEF TypeInv
  <1>8. 1..Len(draft) # {} => reporter' = reporter
    BY <1>1, <1>3 DEF LeaseIsCurrent
  <1>9. ASSUME NEW e, Submitted(e) PROVE /\ e.rev \in 1..Len(draft') /\ e.photos = draft'[e.rev]
                                         /\ e.by = reporter'.actor /\ reporter' = reporter
    BY <1>3, <1>7, <1>8, <1>9 DEF Submitted
  <1>10. TypeInv'
    BY <1>1, <1>2, <1>3, <1>6, <1>7 DEF TypeInv, Senders
  <1>11. LockKept'
    BY <1>1, <1>5, <1>6 DEF LockKept, Senders, Busy, TypeInv
  <1>12. CopiesSubmitted'
    <2>1. stored' # NoEnvelope => Submitted(stored)'
      BY <1>1, <1>9 DEF CopiesSubmitted, Submitted
    <2>2. /\ Submitted(send["page"].copy)' /\ (send["page"].lease.actor)' = reporter'.actor
          /\ send'["page"].copy.ids \subseteq send'["page"].copy.photos
      BY <1>1, <1>2, <1>3, <1>4, <1>5, <1>6, <1>7 DEF Submitted
    <2>3. send'["flush"].at # "idle" =>
            /\ Submitted(send["flush"].copy)' /\ (send["flush"].lease.actor)' = reporter'.actor
            /\ send'["flush"].copy.ids \subseteq send'["flush"].copy.photos
      BY <1>6, <1>9 DEF CopiesSubmitted, Submitted, Senders
    <2>4. QED
      BY <2>1, <2>2, <2>3 DEF CopiesSubmitted, Senders
  <1>13. HolderKnows'
    <2>1. send'["page"].at \notin Busy
      BY <1>5, <1>6 DEF Busy
    <2>2. QED
      BY <1>1, <1>6, <2>1 DEF HolderKnows, Senders
  <1>14. FiledInv'
    <2>1. filed # NoReport => Submitted(filed)
      BY DEF FiledInv, FiledAsSubmitted, Submitted
    <2>2. QED
      BY <1>1, <1>9, <2>1 DEF FiledInv, FiledAsSubmitted
  <1>15. QED
    BY <1>10, <1>11, <1>12, <1>13, <1>14

\* The page saves the revision under the lock and goes on with it.
LEMMA CoreSave ==
  ASSUME Core, NEW saved \in BOOLEAN, NEW durable \in BOOLEAN,
         SaveAndSend(saved, durable)
  PROVE  Core'
  <1> USE DEF Core
  <1> DEFINE copy == send["page"].copy
             kept == IF durable THEN Merged(copy) ELSE copy
             sent == [kept EXCEPT !.ids = Known(kept)]
             s == [send["page"] EXCEPT !.at = "sending", !.durable = durable, !.copy = sent]
  <1>1. send["page"] \in SendStates /\ send["page"].at = "locked" /\ "page" \in Senders
    BY DEF SaveAndSend, TypeInv, Senders
  <1>2. copy \in Envelopes /\ Submitted(copy)
    BY <1>1 DEF SendStates, CopiesSubmitted
  <1>3. copy.ids \subseteq copy.photos /\ copy.photos \subseteq Photos
    BY <1>1, <1>2 DEF CopiesSubmitted, Envelopes
  <1>4. Merged(copy) \in Envelopes /\ Merged(copy).rev = copy.rev /\ Merged(copy).by = copy.by
        /\ Merged(copy).photos = copy.photos /\ Merged(copy).ids = stored.ids \cap copy.photos
    <2> HIDE DEF copy
    <2>1. QED
      BY <1>2 DEF Merged, Envelopes
  <1>5. /\ kept \in Envelopes /\ kept.rev = copy.rev /\ kept.by = copy.by
        /\ kept.photos = copy.photos /\ kept.ids \subseteq kept.photos
    <2> HIDE DEF copy
    <2>1. QED
      BY <1>2, <1>3, <1>4
  <1>6. /\ stored' = IF saved THEN Merged(copy) ELSE stored
        /\ durable => stored' = kept
    BY DEF SaveAndSend
  <1> HIDE DEF kept
  <1>7. stored' \in Envelopes /\ stored'.ids \subseteq stored'.photos
    BY <1>4, <1>6 DEF TypeInv
  <1>8. stored' # NoEnvelope => Submitted(stored')
    BY <1>2, <1>4, <1>6 DEF CopiesSubmitted, Submitted
  <1>9. UNCHANGED <<draft, reporter, volatileIds, copies, filed, faults>>
    BY DEF SaveAndSend, serverVars
  <1>10. CASE MaySend("page")
    <2>1. send' = [send EXCEPT !["page"] = s] /\ UNCHANGED <<holder, pageOpen>>
      BY <1>10 DEF SaveAndSend, kept, TypeInv
    <2>2. OthersTyped
      BY <1>7, <1>8, <1>9, <2>1 DEF OthersTyped, TypeInv
    <2>3. /\ sent \in Envelopes /\ sent.rev = copy.rev /\ sent.by = copy.by
          /\ sent.photos = copy.photos
          /\ sent.ids = kept.ids \cup (volatileIds \cap copy.photos)
      <3> HIDE DEF copy
      <3>1. kept.photos \subseteq Photos
        BY <1>5 DEF Envelopes
      <3>2. QED
        BY <1>5, <3>1 DEF Envelopes, Known
    <2> HIDE DEF sent
    <2>4. /\ s \in SendStates /\ s.at = "sending" /\ s.durable = durable /\ s.copy = sent
          /\ s.lease = send["page"].lease
      BY <1>1, <2>3 DEF SendStates, Busy
    <2> HIDE DEF s
    <2>5. /\ send' \in [Senders -> SendStates] /\ send'["page"] = s
          /\ send'["flush"] = send["flush"]
      BY <2>1, <2>4 DEF TypeInv, Senders
    <2>6. holder = "page" /\ send["flush"].at \notin Busy
      BY <1>1 DEF LockKept, Busy
    <2>7. TypeInv'
      BY <1>7, <1>9, <2>1, <2>2, <2>5 DEF TypeInv, OthersTyped
    <2>8. LockKept'
      BY <2>1, <2>4, <2>5, <2>6 DEF LockKept, Busy
    <2>9. Submitted(sent)
      BY <1>2, <2>3 DEF Submitted
    <2>10. CopiesSubmitted'
      <3>1. stored' # NoEnvelope => Submitted(stored)'
        BY <1>8, <1>9 DEF Submitted
      <3>2. /\ Submitted(send["page"].copy)' /\ (send["page"].lease.actor)' = reporter'.actor
            /\ send'["page"].copy.ids \subseteq send'["page"].copy.photos
        BY <1>1, <1>5, <1>9, <2>3, <2>4, <2>5, <2>9 DEF Submitted, CopiesSubmitted
      <3>3. send'["flush"].at # "idle" =>
              /\ Submitted(send["flush"].copy)' /\ (send["flush"].lease.actor)' = reporter'.actor
              /\ send'["flush"].copy.ids \subseteq send'["flush"].copy.photos
        BY <1>9, <2>5 DEF CopiesSubmitted, Submitted, Senders
      <3>4. QED
        BY <3>1, <3>2, <3>3 DEF CopiesSubmitted, Senders
    <2>11. HolderKnows'
      <3>1. durable => stored'.rev = sent.rev
        BY <1>5, <1>6, <2>3
      <3>2. QED
        BY <1>9, <2>3, <2>4, <2>5, <2>6, <3>1 DEF HolderKnows, Senders, Busy
    <2>12. QED
      BY <1>9, <2>7, <2>8, <2>10, <2>11, FiledStays
  <1>11. CASE ~MaySend("page")
    <2>1. Ends("page") /\ pageOpen' \in BOOLEAN
      BY <1>11 DEF SaveAndSend, Leave, TypeInv
    <2>2. OthersTyped
      BY <1>7, <1>8, <1>9, <2>1 DEF OthersTyped, TypeInv
    <2>3. QED
      BY <1>1, <1>9, <2>1, <2>2, CoreReleases
  <1>12. QED
    BY <1>10, <1>11

\* The flush lists the stored report and gives the list up.
LEMMA CoreLists ==
  ASSUME Core, LeaseInv, FlushLists \/ FlushSkips PROVE Core'
  <1> USE DEF Core
  <1> DEFINE s == IF FlushLists
                  THEN [Asleep EXCEPT !.at = "listed", !.lease = Lease, !.copy = stored]
                  ELSE Asleep
  <1>1. /\ send' = [send EXCEPT !["flush"] = s] /\ send["flush"].at \in {"idle", "listed"}
        /\ UNCHANGED <<stored, draft, reporter, pageOpen, holder, volatileIds, copies, filed,
                       faults>>
    BY DEF FlushLists, FlushSkips, pageVars, serverVars
  <1>2. /\ s \in SendStates /\ s.at \in {"idle", "listed"}
        /\ s.at = "listed" => /\ Submitted(s.copy) /\ s.copy.ids \subseteq s.copy.photos
                              /\ s.lease.actor = reporter.actor
    <2>1. CASE FlushLists
      <3>1. s.at = "listed" /\ s.lease = Lease /\ s.copy = stored /\ s \in SendStates
        BY <2>1, LeaseTyped, EmptyTyped DEF SendStates, TypeInv
      <3>2. stored # NoEnvelope /\ stored.by = actor
        BY <2>1 DEF FlushLists, NoEnvelope
      <3>3. Lease.actor = actor
        BY DEF Lease
      <3>4. QED
        BY <3>1, <3>2, <3>3 DEF CopiesSubmitted, Submitted, TypeInv
    <2>2. CASE ~FlushLists
      BY <2>2, EmptyTyped DEF Asleep
    <2>3. QED
      BY <2>1, <2>2
  <1> HIDE DEF s
  <1>3. /\ send' \in [Senders -> SendStates] /\ send'["flush"] = s
        /\ send'["page"] = send["page"]
    BY <1>1, <1>2 DEF TypeInv, Senders
  <1>4. TypeInv' /\ LockKept'
    BY <1>1, <1>2, <1>3 DEF TypeInv, LockKept, Busy
  <1>5. CopiesSubmitted'
    BY <1>1, <1>2, <1>3 DEF CopiesSubmitted, Submitted, Senders
  <1>6. HolderKnows'
    BY <1>1, <1>2, <1>3 DEF HolderKnows, Senders, Busy
  <1>7. QED
    BY <1>1, <1>4, <1>5, <1>6, FiledStays

\* The flush takes the lock and what is stored by then.
LEMMA CoreTakes ==
  ASSUME Core, FlushTakes PROVE Core'
  <1> USE DEF Core
  <1> DEFINE copy == [stored EXCEPT !.ids = Known(stored)]
             s == [send["flush"] EXCEPT !.at = "sending", !.copy = copy]
  <1>1. /\ send["flush"] \in SendStates /\ send["flush"].at = "listed"
        /\ holder = "none" /\ holder' = "flush" /\ send' = [send EXCEPT !["flush"] = s]
        /\ UNCHANGED <<stored, draft, reporter, pageOpen, volatileIds, copies, filed, faults>>
    BY DEF FlushTakes, ToSend, TypeInv, Senders, pageVars, serverVars
  <1>2. stored # NoEnvelope
    BY DEF FlushTakes, ToSend, NoEnvelope
  <1>3. /\ copy \in Envelopes /\ copy.rev = stored.rev /\ copy.by = stored.by
        /\ copy.photos = stored.photos
        /\ copy.ids = stored.ids \cup (volatileIds \cap stored.photos)
    BY DEF TypeInv, Envelopes, Known
  <1>4. Submitted(copy) /\ copy.ids \subseteq copy.photos
    BY <1>2, <1>3 DEF CopiesSubmitted, Submitted, TypeInv
  <1> HIDE DEF copy
  <1>5. s \in SendStates /\ s.at = "sending" /\ s.copy = copy /\ s.lease = send["flush"].lease
    BY <1>1, <1>3 DEF SendStates, Busy
  <1> HIDE DEF s
  <1>6. /\ send' \in [Senders -> SendStates] /\ send'["flush"] = s
        /\ send'["page"] = send["page"]
    BY <1>1, <1>5 DEF TypeInv, Senders
  <1>7. send["page"].at \notin {"locked"} \cup Busy
    BY <1>1 DEF LockKept
  <1>8. TypeInv' /\ LockKept'
    BY <1>1, <1>5, <1>6, <1>7 DEF TypeInv, LockKept, Busy, Senders
  <1>9. CopiesSubmitted'
    BY <1>1, <1>4, <1>5, <1>6 DEF CopiesSubmitted, Submitted, Senders
  <1>10. HolderKnows'
    BY <1>1, <1>3, <1>5, <1>6, <1>7 DEF HolderKnows, Senders, Busy
  <1>11. QED
    BY <1>1, <1>8, <1>9, <1>10, FiledStays

\* The driver tries a refused report again or gives it up.
LEMMA CoreReview ==
  ASSUME Core, TryAgain \/ DriverDiscards PROVE Core'
  <1> USE DEF Core
  <1>1. /\ stored # NoEnvelope
        /\ stored' = NoEnvelope \/ stored' = [stored EXCEPT !.status = "pending"]
        /\ UNCHANGED <<draft, reporter, pageOpen, holder, send, volatileIds, copies, filed,
                       faults>>
    BY DEF TryAgain, DriverDiscards, OwnRefused, NoEnvelope, pageVars, serverVars
  <1>2. /\ stored' \in Envelopes /\ stored'.ids \subseteq stored'.photos
        /\ stored' # NoEnvelope => /\ stored'.rev = stored.rev /\ stored'.by = stored.by
                                   /\ stored'.photos = stored.photos
    BY <1>1, EmptyTyped DEF TypeInv, Envelopes, NoEnvelope
  <1>3. TypeInv' /\ LockKept'
    BY <1>1, <1>2 DEF TypeInv, LockKept
  <1>4. CopiesSubmitted'
    BY <1>1, <1>2 DEF CopiesSubmitted, Submitted
  <1>5. HolderKnows'
    BY <1>1, <1>2 DEF HolderKnows
  <1>6. QED
    BY <1>1, <1>3, <1>4, <1>5, FiledStays

\* The session changes, or nothing does.
LEMMA CoreIdles ==
  ASSUME Core, UNCHANGED <<stored, pageVars, holder, send, volatileIds, serverVars, faults>>
  PROVE  Core'
  BY DEF Core, TypeInv, LockKept, CopiesSubmitted, Submitted, HolderKnows, FiledInv,
     FiledAsSubmitted, pageVars, serverVars

\* The app restarts.
LEMMA CoreRestart ==
  ASSUME Core, Restart PROVE Core'
  <1> USE DEF Core
  <1>1. /\ \A c \in Senders : send'[c] = Asleep /\ send'[c].at = "idle"
        /\ holder' = "none" /\ pageOpen' = FALSE /\ volatileIds' = {}
        /\ send' \in [Senders -> SendStates] /\ faults' \in 0..MaxFaults
        /\ UNCHANGED <<stored, draft, reporter, copies, filed>>
    <2>1. send' = [c \in Senders |-> Asleep] /\ Asleep.at = "idle"
      BY DEF Restart, Asleep
    <2>2. faults' \in 0..MaxFaults
      BY ReportsAssumption DEF Restart, Fault, TypeInv
    <2>3. QED
      BY <2>1, <2>2, EmptyTyped DEF Restart, serverVars
  <1>2. TypeInv' /\ LockKept'
    BY <1>1 DEF TypeInv, LockKept, Senders, Busy
  <1>3. CopiesSubmitted' /\ HolderKnows'
    BY <1>1 DEF CopiesSubmitted, Submitted, HolderKnows, Busy
  <1>4. QED
    BY <1>1, <1>2, <1>3, FiledStays
-----------------------------------------------------------------------------
(* Steps that store no second copy without a cause.                        *)

LEMMA CountsTyped ==
  Core /\ LeaseInv => faults \in Nat /\ generation \in Nat /\ copies \in [Photos -> Nat]
  BY LeaseAssumption, ReportsAssumption DEF Core, TypeInv, LeaseInv, LeaseTypeOK

LEMMA GrownSums ==
  ASSUME NEW n \in Nat, NEW f \in Nat, NEW g \in Nat, NEW ff \in Nat, NEW gg \in Nat,
         n <= 1 + f + g, ff + gg > f + g
  PROVE  n <= ff + gg
  OBVIOUS

\* No photo goes up, and an id is lost only with a fault or the session.
LEMMA CostKept ==
  ASSUME Core, LeaseInv, CopiesCost, (Core /\ LeaseInv)',
         filed' = NoReport => filed = NoReport /\ copies' = copies,
         faults' >= faults, generation' >= generation,
         filed' = NoReport => \A p \in Photos :
           IdIsHeld(p) /\ ~IdIsHeld(p)' => faults' + generation' > faults + generation
  PROVE  CopiesCost'
  <1> SUFFICES ASSUME filed' = NoReport, NEW p \in Photos
               PROVE  /\ copies'[p] <= 1 + faults' + generation'
                      /\ ~IdIsHeld(p)' => copies'[p] <= faults' + generation'
    BY DEF CopiesCost, IdIsHeld
  <1>1. /\ faults \in Nat /\ generation \in Nat /\ copies[p] \in Nat
        /\ faults' \in Nat /\ generation' \in Nat
    BY CountsTyped, LeaseAssumption, ReportsAssumption
    DEF Core, TypeInv, LeaseInv, LeaseTypeOK
  <1>2. copies'[p] = copies[p] /\ copies[p] <= 1 + faults + generation
    BY DEF CopiesCost
  <1>3. copies'[p] <= 1 + faults' + generation'
    BY <1>1, <1>2
  <1>4. ASSUME ~IdIsHeld(p)' PROVE copies'[p] <= faults' + generation'
    <2>1. CASE IdIsHeld(p)
      <3>1. faults' + generation' > faults + generation
        BY <1>4, <2>1 DEF IdIsHeld
      <3>2. QED
        BY <1>1, <1>2, <3>1, GrownSums
    <2>2. CASE ~IdIsHeld(p)
      <3>1. copies[p] <= faults + generation
        BY <2>2 DEF CopiesCost
      <3>2. QED
        BY <1>1, <1>2, <3>1
    <2>3. QED
      BY <2>1, <2>2
  <1>5. QED
    BY <1>3, <1>4

\* Only the sender with the lock can be waiting for an answer.
LEMMA OneIsAnswered ==
  ASSUME Core, NEW c \in Senders, send[c].at \in {"locked"} \cup Busy,
         NEW d \in Senders \ {c}, NEW p
  PROVE  ~Answered(d, p) /\ (Rest(d) => ~Answered(d, p)')
  BY DEF Core, LockKept, Answered, Rest, Senders, Busy

\* run ends, however it ends: the ids the session was given stay.
LEMMA CostEnding ==
  ASSUME Core, LeaseInv, CopiesCost, (Core /\ LeaseInv)', NEW c \in Senders,
         \/ StopSending(c) \/ Rejected(c) \/ Unanswered(c)
         \/ \E removed \in BOOLEAN : Acknowledged(c, removed)
  PROVE  CopiesCost'
  <1>1. UNCHANGED <<leaseVars, copies, filed, faults>> /\ send[c].at \in Busy
    BY DEF StopSending, Rejected, Unanswered, Acknowledged, serverVars, Busy
  <1>2. faults' >= faults /\ generation' >= generation
    BY <1>1, CountsTyped DEF leaseVars
  <1>3. ASSUME filed = NoReport, NEW p \in Photos, IdIsHeld(p) PROVE IdIsHeld(p)'
    <2>1. ~Answered(c, p)
      BY DEF StopSending, Rejected, Unanswered, Acknowledged, Answered, Seen
    <2>2. p \in volatileIds
      BY <1>1, <1>3, <2>1, OneIsAnswered DEF IdIsHeld
    <2>3. volatileIds' = volatileIds
      BY <1>3 DEF StopSending, Rejected, Unanswered, Acknowledged, Seen, Core, HolderKnows, Busy
    <2>4. QED
      BY <2>2, <2>3 DEF IdIsHeld
  <1>4. QED
    BY <1>1, <1>2, <1>3, CostKept

\* One photo goes up: nobody has its id, so the copies so far are paid for.
LEMMA CostSendPhoto ==
  ASSUME Core, LeaseInv, CopiesCost, (Core /\ LeaseInv)', NEW c \in Senders,
         NEW q \in Photos, NEW ans \in Answers, SendPhoto(c, q, ans)
  PROVE  CopiesCost'
  <1> SUFFICES ASSUME filed' = NoReport, NEW p \in Photos
               PROVE  /\ copies'[p] <= 1 + faults' + generation'
                      /\ ~IdIsHeld(p)' => copies'[p] <= faults' + generation'
    BY DEF CopiesCost
  <1>1. /\ send[c].at = "sending" /\ send[c].at \in Busy /\ MaySend(c) /\ q \in Missing(c)
        /\ UNCHANGED <<leaseVars, volatileIds, filed>> /\ generation' = generation
        /\ faults' = IF ans = "lost" THEN faults + 1 ELSE faults
        /\ copies' = IF ans = "refused" THEN copies ELSE [copies EXCEPT ![q] = @ + 1]
    BY DEF SendPhoto, FaultIf, Fault, Busy, leaseVars
  <1>2. faults \in Nat /\ generation \in Nat /\ copies[p] \in Nat /\ copies[q] \in Nat
    BY CountsTyped
  <1>3. /\ send'[c].at = "uploaded" /\ send'[c].photo = {q} /\ send'[c].ans = ans
        /\ send'[c].lease = send[c].lease /\ \A d \in Senders \ {c} : send'[d] = send[d]
    BY DEF SendPhoto, Core, TypeInv, SendStates
  <1>4. MaySend(c)'
    BY <1>1, <1>3 DEF MaySend, LeaseIsCurrent, Lease, leaseVars
  <1>5. \A r \in Photos : IdIsHeld(r) <=> r \in volatileIds
    BY <1>1, OneIsAnswered DEF IdIsHeld, Answered
  <1>6. q \notin volatileIds
    BY <1>1 DEF Missing, Core, HolderKnows
  <1>7. /\ copies[p] <= 1 + faults + generation
        /\ p \notin volatileIds => copies[p] <= faults + generation
    BY <1>1, <1>5 DEF CopiesCost
  <1>8. p \in volatileIds \/ (p = q /\ ans = "ok") => IdIsHeld(p)'
    BY <1>1, <1>3, <1>4 DEF IdIsHeld, Answered
  <1>9. copies'[p] = IF p = q /\ ans # "refused" THEN copies[p] + 1 ELSE copies[p]
    BY <1>1 DEF Core, TypeInv
  <1> HIDE DEF IdIsHeld
  <1>10. ans \in {"ok", "lost", "refused"}
    BY DEF Answers
  <1>11. CASE p = q
    BY <1>1, <1>2, <1>6, <1>7, <1>8, <1>9, <1>10, <1>11
  <1>12. CASE p # q
    BY <1>1, <1>2, <1>7, <1>8, <1>9, <1>12
  <1>13. QED
    BY <1>11, <1>12

\* The report goes up.
LEMMA CostPost ==
  ASSUME Core, LeaseInv, CopiesCost, (Core /\ LeaseInv)', NEW c \in Senders,
         NEW ans \in Answers, NEW arrives \in BOOLEAN, Post(c, ans, arrives)
  PROVE  CopiesCost'
  <1>1. /\ UNCHANGED <<leaseVars, volatileIds, copies>> /\ generation' = generation
        /\ send[c].at = "sending" /\ send[c].at \in Busy
        /\ faults' = faults \/ faults' = faults + 1
        /\ filed # NoReport => filed' = filed
    BY DEF Post, leaseVars, FaultIf, Fault, Busy
  <1>2. faults' >= faults /\ generation' >= generation
    BY <1>1, CountsTyped
  <1>3. ASSUME NEW p \in Photos, IdIsHeld(p) PROVE IdIsHeld(p)'
    BY <1>1, <1>3, OneIsAnswered DEF IdIsHeld, Answered
  <1>4. QED
    BY <1>1, <1>2, <1>3, CostKept

\* The session is given the id it waited for.
LEMMA CostTakePhoto ==
  ASSUME Core, LeaseInv, CopiesCost, (Core /\ LeaseInv)', NEW c \in Senders,
         NEW recorded \in BOOLEAN, TakePhoto(c, recorded)
  PROVE  CopiesCost'
  <1>1. /\ UNCHANGED <<leaseVars, copies, filed, faults>> /\ send[c].at = "uploaded"
        /\ send[c].at \in Busy /\ volatileIds' = volatileIds \cup send[c].photo
    BY DEF TakePhoto, serverVars, Busy
  <1>2. faults' >= faults /\ generation' >= generation
    BY <1>1, CountsTyped DEF leaseVars
  <1>3. ASSUME NEW p \in Photos, IdIsHeld(p) PROVE IdIsHeld(p)'
    BY <1>1, <1>3, OneIsAnswered DEF IdIsHeld, Answered
  <1>4. QED
    BY <1>1, <1>2, <1>3, CostKept

\* Steps that leave every answer awaited, and the server, as they are.
LEMMA CostElsewhere ==
  ASSUME Core, LeaseInv, CopiesCost, (Core /\ LeaseInv)',
         UNCHANGED <<leaseVars, volatileIds, copies, filed, faults>>,
         \A c \in Senders : send'[c] = send[c] \/ send[c].at # "uploaded"
  PROVE  CopiesCost'
  <1>1. faults' >= faults /\ generation' >= generation
    BY CountsTyped DEF leaseVars
  <1>2. ASSUME NEW p \in Photos, IdIsHeld(p) PROVE IdIsHeld(p)'
    <2>1. ASSUME NEW c \in Senders, Answered(c, p) PROVE Answered(c, p)'
      BY <2>1 DEF Answered, MaySend, LeaseIsCurrent, Lease, leaseVars
    <2>2. QED
      BY <1>2, <2>1 DEF IdIsHeld
  <1>3. QED
    BY <1>1, <1>2, CostKept

\* A change of session counts, or leaves a current lease current.
LEMMA CostSession ==
  ASSUME Core, LeaseInv, CopiesCost, (Core /\ LeaseInv)', ChangeSession
  PROVE  CopiesCost'
  <1>1. SessionStep /\ UNCHANGED <<send, volatileIds, copies, filed, faults>>
    BY DEF ChangeSession, serverVars
  <1>2. generation' >= generation /\ faults' >= faults
    BY <1>1, GenerationFixesTheAccount, CountsTyped
  <1>3. generation' = generation /\ actor # NoDriver => actor' = actor
    BY <1>1, LeaseAssumption
    DEF SessionStep, Observe, SignOut, ProfileAnswer, NewGeneration, MayBind, LeaseInv,
        LeaseTypeOK, LookupsFitTheSession, ActorIsTheSession
  <1>4. ASSUME NEW p \in Photos, IdIsHeld(p), generation' = generation PROVE IdIsHeld(p)'
    <2>1. ASSUME NEW c \in Senders, Answered(c, p) PROVE Answered(c, p)'
      <3>1. MaySend(c)'
        BY <1>1, <1>3, <1>4, <2>1 DEF Answered, MaySend, LeaseIsCurrent, Lease
      <3>2. QED
        BY <1>1, <2>1, <3>1 DEF Answered
    <2>2. QED
      BY <1>1, <1>4, <2>1 DEF IdIsHeld
  <1>5. generation' # generation => faults' + generation' > faults + generation
    BY <1>1, <1>2, CountsTyped, LeaseAssumption DEF LeaseInv, LeaseTypeOK
  <1>6. QED
    BY <1>1, <1>2, <1>4, <1>5, CostKept

LEMMA CostRestart ==
  ASSUME Core, LeaseInv, CopiesCost, (Core /\ LeaseInv)', Restart
  PROVE  CopiesCost'
  <1>1. faults' = faults + 1 /\ generation' = generation /\ copies' = copies /\ filed' = filed
    BY DEF Restart, Fault, ForgetLease, serverVars
  <1>2. /\ faults' >= faults /\ generation' >= generation
        /\ faults' + generation' > faults + generation
    BY <1>1, CountsTyped
  <1>3. QED
    BY <1>1, <1>2, CostKept
-----------------------------------------------------------------------------
(* Every step.                                                             *)

\* Every step is one of these.
LEMMA StepKinds ==
  ASSUME [Next]_vars
  PROVE  \/ \E photos \in SUBSET Photos : Press(photos)
         \/ \E saved, durable \in BOOLEAN : SaveAndSend(saved, durable)
         \/ \E c \in Senders :
              \/ StopSending(c) \/ Rejected(c) \/ Unanswered(c)
              \/ \E removed \in BOOLEAN : Acknowledged(c, removed)
         \/ \E c \in Senders, p \in Photos, ans \in Answers : SendPhoto(c, p, ans)
         \/ \E c \in Senders, ans \in Answers, arrives \in BOOLEAN : Post(c, ans, arrives)
         \/ \E c \in Senders, recorded \in BOOLEAN : TakePhoto(c, recorded)
         \/ FlushLists \/ FlushSkips \/ FlushTakes
         \/ TryAgain \/ DriverDiscards \/ ChangeSession \/ Restart
         \/ UNCHANGED vars
  <1>1. ASSUME NEW c \in Senders, SenderStep(c)
        PROVE  \/ \E d \in Senders :
                    \/ StopSending(d) \/ Rejected(d) \/ Unanswered(d)
                    \/ \E removed \in BOOLEAN : Acknowledged(d, removed)
               \/ \E d \in Senders, p \in Photos, ans \in Answers : SendPhoto(d, p, ans)
               \/ \E d \in Senders, ans \in Answers, arrives \in BOOLEAN : Post(d, ans, arrives)
               \/ \E d \in Senders, recorded \in BOOLEAN : TakePhoto(d, recorded)
    BY <1>1 DEF SenderStep
  <1>2. "page" \in Senders /\ "flush" \in Senders
    BY DEF Senders
  <1>3. QED
    BY <1>1, <1>2 DEF Next, PageStep, FlushStep

LEMMA LeaseStep == ASSUME LeaseInv, [Next]_vars PROVE LeaseInv'
  <1>1. SessionStep \/ ForgetLease \/ UNCHANGED leaseVars
    BY StepKinds DEF Press, SaveAndSend, StopSending, Rejected, Unanswered, Acknowledged,
       SendPhoto, Post, TakePhoto, FlushLists, FlushSkips, FlushTakes, TryAgain,
       DriverDiscards, ChangeSession, Restart, vars
  <1>2. QED
    BY <1>1, LeaseInvStep, LeaseInvForget, LeaseInvStutter

LEMMA CoreStep == ASSUME Core, LeaseInv, [Next]_vars PROVE Core'
  <1>1. ASSUME ChangeSession \/ UNCHANGED vars PROVE Core'
    BY <1>1, CoreIdles DEF ChangeSession, vars
  <1>2. QED
    BY <1>1, StepKinds, CorePress, CoreSave, CoreEnding, CoreSendPhoto, CorePost,
       CoreTakePhoto, CoreLists, CoreTakes, CoreReview, CoreRestart

LEMMA CostStep ==
  ASSUME Core, LeaseInv, CopiesCost, [Next]_vars, (Core /\ LeaseInv)'
  PROVE  CopiesCost'
  <1>1. send["page"] \in SendStates /\ send["flush"] \in SendStates /\ Senders = {"page", "flush"}
    BY DEF Core, TypeInv, Senders
  <1>2. ASSUME NEW photos \in SUBSET Photos, Press(photos) PROVE CopiesCost'
    <2>1. /\ UNCHANGED <<leaseVars, volatileIds, copies, filed, faults>>
          /\ send["page"].at = "idle" /\ send'["flush"] = send["flush"]
      BY <1>1, <1>2 DEF Press, serverVars, Core, TypeInv
    <2>2. QED
      BY <1>1, <2>1, CostElsewhere
  <1>3. ASSUME NEW saved, NEW durable, SaveAndSend(saved, durable) PROVE CopiesCost'
    <2>1. /\ UNCHANGED <<leaseVars, volatileIds, copies, filed, faults>>
          /\ send["page"].at = "locked"
      BY <1>3 DEF SaveAndSend, serverVars
    <2>2. send["flush"].at # "uploaded"
      BY <2>1 DEF Core, LockKept, Busy
    <2>3. QED
      BY <1>1, <2>1, <2>2, CostElsewhere
  <1>4. ASSUME FlushLists \/ FlushSkips \/ FlushTakes PROVE CopiesCost'
    <2>1. /\ UNCHANGED <<leaseVars, volatileIds, copies, filed, faults>>
          /\ send["flush"].at \in {"idle", "listed"} /\ send'["page"] = send["page"]
      BY <1>1, <1>4 DEF FlushLists, FlushSkips, FlushTakes, serverVars, Core, TypeInv
    <2>2. QED
      BY <1>1, <2>1, CostElsewhere
  <1>5. ASSUME TryAgain \/ DriverDiscards \/ UNCHANGED vars PROVE CopiesCost'
    <2>1. UNCHANGED <<leaseVars, volatileIds, copies, filed, faults, send>>
      BY <1>5 DEF TryAgain, DriverDiscards, serverVars, vars
    <2>2. QED
      BY <2>1, CostElsewhere
  <1>6. QED
    BY <1>2, <1>3, <1>4, <1>5, StepKinds, CostEnding, CostSendPhoto, CostPost, CostTakePhoto,
       CostSession, CostRestart

LEMMA ReportStep == ReportInv /\ [Next]_vars => ReportInv'
  BY LeaseStep, CoreStep, CostStep DEF ReportInv, Core

LEMMA ReportAlways == Spec => []ReportInv
  BY ReportInit, ReportStep, PTL DEF Spec
-----------------------------------------------------------------------------
\* Every variable keeps its type, and an envelope has no id of a photo that
\* is not in it (saveExceptionEnvelope, recordUploadedArtifact).
THEOREM TypeCorrect == Spec => []TypeOK
  <1>1. ReportInv => TypeOK
    BY DEF ReportInv, LeaseInv, TypeInv, TypeOK, SendStates, Reports, Busy
  <1>2. QED
    BY <1>1, ReportAlways, PTL

\* Whichever sender posts the report, and whatever the driver wrote or
\* whoever signed in meanwhile, what the server files is one whole revision
\* under its own driver's name (run in exception-sync.ts).
THEOREM FiledIsAsSubmitted == Spec => []FiledAsSubmitted
  <1>1. ReportInv => FiledAsSubmitted
    BY DEF ReportInv, FiledInv, FiledAsSubmitted
  <1>2. QED
    BY <1>1, ReportAlways, PTL

\* Until the report is filed, each photo is stored once, and once more at
\* most for each lost answer, restart or change of account: the ids are found
\* again by a resend, a second revision and the other sender.
THEOREM SecondCopyIsPaidFor == Spec => []SecondCopyHasACause
  <1>1. ReportInv => SecondCopyHasACause
    BY DEF ReportInv, CopiesCost, SecondCopyHasACause
  <1>2. QED
    BY <1>1, ReportAlways, PTL

\* An acknowledgement removes only the revision it is for: the lock is held
\* from the copy that was sent to the delete, and the page saves under it.
THEOREM RemovalIsExact == Spec => RemovesOnlyWhatItSent
  <1> DEFINE removes == stored # NoEnvelope /\ stored' = NoEnvelope
             exact == \/ DriverDiscards
                      \/ \E c \in Senders : /\ send[c].at = "posted" /\ send'[c].at = "idle"
                                            /\ send[c].copy.rev = stored.rev
  <1>1. ASSUME ReportInv, [Next]_vars, removes PROVE exact
    <2>1. Core /\ TypeInv
      BY <1>1 DEF ReportInv, Core
    <2>2. ASSUME NEW c \in Senders, NEW removed \in BOOLEAN, Acknowledged(c, removed) PROVE exact
      <3>1. /\ send[c].at = "posted" /\ send[c].at \in Busy /\ send[c].durable /\ Ends(c)
        BY <1>1, <2>2 DEF Acknowledged, Busy
      <3>2. send'[c] = Asleep /\ Asleep.at = "idle"
        BY <2>1, <3>1, EndsReleases DEF Core, Asleep
      <3>3. send[c].copy.rev = stored.rev
        BY <1>1, <2>1, <3>1 DEF Core, HolderKnows
      <3>4. QED
        BY <3>1, <3>2, <3>3
    <2>3. stored.rev # 0
      BY <1>1, <2>1 DEF Core, CopiesSubmitted, Submitted
    <2>4. stored'.rev = 0
      BY <1>1 DEF NoEnvelope
    <2>5. ASSUME NEW saved, NEW durable, SaveAndSend(saved, durable) PROVE FALSE
      <3>1. send["page"] \in SendStates /\ send["page"].at = "locked" /\ "page" \in Senders
        BY <2>1, <2>5 DEF SaveAndSend, TypeInv, Senders
      <3>2. send["page"].copy.rev # 0 /\ send["page"].copy \in Envelopes
        BY <2>1, <3>1 DEF Core, CopiesSubmitted, Submitted, SendStates
      <3>3. Merged(send["page"].copy).rev = send["page"].copy.rev
        BY <3>2 DEF Merged, Envelopes
      <3>4. QED
        BY <2>3, <2>4, <2>5, <3>2, <3>3 DEF SaveAndSend
    <2>6. ASSUME stored' = stored \/ (\E e \in SUBSET Photos : stored' = [stored EXCEPT !.ids = e])
                 \/ (\E x \in {"pending", "needs-attention"} : stored' = [stored EXCEPT !.status = x])
          PROVE  FALSE
      BY <2>1, <2>3, <2>4, <2>6 DEF TypeInv, Envelopes
    <2>7. ASSUME NEW c \in Senders, NEW recorded \in BOOLEAN, TakePhoto(c, recorded) PROVE FALSE
      <3>1. send[c] \in SendStates
        BY <2>1 DEF TypeInv
      <3>2. stored.ids \cup send[c].photo \in SUBSET Photos
        BY <2>1, <3>1 DEF TypeInv, Envelopes, SendStates
      <3>3. \/ stored' = stored
            \/ stored' = [stored EXCEPT !.ids = stored.ids \cup send[c].photo]
        BY <2>7 DEF TakePhoto
      <3>4. QED
        BY <2>6, <3>2, <3>3
    <2>8. ASSUME NEW c \in Senders, Rejected(c) PROVE FALSE
      BY <2>6, <2>8 DEF Rejected
    <2>9. ASSUME TryAgain PROVE FALSE
      BY <2>6, <2>9 DEF TryAgain
    <2>10. stored' # stored
      BY <2>6
    <2>11. QED
      BY <2>2, <2>5, <2>7, <2>8, <2>9, <2>10, StepKinds, <1>1
      DEF Press, StopSending, Unanswered, SendPhoto, Post, FlushLists, FlushSkips, FlushTakes,
          ChangeSession, Restart, vars
  <1>2. ReportInv /\ [Next]_vars =>
          [stored # NoEnvelope /\ stored' = NoEnvelope
             => DriverDiscards
                \/ \E c \in Senders : /\ send[c].at = "posted"
                                      /\ send'[c].at = "idle"
                                      /\ send[c].copy.rev = stored.rev]_vars
    BY <1>1
  <1>3. QED
    BY <1>2, ReportAlways, PTL DEF Spec, RemovesOnlyWhatItSent
=============================================================================
