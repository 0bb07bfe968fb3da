-------------------------- MODULE ExceptionReports --------------------------
(***************************************************************************)
(* One exception report on the driver's phone, with its photos.            *)
(* src/frontend/driver-pwa: lib/offline/exception-sync.ts and              *)
(* exception-store.ts, the report functions of lib/hooks/useOfflineQueue   *)
(* and the report page.                                                    *)
(*                                                                         *)
(* Two senders share the report: the page, which saves and sends what the  *)
(* driver has written, and the background flush, which sends what is       *)
(* stored.  A lock per report keeps them apart.  Photos go up one request  *)
(* at a time, then the report is posted with all their ids, always under   *)
(* the same client_report_id: the server answers a second one with the     *)
(* first.  The session may change, and the app restart, at any point.      *)
(***************************************************************************)
EXTENDS ActorLease, Sequences

CONSTANTS
  Photos,
  MaxRevisions,     \* bound: times the driver presses Submit
  MaxFaults         \* bound: lost answers and restarts

ASSUME ReportsAssumption == MaxRevisions \in Nat /\ MaxFaults \in Nat

VARIABLES
  \* the phone's storage (IndexedDB)
  stored,           \* the saved envelope, or NoEnvelope
  \* the phone's memory
  draft,            \* the photos of each revision the page has submitted
  reporter,         \* the lease under which the page is open
  pageOpen,
  holder,           \* who holds the report's lock
  send,             \* what each sender is doing
  volatileIds,      \* photos whose artifact id this session knows
  \* the server
  copies,           \* how often each photo was stored before the report was
  filed,            \* the report, or NoReport
  faults

serverVars == <<copies, filed>>
pageVars == <<draft, reporter, pageOpen>>
vars == <<leaseVars, stored, pageVars, holder, send, volatileIds, serverVars,
          faults>>
-----------------------------------------------------------------------------
Senders == {"page", "flush"}
Revisions == 1..MaxRevisions

NoEnvelope == [rev |-> 0, by |-> NoDriver, status |-> "none", photos |-> {},
               ids |-> {}]
NoReport == [rev |-> 0, by |-> NoDriver, photos |-> {}]
NoLease == [actor |-> NoDriver, gen |-> 0]

Asleep == [at |-> "idle", lease |-> NoLease, copy |-> NoEnvelope,
           durable |-> TRUE, photo |-> {}, ans |-> "none"]

Fault == faults < MaxFaults /\ faults' = faults + 1
FaultIf(failed) == IF failed THEN Fault ELSE UNCHANGED faults

\* mutant: the lease is not asked between requests
LeaseNotAsked(c) == TRUE
\* isActorLeaseCurrent, for the lease the sender took when it began
MaySend(c) == LeaseIsCurrent(send[c].lease)

\* mutant: the lock is freed and nobody is woken
NobodyWoken(next) == [holder |-> "none", send |-> next]

(* releaseReportLock: the lock goes to the page when it is waiting.        *)
AfterRelease(next) ==
  IF next["page"].at = "waiting"
  THEN [holder |-> "page", send |-> [next EXCEPT !["page"].at = "locked"]]
  ELSE [holder |-> "none", send |-> next]

Ends(c) ==
  LET after == AfterRelease([send EXCEPT ![c] = Asleep])
  IN holder' = after.holder /\ send' = after.send

\* the page is left once its report is filed, saved, or not its driver's
Leave(c) == pageOpen' = (pageOpen /\ c # "page")

\* mutant: only the envelope's own ids are asked
EnvelopeOnly(copy) == copy.ids
\* ids known from the envelope or from this session's memory
Known(copy) == copy.ids \cup (volatileIds \cap copy.photos)
-----------------------------------------------------------------------------
(* The page: submitExceptionReport.                                        *)

(* The press, with the page's bounded wait for a position as part of it.   *)
(* The report belongs to whoever is signed in, and a page does not outlive *)
(* its session.                                                            *)
Press(photos) ==
  LET copy == [rev |-> Len(draft) + 1, by |-> actor, status |-> "pending",
               photos |-> photos, ids |-> {}]
      locked == holder = "none"
  IN /\ pageOpen /\ send["page"].at = "idle"
     /\ Len(draft) < MaxRevisions
     /\ actor # NoDriver
     /\ draft # <<>> => LeaseIsCurrent(reporter)
     /\ draft' = Append(draft, photos)
     /\ reporter' = Lease
     /\ holder' = IF locked THEN "page" ELSE holder
     /\ send' = [send EXCEPT !["page"] =
          [Asleep EXCEPT !.at = IF locked THEN "locked" ELSE "waiting",
                         !.lease = Lease, !.copy = copy]]
     /\ UNCHANGED <<leaseVars, stored, pageOpen, volatileIds, serverVars,
                    faults>>

\* mutant: the ids of photos taken out of the report stay
KeepsEveryId(copy) == [copy EXCEPT !.ids = stored.ids]
\* saveExceptionEnvelope: ids recorded for the same photos are kept
Merged(copy) == [copy EXCEPT !.ids = stored.ids \cap copy.photos]

(* Under the lock: save, read back, and go on with the stored copy.        *)
(* Storage may refuse either; the page then sends its own copy, as one     *)
(* that is not stored.                                                     *)
SaveAndSend(saved, durable) ==
  LET copy == send["page"].copy
      kept == IF durable THEN Merged(copy) ELSE copy
  IN /\ send["page"].at = "locked"
     /\ durable => saved
     /\ stored' = IF saved THEN Merged(copy) ELSE stored
     /\ IF MaySend("page")
        THEN /\ send' = [send EXCEPT !["page"].at = "sending",
                 !["page"].durable = durable,
                 !["page"].copy = [kept EXCEPT !.ids = Known(kept)]]
             /\ UNCHANGED <<holder, pageOpen>>
        ELSE Ends("page") /\ Leave("page")
     /\ UNCHANGED <<leaseVars, draft, reporter, volatileIds, serverVars,
                    faults>>
-----------------------------------------------------------------------------
(* The flush: flushExceptionEnvelopes.                                     *)

(* The list holds what is pending and this driver's own.                   *)
FlushLists ==
  /\ send["flush"].at = "idle"
  /\ stored.status = "pending" /\ stored.by = actor
  /\ send' = [send EXCEPT !["flush"] =
       [Asleep EXCEPT !.at = "listed", !.lease = Lease, !.copy = stored]]
  /\ UNCHANGED <<leaseVars, stored, pageVars, holder, volatileIds, serverVars,
                 faults>>

\* mutant: what was listed is sent as it was listed
SendsTheOldList(listed) == listed

(* The lock is tried, never waited for.  By then the list may be old: what *)
(* is sent is read again under the lock, and run asks again whose it is.   *)
ToSend(listed) == stored

FlushSkips ==
  LET copy == ToSend(send["flush"].copy)
  IN /\ send["flush"].at = "listed"
     /\ \/ holder # "none"
        \/ ~MaySend("flush")
        \/ copy.status # "pending" \/ copy.by # actor
     /\ send' = [send EXCEPT !["flush"] = Asleep]
     /\ UNCHANGED <<leaseVars, stored, pageVars, holder, volatileIds,
                    serverVars, faults>>

FlushTakes ==
  LET copy == ToSend(send["flush"].copy)
  IN /\ send["flush"].at = "listed"
     /\ holder = "none" /\ MaySend("flush")
     /\ copy.status = "pending" /\ copy.by = actor
     /\ holder' = "flush"
     /\ send' = [send EXCEPT !["flush"].at = "sending",
          !["flush"].copy = [copy EXCEPT !.ids = Known(copy)]]
     /\ UNCHANGED <<leaseVars, stored, pageVars, volatileIds, serverVars,
                    faults>>
-----------------------------------------------------------------------------
(* Both senders: run.                                                      *)

Missing(c) == send[c].copy.photos \ send[c].copy.ids

(* The lease has ended between two requests: nothing more is sent.         *)
StopSending(c) ==
  /\ send[c].at = "sending"
  /\ ~MaySend(c)
  /\ Ends(c) /\ Leave(c)
  /\ UNCHANGED <<leaseVars, stored, draft, reporter, volatileIds, serverVars,
                 faults>>

(* A photo goes up.  A lost answer is that of an upload that arrived; the  *)
(* other kind leaves no trace.                                             *)
SendPhoto(c, p, ans) ==
  /\ send[c].at = "sending" /\ MaySend(c)
  /\ p \in Missing(c)
  /\ FaultIf(ans = "lost")
  /\ copies' = IF ans = "refused" \/ filed # NoReport THEN copies
               ELSE [copies EXCEPT ![p] = @ + 1]
  /\ send' = [send EXCEPT ![c].at = "uploaded", ![c].photo = {p},
                         ![c].ans = ans]
  /\ UNCHANGED <<leaseVars, stored, pageVars, holder, volatileIds, filed>>

Post(c, ans, arrives) ==
  /\ send[c].at = "sending" /\ MaySend(c)
  /\ Missing(c) = {}
  /\ ans = "ok" => arrives
  /\ ans = "refused" => ~arrives /\ filed = NoReport
  /\ FaultIf(ans = "lost")
  /\ filed' = IF arrives /\ filed = NoReport
              THEN [rev |-> send[c].copy.rev, by |-> subject,
                    photos |-> send[c].copy.ids]
              ELSE filed
  /\ send' = [send EXCEPT ![c].at = "posted", ![c].ans = ans]
  /\ UNCHANGED <<leaseVars, stored, pageVars, holder, volatileIds, copies>>

\* what run sees: an answer of an earlier session is dropped
Seen(c) == IF MaySend(c) THEN send[c].ans ELSE "lost"

(* An uploaded photo's id is known to the session at once, and to storage  *)
(* before the next upload, unless storage refuses the write.               *)
TakePhoto(c, recorded) ==
  LET photo == send[c].photo
      writes == recorded /\ send[c].durable /\ photo \subseteq stored.photos
  IN /\ send[c].at = "uploaded"
     /\ Seen(c) = "ok"
     /\ volatileIds' = volatileIds \cup photo
     /\ stored' = IF writes THEN [stored EXCEPT !.ids = @ \cup photo] ELSE stored
     /\ send' = [send EXCEPT ![c].at = "sending", ![c].photo = {},
                            ![c].copy.ids = @ \cup photo, ![c].ans = "none"]
     /\ UNCHANGED <<leaseVars, pageVars, holder, serverVars, faults>>

(* Acknowledged: the envelope goes, unless storage refuses the delete.     *)
Acknowledged(c, removed) ==
  /\ send[c].at = "posted"
  /\ Seen(c) = "ok"
  /\ volatileIds' = {}
  /\ stored' = IF removed /\ send[c].durable THEN NoEnvelope ELSE stored
  /\ Ends(c) /\ Leave(c)
  /\ UNCHANGED <<leaseVars, draft, reporter, serverVars, faults>>

(* Refused: kept for the driver, and the page stays to be corrected.       *)
Rejected(c) ==
  /\ send[c].at \in {"uploaded", "posted"}
  /\ Seen(c) = "refused"
  /\ stored' = IF send[c].durable /\ stored # NoEnvelope
               THEN [stored EXCEPT !.status = "needs-attention"] ELSE stored
  /\ Ends(c)
  /\ UNCHANGED <<leaseVars, pageVars, volatileIds, serverVars, faults>>

(* No answer: everything is kept; a page whose report was not stored says  *)
(* so and stays.                                                           *)
Unanswered(c) ==
  /\ send[c].at \in {"uploaded", "posted"}
  /\ Seen(c) = "lost"
  /\ IF send[c].durable THEN Leave(c) ELSE UNCHANGED pageOpen
  /\ Ends(c)
  /\ UNCHANGED <<leaseVars, stored, draft, reporter, volatileIds, serverVars,
                 faults>>
-----------------------------------------------------------------------------
(* The driver and a refused report: resetExceptionToPending and            *)
(* discardRetainedItem, which take no lock.                                *)
OwnRefused == stored.status = "needs-attention" /\ stored.by = actor

TryAgain ==
  /\ OwnRefused
  /\ stored' = [stored EXCEPT !.status = "pending"]
  /\ UNCHANGED <<leaseVars, pageVars, holder, send, volatileIds, serverVars,
                 faults>>

DriverDiscards ==
  /\ OwnRefused
  /\ stored' = NoEnvelope
  /\ UNCHANGED <<leaseVars, pageVars, holder, send, volatileIds, serverVars,
                 faults>>

ChangeSession ==
  /\ SessionStep
  /\ UNCHANGED <<stored, pageVars, holder, send, volatileIds, serverVars,
                 faults>>

(* The app restarts: the page, the lock and the remembered ids are gone.   *)
Restart ==
  /\ Fault
  /\ ForgetLease
  /\ pageOpen' = FALSE
  /\ holder' = "none"
  /\ send' = [c \in Senders |-> Asleep]
  /\ volatileIds' = {}
  /\ UNCHANGED <<stored, draft, reporter, serverVars>>
-----------------------------------------------------------------------------
Init ==
  /\ LeaseInit
  /\ stored = NoEnvelope
  /\ draft = <<>> /\ reporter = NoLease /\ pageOpen = TRUE
  /\ holder = "none"
  /\ send = [c \in Senders |-> Asleep]
  /\ volatileIds = {}
  /\ copies = [p \in Photos |-> 0] /\ filed = NoReport
  /\ faults = 0

Answers == {"ok", "lost", "refused"}

SenderStep(c) ==
  \/ StopSending(c)
  \/ \E p \in Photos, ans \in Answers : SendPhoto(c, p, ans)
  \/ \E ans \in Answers, arrives \in BOOLEAN : Post(c, ans, arrives)
  \/ \E recorded \in BOOLEAN : TakePhoto(c, recorded)
  \/ \E removed \in BOOLEAN : Acknowledged(c, removed)
  \/ Rejected(c) \/ Unanswered(c)

PageStep ==
  \/ \E saved, durable \in BOOLEAN : SaveAndSend(saved, durable)
  \/ SenderStep("page")
FlushStep == FlushSkips \/ FlushTakes \/ SenderStep("flush")

Next ==
  \/ \E photos \in SUBSET Photos : Press(photos)
  \/ PageStep
  \/ FlushLists \/ FlushStep
  \/ TryAgain \/ DriverDiscards
  \/ ChangeSession
  \/ Restart

Spec == Init /\ [][Next]_vars

(* A sender that has begun goes on: requests are answered or time out.     *)
Fairness == WF_vars(PageStep) /\ WF_vars(FlushStep)
FairSpec == Spec /\ Fairness
-----------------------------------------------------------------------------
Envelopes ==
  [rev: 0..MaxRevisions, by: Drivers \cup {NoDriver},
   status: {"none", "pending", "needs-attention"},
   photos: SUBSET Photos, ids: SUBSET Photos]

TypeOK ==
  /\ LeaseTypeOK
  /\ stored \in Envelopes /\ stored.ids \subseteq stored.photos
  /\ holder \in Senders \cup {"none"}
  /\ \A c \in Senders :
       /\ send[c].at \in {"idle", "waiting", "locked", "listed", "sending",
                          "uploaded", "posted"}
       /\ send[c].copy \in Envelopes
  /\ volatileIds \subseteq Photos
  /\ filed \in [rev: 0..MaxRevisions, by: Drivers \cup {NoDriver},
                photos: SUBSET Photos]
  /\ faults \in 0..MaxFaults

(* Until the report is filed, no photo is stored a second time on the      *)
(* server but for a lost answer, a restart or a change of account, one     *)
(* copy for each: a resend, a second revision, the other sender and a      *)
(* phone that cannot write to its storage all find the id again.           *)
SecondCopyHasACause ==
  filed = NoReport => \A p \in Photos : copies[p] <= 1 + faults + generation

(* What is filed is one whole revision of the report, with every photo the *)
(* driver put in it, under the name of the driver who submitted it;        *)
(* whichever sender posted it and whoever signed in meanwhile.             *)
FiledAsSubmitted ==
  filed # NoReport => /\ filed.photos = draft[filed.rev]
                      /\ filed.by = reporter.actor

(* An acknowledgement deletes only the revision it acknowledges: a newer   *)
(* one saved meanwhile stays on the phone.                                 *)
RemovesOnlyWhatItSent ==
  [][stored # NoEnvelope /\ stored' = NoEnvelope
       => DriverDiscards
          \/ \E c \in Senders : /\ send[c].at = "posted"
                                /\ send'[c].at = "idle"
                                /\ send[c].copy.rev = stored.rev]_vars

(* A driver who presses Submit is answered, though a background send may   *)
(* be holding the report at that moment.                                   *)
PressIsAnswered == (send["page"].at # "idle") ~> (send["page"].at = "idle")
=============================================================================
