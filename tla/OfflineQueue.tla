---------------------------- MODULE OfflineQueue ----------------------------
(***************************************************************************)
(* The driver's evidence between the swipe and the server's answer, on one *)
(* phone that several drivers sign in to, for one trip.                    *)
(* src/frontend/driver-pwa: lib/hooks/useOfflineQueue.ts,                  *)
(* lib/submission/phase-submitter.ts, lib/offline/*.ts, the phase step and *)
(* checkpoint screens, lib/context/TripContext.tsx.                        *)
(*                                                                         *)
(* Durable on the phone: the queue, one draft per phase, retained drafts.  *)
(* In memory: the requests in progress, the flush, the copy of the trip    *)
(* and its optimistic markers; a reload loses them.  The server is reduced *)
(* to the answers src/backend gives a driver's write (module TripLedger):  *)
(* rows are decided in order, and a write is admitted for the current      *)
(* holder in the current custody period, or as that driver's own replay.   *)
(***************************************************************************)
EXTENDS ActorLease, Sequences, Functions, FiniteSets

CONSTANTS
  Rows,             \* the trip has phases 1..Rows left for its drivers
  Custody,          \* the driver of each custody period, period 0 first
  MaxCaptures,      \* bound: attempts (idempotency keys) in one behaviour
  MaxFaults         \* bound: lost answers, refused writes and restarts

ASSUME QueueAssumption ==
  /\ Rows \in Nat \ {0}
  /\ Custody \in Seq(Drivers) /\ Len(Custody) > 0
  /\ MaxCaptures \in Nat /\ MaxFaults \in Nat

VARIABLES
  \* the server
  period,           \* current custody period
  rows,             \* who decided each row, with which key
  logged,           \* checkpoints the server holds
  receipts,         \* captures the server keeps as late evidence
  stray,            \* requests abandoned by the phone, perhaps still to land
  \* the phone's storage
  queue,            \* fp_offline_queue, each entry with its place in line
  drafts,           \* fp_draft_<trip>_<phase>
  retained,         \* fp_retained_draft_<id>
  \* the phone's memory
  trip,             \* TripContext's copy of the trip
  syncing,          \* phases shown resolved while their submission runs
  captures,         \* what each attempt carries, by key
  wire,             \* the progress of each attempt's request
  flush,            \* flushQueue
  late,             \* sendLateEvidence
  faults            \* how many have happened

serverVars == <<period, rows, logged, receipts>>
storageVars == <<queue, drafts, retained>>
memoryVars == <<trip, syncing, captures, wire, flush, late>>
vars == <<leaseVars, serverVars, stray, storageVars, memoryVars, faults>>
-----------------------------------------------------------------------------
Phases == 1..Rows
Checkpoint == 0                  \* a capture that belongs to no row
Keys == 1..MaxCaptures
Periods == 0..(Len(Custody) - 1)
HolderOf(s) == Custody[s + 1]
Holder == HolderOf(period)
PastHolders == {HolderOf(s) : s \in 0..period}

NoItem == [by |-> NoDriver, seq |-> 0, phase |-> 0]
NoTrip == [seq |-> 0, done |-> Rows, open |-> FALSE]

Items == [by: Drivers, seq: Periods, phase: Phases \cup {Checkpoint}]
IsPhase(k) == captures[k].phase \in Phases

Open == [state |-> "open", key |-> 0, by |-> NoDriver]
Overridden == [state |-> "overridden", key |-> 0, by |-> NoDriver]
DoneBy(d, k) == [state |-> "done", key |-> k, by |-> d]

\* rows are decided in sequence, so the open ones are those after Decided
Decided == Cardinality({p \in Phases : rows[p] # Open})
-----------------------------------------------------------------------------
(* The server's answer to a driver's write: POST .../complete and          *)
(* .../checkpoints as module TripLedger has them, with the driver of the   *)
(* token, the period claimed and the idempotency key.                      *)

Held(k, d) ==
  IF IsPhase(k) THEN rows[captures[k].phase] = DoneBy(d, k)
  ELSE [key |-> k, by |-> d] \in logged

\* mutant: custody is asked before the replay is looked for
GateBeforeReplay(k, d) == "handed_over"
\* a driver who has held the trip and does not hold it now
FormerAnswer(k, d) == IF Held(k, d) THEN "duplicate" ELSE "handed_over"

Answer(k, d) ==
  LET row == rows[captures[k].phase]
  IN IF d \notin PastHolders THEN "refused"
     ELSE IF d # Holder THEN FormerAnswer(k, d)
     ELSE IF captures[k].seq # period /\ ~Held(k, d) THEN "period_changed"
     ELSE IF ~IsPhase(k) THEN "recorded"
     ELSE IF row.state = "overridden" THEN "overridden"
     ELSE IF \/ row.state = "done" /\ (period = 0 \/ Held(k, d))
             \/ row.state = "open" /\ captures[k].phase = Decided + 1
     THEN "recorded" ELSE "refused"

Takes(k, d) == Answer(k, d) = "recorded" /\ ~Held(k, d)

Receive(k, d) ==
  /\ rows' = IF Takes(k, d) /\ IsPhase(k) /\ rows[captures[k].phase] = Open
             THEN [rows EXCEPT ![captures[k].phase] = DoneBy(d, k)] ELSE rows
  /\ logged' = IF Takes(k, d) /\ ~IsPhase(k)
               THEN logged \cup {[key |-> k, by |-> d]} ELSE logged
  /\ UNCHANGED <<period, receipts>>

(* Meanwhile, elsewhere: a handover completes, dispatch overrides the      *)
(* current row, the holder completes it from another phone.                *)
HandOver ==
  /\ period + 1 \in Periods
  /\ Decided < Rows
  /\ period' = period + 1
  /\ UNCHANGED <<leaseVars, rows, logged, receipts, stray, storageVars,
                 memoryVars, faults>>

Decide(row) ==
  /\ Decided < Rows
  /\ rows' = [rows EXCEPT ![Decided + 1] = row]
  /\ UNCHANGED <<leaseVars, period, logged, receipts, stray, storageVars,
                 memoryVars, faults>>

Override == Decide(Overridden)
CompleteElsewhere == subject # Holder /\ Decide(DoneBy(Holder, 0))
-----------------------------------------------------------------------------
(* The queue in storage.  An entry names who it is to be sent as, and an   *)
(* entry the server refused carries the refusal.                           *)

Pending(k, d) == [place |-> 0, key |-> k, by |-> d, status |-> "pending",
                  code |-> "none", late |-> FALSE]

ConflictCodes == {"handed_over", "period_changed"}     \* isCustodyConflict
Refusals == ConflictCodes \cup {"overridden", "refused"}

\* retainedAttention
Refused(entry, code) ==
  [entry EXCEPT !.status = "needs-attention", !.code = code,
                !.late = code \in ConflictCodes]

NeverLive(entry) == entry.code \in ConflictCodes \cup {"overridden"}

Without(keys) == {e \in queue : e.key \notin keys}
First(es) == {e \in es : \A o \in es : e.place <= o.place}

Fault == faults < MaxFaults /\ faults' = faults + 1

Behind(n) == \A e \in queue : e.place < n
NextInLine(n) == Behind(n) /\ \A m \in 1..(n - 1) : ~Behind(m)

(* enqueuePhase and enqueueCheckpoint: at the end of the line, unless      *)
(* storage refuses the write.                                              *)
Enqueue(entry, persisted) ==
  IF persisted
  THEN /\ \E n \in Keys : /\ NextInLine(n)
                         /\ queue' = queue \cup {[entry EXCEPT !.place = n]}
       /\ UNCHANGED faults
  ELSE UNCHANGED queue /\ Fault
-----------------------------------------------------------------------------
(* Requests.  One attempt goes through the uploads and the POST.  The      *)
(* generation it belongs to is asserted before the POST, and the answer is *)
(* dropped when the generation has moved on (api/client.ts).  The server   *)
(* decides as the POST leaves; the answer is taken up later, and a request *)
(* that is overtaken on its way is one that is lost and lands.             *)

At(stage, g) ==
  [at |-> stage, gen |-> g, by |-> NoDriver, ans |-> "none", done |-> 0]
Idle == At("idle", 0)

Current(k) == wire[k].gen = generation          \* assertActorGeneration
Flushing(k) == flush.on /\ flush.key = k

\* what the caller of the request sees once it has settled
Outcome(k) == IF Current(k) THEN wire[k].ans ELSE "account_changed"

Reply(k, by, ans, done) ==
  wire' = [wire EXCEPT ![k] = [at |-> "answered", gen |-> wire[k].gen,
                               by |-> by, ans |-> ans, done |-> done]]

Ask(k, ans) ==
  Reply(k, subject, ans, Cardinality({p \in Phases : rows'[p] # Open}))

Post(k) ==
  /\ wire[k].at = "upload"
  /\ IF Current(k)
     THEN Receive(k, subject) /\ Ask(k, Answer(k, subject))
     ELSE /\ Reply(k, wire[k].by, wire[k].ans, wire[k].done)
          /\ UNCHANGED serverVars
  /\ UNCHANGED <<leaseVars, stray, storageVars, trip, syncing, captures,
                 flush, late, faults>>

(* No answer: a lost connection, a 5xx, a timeout.  The request itself may *)
(* arrive yet.                                                             *)
Lose(k) ==
  /\ wire[k].at = "upload" /\ Current(k)
  /\ Fault
  /\ stray' = stray \cup {[key |-> k, by |-> subject]}
  /\ UNCHANGED <<leaseVars, serverVars, storageVars, trip, syncing, captures,
                 flush, late>>
  /\ Ask(k, "lost")

Land(r) ==
  /\ stray' = stray \ {r}
  /\ Receive(r.key, r.by)
  /\ UNCHANGED <<leaseVars, storageVars, memoryVars, faults>>
-----------------------------------------------------------------------------
(* The trip on the screen.                                                 *)

Bound == actor # NoDriver
Loaded == Bound /\ trip.open

(* refetchTrip, refreshQuietly, selectTrip: a driver sees the trip only    *)
(* while holding it.                                                       *)
ServerView == [seq |-> period, done |-> Decided, open |-> TRUE]

LoadTrip ==
  /\ Bound
  /\ trip' = IF subject = Holder THEN ServerView ELSE NoTrip
  /\ trip' # trip
  /\ UNCHANGED <<leaseVars, serverVars, stray, storageVars, syncing, captures,
                 wire, flush, late, faults>>

\* captureCustody for the trip on screen
Stamp(p) == [by |-> actor, seq |-> trip.seq, phase |-> p]

\* withOptimisticResolution and currentPhase
Marked(p) == [phase |-> p, seq |-> trip.seq] \in syncing
OnScreen(p) ==
  /\ Loaded
  /\ p \in (trip.done + 1)..Rows
  /\ ~Marked(p)
  /\ \A q \in (trip.done + 1)..(p - 1) : Marked(q)

\* mutant: the slot is written over
SlotOverwritten(p) == {}
(* What stands in the slot and does not belong to the capture on screen.   *)
Displaced(p) == {drafts[p]} \ {NoItem}

(* readDraft and writeDraft: a draft of another driver or period is moved  *)
(* to the retained drafts before the slot is written.                      *)
WriteDraft(p) ==
  /\ OnScreen(p)
  /\ drafts[p] # Stamp(p)
  /\ drafts' = [drafts EXCEPT ![p] = Stamp(p)]
  /\ retained' = retained \cup Displaced(p)
  /\ UNCHANGED <<leaseVars, serverVars, stray, queue, memoryVars, faults>>

NextKey == Len(captures) + 1

StartCapture(item, stage) ==
  /\ NextKey \in Keys
  /\ captures' = Append(captures, item)
  /\ wire' = [wire EXCEPT ![NextKey] = At(stage, generation)]

(* handOffSubmission and startPhaseSubmission: stamped at the swipe.       *)
Swipe(p) ==
  /\ OnScreen(p)
  /\ drafts[p] = Stamp(p)
  /\ StartCapture(Stamp(p), "upload")
  /\ syncing' = syncing \cup {[phase |-> p, seq |-> trip.seq]}
  /\ UNCHANGED <<leaseVars, serverVars, stray, storageVars, trip, flush, late,
                 faults>>

\* isCurrentCapture: the screen that started the attempt still speaks
SameCapture(k) ==
  Current(k) /\ Loaded /\ captures[k].by = actor /\ captures[k].seq = trip.seq

Unmark(k) == syncing' = syncing \ {[phase |-> captures[k].phase,
                                    seq |-> captures[k].seq]}
\* mutant: the slot is left half empty
SlotHalfCleared(k) ==
  LET p == captures[k].phase
  IN drafts' = [drafts EXCEPT ![p] = [NoItem EXCEPT !.by = captures[k].by]]
ClearDraft(k) ==
  LET p == captures[k].phase
  IN drafts' = IF drafts[p] = captures[k]
               THEN [drafts EXCEPT ![p] = NoItem] ELSE drafts

Settle(k) == wire' = [wire EXCEPT ![k] = Idle]

OnPage(k) == IsPhase(k) /\ wire[k].at = "answered" /\ ~Flushing(k)

(* handleOutcome, 'recorded': the plan in the answer replaces the trip.  A *)
(* former driver's duplicate carries no plan, and the marker stays.        *)
SubmissionRecorded(k) ==
  /\ OnPage(k)
  /\ Outcome(k) \in {"recorded", "duplicate"}
  /\ Settle(k)
  /\ IF SameCapture(k)
     THEN /\ ClearDraft(k)
          /\ IF Outcome(k) = "recorded"
             THEN trip' = [trip EXCEPT !.done = wire[k].done] /\ Unmark(k)
             ELSE UNCHANGED <<trip, syncing>>
     ELSE UNCHANGED <<drafts, trip, syncing>>
  /\ UNCHANGED <<leaseVars, serverVars, stray, queue, retained, captures,
                 flush, late, faults>>

(* The capture is kept in the queue for review, or for its own driver.     *)
SubmissionRetained(k, persisted) ==
  LET entry == Pending(k, captures[k].by)
      kept == IF Outcome(k) = "account_changed" THEN entry
              ELSE Refused(entry, Outcome(k))
  IN /\ OnPage(k)
     /\ Outcome(k) \in ConflictCodes \cup {"overridden", "account_changed"}
     /\ Settle(k)
     /\ Enqueue(kept, persisted)
     /\ IF SameCapture(k)
        THEN /\ Unmark(k)
             /\ IF persisted THEN ClearDraft(k) ELSE UNCHANGED drafts
             /\ trip' = IF Outcome(k) = "handed_over" THEN NoTrip ELSE trip
        ELSE UNCHANGED <<drafts, trip, syncing>>
     /\ UNCHANGED <<leaseVars, serverVars, stray, retained, captures, flush,
                    late>>

(* No answer: queued with its own key, the draft and the marker kept; or,  *)
(* when storage refuses, failed, and the step is offered again.            *)
SubmissionUnanswered(k, persisted) ==
  /\ OnPage(k)
  /\ Outcome(k) = "lost"
  /\ Settle(k)
  /\ Enqueue(Pending(k, captures[k].by), persisted)
  /\ IF SameCapture(k) /\ ~persisted THEN Unmark(k) ELSE UNCHANGED syncing
  /\ UNCHANGED <<leaseVars, serverVars, stray, drafts, retained, trip,
                 captures, flush, late>>

(* An uncoded 409: the plan is read again and decides what it meant.       *)
SubmissionConflict(k) ==
  LET row == rows[captures[k].phase]
      seen == subject = Holder
  IN /\ OnPage(k)
     /\ Outcome(k) = "refused"
     /\ \/ /\ seen /\ row.state = "overridden"
           /\ Reply(k, wire[k].by, "overridden", wire[k].done)
           /\ trip' = ServerView
           /\ UNCHANGED <<drafts, syncing>>
        \/ /\ seen /\ row.state = "done"
           /\ Reply(k, wire[k].by, "recorded", Decided)
           /\ trip' = ServerView
           /\ UNCHANGED <<drafts, syncing>>
        \/ /\ Settle(k)
           /\ \/ trip' = trip                       \* the plan was not read
              \/ /\ seen => row.state = "open"
                 /\ trip' = IF seen THEN ServerView ELSE NoTrip
           /\ IF SameCapture(k) THEN Unmark(k) ELSE UNCHANGED syncing
           /\ UNCHANGED drafts
     /\ UNCHANGED <<leaseVars, serverVars, stray, queue, retained, captures,
                    flush, late, faults>>
-----------------------------------------------------------------------------
(* flushQueue: one at a time, for the lease it started with.               *)

NoFlush == [on |-> FALSE, lease |-> [actor |-> NoDriver, gen |-> 0],
            todo |-> {}, key |-> 0, sent |-> {}, refused |-> {},
            stalled |-> FALSE]

\* mutant: whoever is signed in sends
AnyPending(e) == e.status = "pending"
\* isSendableNow
Sendable(e) == e.status = "pending" /\ e.by = actor

(* A mounting screen, the app coming to the foreground, the browser coming *)
(* online, the rate-limit timer, retryAttention, a change of the signed-in *)
(* driver.  A call while a pass is running is ignored, not remembered.     *)
(* The pass reads the queue once and works through what it read; one that  *)
(* finds nothing to send changes nothing, and is left out.                 *)
Trigger ==
  LET sendable == {e \in queue : Sendable(e)}
  IN /\ ~flush.on
     /\ Bound
     /\ sendable # {}
     /\ flush' = [NoFlush EXCEPT !.on = TRUE, !.lease = Lease, !.todo = sendable]
     /\ UNCHANGED <<leaseVars, serverVars, stray, storageVars, trip, syncing,
                    captures, wire, late, faults>>

Between == flush.on /\ flush.key = 0

SendEntry(e) ==
  LET skip == flush.stalled /\ IsPhase(e.key)
  IN /\ Between
     /\ e \in First(flush.todo)
     /\ LeaseIsCurrent(flush.lease)
     /\ flush' = [flush EXCEPT !.todo = @ \ {e},
                               !.key = IF skip THEN 0 ELSE e.key]
     /\ wire' = IF skip THEN wire
                ELSE [wire EXCEPT ![e.key] = At("upload", generation)]
     /\ UNCHANGED <<leaseVars, serverVars, stray, storageVars, trip, syncing,
                    captures, late, faults>>

(* One answer.  Sent, or proven recorded: done with.  Refused: to be kept, *)
(* with why.  No answer: left as it is.  A phase that did not go through   *)
(* holds back the phases behind it, unless dispatch decided its row.       *)
TakeAnswer ==
  LET k == flush.key
      got == Outcome(k)
      done == got \in {"recorded", "duplicate"}
  IN /\ flush.on /\ k # 0
     /\ wire[k].at = "answered"
     /\ Settle(k)
     /\ flush' = [flush EXCEPT !.key = 0,
          !.sent = IF done THEN @ \cup {k} ELSE @,
          !.refused = IF got \in Refusals
                      THEN @ \cup {[key |-> k, code |-> got]} ELSE @,
          !.stalled = @ \/ (IsPhase(k) /\ ~done /\ got # "overridden")]
     /\ UNCHANGED <<leaseVars, serverVars, stray, storageVars, trip, syncing,
                    captures, late, faults>>

(* The stored queue is read again and only this pass's own entries change. *)
Answered(e) ==
  LET codes == {r.code : r \in {q \in flush.refused : q.key = e.key}}
  IN IF codes = {} THEN {e} ELSE {Refused(e, c) : c \in codes}

EndFlush ==
  /\ Between
  /\ flush.todo = {} \/ ~LeaseIsCurrent(flush.lease)
  /\ queue' = UNION {Answered(e) : e \in Without(flush.sent)}
  /\ flush' = NoFlush
  /\ UNCHANGED <<leaseVars, serverVars, stray, drafts, retained, trip,
                 syncing, captures, wire, late, faults>>
-----------------------------------------------------------------------------
(* What the driver decides about refused captures.                         *)

Mine(e) == e.by = actor /\ e.status = "needs-attention"

(* retryAttention and retryRetainedItem; the flush they ask for is Trigger. *)
MayRetry(e) == Mine(e) /\ ~NeverLive(e)

Again(e) == IF MayRetry(e)
            THEN [e EXCEPT !.status = "pending", !.code = "none", !.late = FALSE]
            ELSE e

RetryAttention ==
  /\ Bound
  /\ \E e \in queue : MayRetry(e)
  /\ queue' = {Again(e) : e \in queue}
  /\ UNCHANGED <<leaseVars, serverVars, stray, drafts, retained, memoryVars,
                 faults>>

(* discardRetainedItem, after its warning and second tap                   *)
DiscardEntry(e) ==
  /\ Bound /\ Mine(e)
  /\ queue' = queue \ {e}
  /\ UNCHANGED <<leaseVars, serverVars, stray, drafts, retained, memoryVars,
                 faults>>

DiscardDraft(item) ==
  /\ Bound /\ item.by = actor
  /\ retained' = retained \ {item}
  /\ UNCHANGED <<leaseVars, serverVars, stray, queue, drafts, memoryVars,
                 faults>>

(* sendLateEvidence: a photo at a time, then the report.  The server may   *)
(* refuse a former period's capture too, such as for a photo it cannot     *)
(* place in that period.  A receipt whose answer was lost is found again   *)
(* by its saved request id.                                                *)
LateIdle == [key |-> 0, gen |-> 0, ans |-> "none"]

\* require_former_period
FormerPeriod(k, d) ==
  captures[k].seq < period /\ HolderOf(captures[k].seq) = d

\* lateEvidenceBlocker
MaySendLate(e) == Mine(e) /\ e.late

SendLate(e, taken, lost) ==
  /\ Bound /\ late = LateIdle
  /\ MaySendLate(e)
  /\ taken => FormerPeriod(e.key, subject)
  /\ e.key \in receipts => taken                   \* find_replay
  /\ receipts' = IF taken THEN receipts \cup {e.key} ELSE receipts
  /\ late' = [key |-> e.key, gen |-> generation,
              ans |-> IF lost THEN "lost"
                      ELSE IF taken THEN "receipt" ELSE "refused"]
  /\ IF lost \/ (FormerPeriod(e.key, subject) /\ ~taken)
     THEN Fault ELSE UNCHANGED faults
  /\ UNCHANGED <<leaseVars, period, rows, logged, stray, storageVars, trip,
                 syncing, captures, wire, flush>>

(* clearSource after the receipt, noteRefusal after a refusal, nothing     *)
(* when the answer was lost or belongs to an account that has left.  The   *)
(* late refusal takes the place of the conflict code, so that the entry    *)
(* may be tried again live as well.                                        *)
LateRefused(e) ==
  IF e.key = late.key THEN [e EXCEPT !.code = "refused", !.late = TRUE] ELSE e

EndLate ==
  LET got == IF late.gen = generation THEN late.ans ELSE "lost"
  IN /\ late # LateIdle
     /\ queue' = CASE got = "receipt" -> Without({late.key})
                   [] got = "refused" -> {LateRefused(e) : e \in queue}
                   [] OTHER -> queue
     /\ late' = LateIdle
     /\ UNCHANGED <<leaseVars, serverVars, stray, drafts, retained, trip,
                    syncing, captures, wire, flush, faults>>
-----------------------------------------------------------------------------
(* TripContext is keyed by account and generation: a session step empties  *)
(* the trip and its markers.  Nothing else is interrupted.                 *)
ChangeSession ==
  /\ SessionStep
  /\ IF generation' = generation THEN UNCHANGED <<trip, syncing>>
     ELSE trip' = NoTrip /\ syncing' = {}
  /\ UNCHANGED <<serverVars, stray, storageVars, captures, wire, flush, late,
                 faults>>

(* The app is killed or reloaded.                                          *)
Reload ==
  /\ Fault
  /\ ForgetLease
  /\ trip' = NoTrip
  /\ syncing' = {}
  /\ wire' = [k \in Keys |-> Idle]
  /\ flush' = NoFlush
  /\ late' = LateIdle
  /\ UNCHANGED <<serverVars, stray, storageVars, captures>>
-----------------------------------------------------------------------------
Init ==
  /\ LeaseInit
  /\ period = 0
  /\ rows = [p \in Phases |-> Open]
  /\ logged = {} /\ receipts = {} /\ stray = {}
  /\ queue = {}
  /\ drafts = [p \in Phases |-> NoItem]
  /\ retained = {}
  /\ trip = NoTrip /\ syncing = {}
  /\ captures = <<>>
  /\ wire = [k \in Keys |-> Idle]
  /\ flush = NoFlush /\ late = LateIdle
  /\ faults = 0

Attempt(k) ==
  \/ Post(k)
  \/ SubmissionRecorded(k) \/ SubmissionConflict(k)
  \/ \E persisted \in BOOLEAN :
       \/ SubmissionRetained(k, persisted)
       \/ SubmissionUnanswered(k, persisted)

FlushStep == (\E e \in flush.todo : SendEntry(e)) \/ TakeAnswer \/ EndFlush

DriverDiscards ==
  \/ \E e \in queue : DiscardEntry(e)
  \/ \E item \in retained : DiscardDraft(item)

DriverStep ==
  \/ LoadTrip
  \/ \E p \in Phases : WriteDraft(p) \/ Swipe(p)
  \/ RetryAttention
  \/ \E e \in queue, taken, lost \in BOOLEAN : SendLate(e, taken, lost)
  \/ DriverDiscards

Next ==
  \/ HandOver \/ Override \/ CompleteElsewhere
  \/ \E k \in DOMAIN captures : Attempt(k) \/ Lose(k)
  \/ \E r \in stray : Land(r)
  \/ DriverStep
  \/ Trigger \/ FlushStep
  \/ EndLate
  \/ ChangeSession
  \/ Reload

Spec == Init /\ [][Next]_vars
-----------------------------------------------------------------------------
Entry == [place: {0} \cup Keys, key: Keys, by: Drivers \cup {NoDriver},
          status: {"pending", "needs-attention"},
          code: Refusals \cup {"none"}, late: BOOLEAN]
Request == [at: {"idle", "gps", "upload", "answered"}, gen: 0..MaxGenerations,
            by: Drivers \cup {NoDriver}, done: 0..Rows,
            ans: Refusals \cup {"none", "recorded", "duplicate", "lost"}]

TypeOK ==
  /\ LeaseTypeOK
  /\ period \in Periods
  /\ rows \in [Phases -> {Open, Overridden}
                 \cup {DoneBy(d, k) : d \in Drivers, k \in {0} \cup Keys}]
  /\ logged \subseteq [key: Keys, by: Drivers]
  /\ stray \subseteq [key: Keys, by: Drivers \cup {NoDriver}]
  /\ captures \in Seq(Items) /\ Len(captures) <= MaxCaptures
  /\ queue \subseteq Entry
  /\ drafts \in [Phases -> Items \cup {NoItem}]
  /\ \A p \in Phases : drafts[p] = NoItem \/ drafts[p].phase = p
  /\ retained \subseteq Items /\ receipts \subseteq Keys
  /\ wire \in [Keys -> Request]
-----------------------------------------------------------------------------
(* Evidence never just disappears from the phone: a draft, retained draft  *)
(* or queue entry leaves its storage only for another place on the phone,  *)
(* because the server now holds that driver's completion, checkpoint or    *)
(* late receipt, or because the driver discards it; through account        *)
(* changes, reloads, lost answers and full storage.                        *)
OnPhone == (Range(drafts) \ {NoItem}) \cup retained
             \cup {captures[e.key] : e \in queue}
AtServer(item) ==
  \/ \E k \in receipts : captures[k] = item
  \/ \E k \in DOMAIN captures, d \in Drivers : captures[k] = item /\ Held(k, d)
  \/ \E p \in Phases : p = item.phase /\ rows[p].state = "done"
                       /\ rows[p].by = item.by
NothingLost ==
  [][(\A item \in OnPhone : item \in OnPhone' \/ AtServer(item)')
       \/ DriverDiscards]_vars

(* A phase capture goes out only with its own driver's token, whichever    *)
(* way it is sent and however often the phone changes hands meanwhile.     *)
SentAsCapturer ==
  \A k \in DOMAIN captures :
    IsPhase(k) /\ wire[k].by # NoDriver => wire[k].by = captures[k].by

(* One capture is one record: the server holds it as its driver's live     *)
(* completion or checkpoint, or keeps it as late evidence for review, and  *)
(* never both.  A capture that got through before the handover and lost    *)
(* its answer is not offered as late evidence, and one that was offered,   *)
(* was refused there and is tried again live is not completed: also when   *)
(* its driver holds the trip again, or when an abandoned request lands.    *)
LiveOrLate == \A k \in receipts : \A d \in Drivers : ~Held(k, d)
=============================================================================
