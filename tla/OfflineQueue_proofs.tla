------------------------- MODULE OfflineQueue_proofs -------------------------
(***************************************************************************)
(* Proofs about OfflineQueue: for every set of drivers, every order of     *)
(* custody periods, every number of rows, captures, session changes and    *)
(* faults.                                                                 *)
(***************************************************************************)
EXTENDS OfflineQueue, FiniteSetTheorems, TLAPS
-----------------------------------------------------------------------------
(* The session of ActorLease: what a session change leaves as it was.      *)

(* The app opens with nobody bound and at most the profile read of the     *)
(* stored session (restore in AuthContext.tsx).                            *)
LEMMA LeaseInvInit == LeaseInit => LeaseInv
BY LeaseAssumption
   DEF LeaseInit, LeaseInv, LeaseTypeOK, LookupsFitTheSession,
       ActorIsTheSession, Reading, Lookup

(* A session change, a sign-out or a profile answer keeps the bound driver *)
(* and the account together (observeAuthSession, bindActorLease).          *)
LEMMA LeaseInvStep == ASSUME LeaseInv, SessionStep PROVE LeaseInv'
<1> USE LeaseAssumption DEF LeaseInv, LeaseTypeOK, LookupsFitTheSession,
                            ActorIsTheSession
<1>1. ASSUME NEW d \in Drivers \cup {NoDriver}, Observe(d) PROVE LeaseInv'
  BY <1>1 DEF Observe, NewGeneration, Lookup
<1>2. ASSUME SignOut PROVE LeaseInv'
  BY <1>2 DEF SignOut, NewGeneration
<1>3. ASSUME NEW l \in lookups, ProfileAnswer(l) PROVE LeaseInv'
  BY <1>3 DEF ProfileAnswer, MayBind
<1>4. QED BY <1>1, <1>2, <1>3, SessionStep DEF SessionStep

(* A restart forgets the bound driver and reads the stored session again.  *)
LEMMA LeaseInvForget == ASSUME LeaseInv, ForgetLease PROVE LeaseInv'
BY LeaseAssumption
   DEF LeaseInv, LeaseTypeOK, LookupsFitTheSession, ActorIsTheSession,
       ForgetLease, Reading, Lookup

LEMMA LeaseInvStutter == ASSUME LeaseInv, UNCHANGED leaseVars PROVE LeaseInv'
BY DEF LeaseInv, LeaseTypeOK, LookupsFitTheSession, ActorIsTheSession, leaseVars

(* Within one generation the account does not change: what observes the    *)
(* generation observes the account (assertActorGeneration).                *)
LEMMA GenerationFixesTheAccount ==
  ASSUME LeaseInv, SessionStep
  PROVE  /\ generation' >= generation
         /\ generation' = generation => subject' = subject
BY LeaseAssumption
   DEF LeaseInv, LeaseTypeOK, SessionStep, Observe, SignOut, ProfileAnswer,
       NewGeneration
-----------------------------------------------------------------------------
(* The phone.                                                              *)

Leases == [actor: Drivers \cup {NoDriver}, gen: 0..MaxGenerations]

Flushes == [on: BOOLEAN, lease: Leases, todo: SUBSET Entry,
            key: {0} \cup Keys, sent: SUBSET Keys,
            refused: SUBSET [key: Keys, code: Refusals], stalled: BOOLEAN]

LateAnswers == {"none", "lost", "receipt", "refused"}
LateRequests == [key: {0} \cup Keys, gen: 0..MaxGenerations, ans: LateAnswers]

\* the types of the phone's memory, which TypeOK leaves out
MemoryType ==
  /\ trip \in [seq: Periods, done: 0..Rows, open: BOOLEAN]
  /\ flush \in Flushes
  /\ late \in LateRequests

(* What is stored under a driver's name is that driver's capture, and so   *)
(* is all that the flush took to send for its lease.                       *)
EntriesAreTheirCapturers ==
  /\ \A e \in queue : e.key \in DOMAIN captures /\ e.by = captures[e.key].by
  /\ \A e \in flush.todo : /\ e.key \in DOMAIN captures
                           /\ captures[e.key].by = flush.lease.actor

(* A request that may still be sent was started by the capture's driver,   *)
(* in the session of that driver.                                          *)
RequestsAreTheirCapturers ==
  \A k \in Keys :
    /\ wire[k].gen <= generation
    /\ wire[k].at = "upload" /\ wire[k].gen = generation
         => k \in DOMAIN captures /\ captures[k].by = subject
    /\ wire[k].by # NoDriver
         => k \in DOMAIN captures /\ captures[k].by = wire[k].by

(* One capture, one sender: what is queued is out of the step screen's     *)
(* hands, is queued once, and is sent by the flush or by nobody.           *)
OneSender ==
  /\ \A e, f \in queue : e.key = f.key => e = f
  /\ \A e, f \in flush.todo : e.key = f.key => e = f
  /\ \A e \in queue : wire[e.key].at = "idle" \/ Flushing(e.key)
  /\ \A e \in flush.todo : wire[e.key].at = "idle"
  /\ flush.key # 0 => flush.on /\ wire[flush.key].at # "idle"
  /\ \A r, q \in flush.refused : r.key = q.key => r = q
  /\ \A r \in flush.refused : /\ r.key # flush.key
                             /\ \A e \in flush.todo : e.key # r.key

TypeInv == TypeOK /\ MemoryType
OwnerInv == EntriesAreTheirCapturers /\ RequestsAreTheirCapturers

(* The inductive invariant.                                                *)
Inv == LeaseInv /\ TypeInv /\ OwnerInv /\ OneSender
-----------------------------------------------------------------------------
LEMMA DecidedType ==
  ASSUME NEW S \in SUBSET Phases
  PROVE  Cardinality(S) \in 0..Rows
<1>1. IsFiniteSet(Phases) /\ Cardinality(Phases) = Rows
  BY QueueAssumption, FS_Interval DEF Phases
<1>2. Cardinality(S) <= Cardinality(Phases) /\ IsFiniteSet(S)
  BY <1>1, FS_Subset
<1>3. Cardinality(S) \in Nat
  BY <1>2, FS_CardinalityType
<1>4. QED BY <1>1, <1>2, <1>3, QueueAssumption

LEMMA HoldersAreDrivers ==
  ASSUME NEW s \in Periods
  PROVE  HolderOf(s) \in Drivers
BY QueueAssumption DEF Periods, HolderOf

LEMMA InitInv == Init => Inv
<1> SUFFICES ASSUME Init PROVE Inv
  OBVIOUS
<1>1. LeaseInv
  BY LeaseInvInit DEF Init
<1>2. TypeInv
  BY <1>1, QueueAssumption, LeaseAssumption
     DEF Init, TypeInv, TypeOK, MemoryType, LeaseInv, Leases, NoTrip, NoFlush,
         LateIdle, LateRequests, LateAnswers, Flushes, Periods, Phases, Keys, Request, Idle, At
<1>3. OwnerInv /\ OneSender
  BY <1>1, QueueAssumption
     DEF Init, OwnerInv, OneSender, EntriesAreTheirCapturers, LeaseInv,
         LeaseTypeOK, RequestsAreTheirCapturers, NoFlush, Idle, At
<1>4. QED BY <1>1, <1>2, <1>3 DEF Inv
-----------------------------------------------------------------------------
(* Types.  One step per action of Next.                                    *)

LEMMA PendingType ==
  ASSUME NEW k \in Keys, NEW d \in Drivers
  PROVE  Pending(k, d) \in Entry
BY DEF Pending, Entry

LEMMA RefusedType ==
  ASSUME NEW e \in Entry, NEW c \in Refusals
  PROVE  Refused(e, c) \in Entry
<1>1. ASSUME NEW b \in BOOLEAN
      PROVE  [e EXCEPT !.status = "needs-attention", !.code = c, !.late = b]
               \in Entry
  BY DEF Entry
<1>2. (c \in ConflictCodes) \in BOOLEAN
  OBVIOUS
<1>3. QED BY <1>1, <1>2, Zenon DEF Refused

LEMMA EnqueueType ==
  ASSUME queue \subseteq Entry, NEW entry \in Entry,
         NEW persisted \in BOOLEAN, Enqueue(entry, persisted)
  PROVE  queue' \subseteq Entry
BY DEF Enqueue, Entry

LEMMA CaptureType ==
  ASSUME TypeInv, NEW k \in DOMAIN captures
  PROVE  k \in Keys /\ captures[k] \in Items
BY QueueAssumption DEF TypeInv, TypeOK, Keys

LEMMA StampType ==
  ASSUME LeaseInv, TypeInv, Loaded, NEW p \in Phases
  PROVE  Stamp(p) \in Items /\ Stamp(p).phase = p
BY DEF LeaseInv, LeaseTypeOK, TypeInv, MemoryType, Loaded, Bound, Stamp, Items

(* A driver whose write the server admits has held the trip.               *)
LEMMA AdmittedAreDrivers ==
  ASSUME TypeInv, NEW k, NEW d, Takes(k, d)
  PROVE  d \in Drivers
<1>1. d \in PastHolders
  BY DEF Takes, Answer
<1>2. 0..period \subseteq Periods
  BY QueueAssumption DEF TypeInv, TypeOK, Periods
<1>3. QED BY <1>1, <1>2, HoldersAreDrivers DEF PastHolders

LEMMA ReceiveType ==
  ASSUME TypeInv, NEW k \in Keys, NEW d, Receive(k, d)
  PROVE  /\ rows' \in [Phases -> {Open, Overridden}
                         \cup {DoneBy(o, i) : o \in Drivers, i \in {0} \cup Keys}]
         /\ logged' \subseteq [key: Keys, by: Drivers]
<1>1. Takes(k, d) => d \in Drivers
  BY AdmittedAreDrivers
<1>2. QED BY <1>1 DEF Receive, TypeInv, TypeOK, IsPhase


LEMMA DecisionType ==
  ASSUME TypeInv
  PROVE  /\ Decided \in 0..Rows
         /\ period + 1 \in Periods => HolderOf(period + 1) \in Drivers
         /\ Holder \in Drivers
BY DecidedType, HoldersAreDrivers DEF Decided, TypeInv, TypeOK, Holder

LEMMA TypeInvServer ==
  ASSUME LeaseInv, TypeInv, HandOver \/ Override \/ CompleteElsewhere
  PROVE  TypeInv'
<1>1. CASE HandOver
  BY <1>1 DEF HandOver, TypeInv, TypeOK, MemoryType, LeaseTypeOK, leaseVars,
              storageVars, memoryVars
<1>2. ASSUME NEW row, Decide(row),
             row = Overridden \/ row = DoneBy(Holder, 0)
      PROVE  TypeInv'
  <2>1. rows' \in [Phases -> {Open, Overridden}
                     \cup {DoneBy(d, k) : d \in Drivers, k \in {0} \cup Keys}]
    BY <1>2, DecisionType, QueueAssumption
       DEF Decide, TypeInv, TypeOK, Phases
  <2>2. QED
    BY <1>2, <2>1 DEF Decide, TypeInv, TypeOK, MemoryType, LeaseTypeOK,
                      leaseVars, storageVars, memoryVars
<1>3. QED
  BY <1>1, <1>2 DEF Override, CompleteElsewhere

LEMMA ReplyType ==
  ASSUME TypeInv, LeaseInv, NEW k \in Keys, NEW d \in Drivers \cup {NoDriver},
         NEW ans \in Refusals \cup {"none", "recorded", "duplicate", "lost"},
         NEW n \in 0..Rows, Reply(k, d, ans, n)
  PROVE  wire' \in [Keys -> Request]
BY DEF Reply, Request, TypeInv, TypeOK

LEMMA AskType ==
  ASSUME TypeInv, LeaseInv, NEW k \in Keys,
         NEW ans \in Refusals \cup {"none", "recorded", "duplicate", "lost"},
         Ask(k, ans)
  PROVE  wire' \in [Keys -> Request]
<1>1. Cardinality({p \in Phases : rows'[p] # Open}) \in 0..Rows
  BY DecidedType
<1>2. QED BY <1>1, ReplyType DEF Ask, LeaseInv, LeaseTypeOK

LEMMA AnswerType ==
  ASSUME NEW k, NEW d
  PROVE  Answer(k, d) \in Refusals \cup {"none", "recorded", "duplicate", "lost"}
BY DEF Answer, FormerAnswer, Refusals, ConflictCodes

LEMMA TypeInvRequests ==
  ASSUME LeaseInv, TypeInv, NEW k \in DOMAIN captures, Post(k) \/ Lose(k)
  PROVE  TypeInv'
<1>1. k \in Keys
  BY CaptureType
<1>2. CASE Post(k) /\ Current(k)
  <2>1. wire' \in [Keys -> Request]
    BY <1>1, <1>2, AskType, AnswerType DEF Post
  <2>2. QED
    BY <1>1, <1>2, <2>1, ReceiveType
       DEF Post, Receive, TypeInv, TypeOK, MemoryType, LeaseTypeOK, leaseVars,
           storageVars
<1>3. CASE Post(k) /\ ~Current(k)
  <2>1. wire[k] \in Request
    BY <1>1 DEF TypeInv, TypeOK
  <2>2. wire' \in [Keys -> Request]
    BY <1>1, <1>3, <2>1, ReplyType DEF Post, Request
  <2>3. QED
    BY <1>1, <1>3, <2>2 DEF Post, TypeInv, TypeOK, MemoryType, LeaseTypeOK,
                            leaseVars, serverVars, storageVars
<1>4. CASE Lose(k)
  <2>1. wire' \in [Keys -> Request]
    BY <1>1, <1>4, AskType DEF Lose
  <2>2. QED
    BY <1>1, <1>4, <2>1
       DEF Lose, TypeInv, TypeOK, MemoryType, LeaseTypeOK, leaseVars,
           serverVars, storageVars
<1>5. QED BY <1>2, <1>3, <1>4

LEMMA IdleType == Idle \in Request
BY QueueAssumption, LeaseAssumption DEF Idle, At, Request

LEMMA StartedType ==
  ASSUME LeaseInv, NEW stage \in {"gps", "upload"}
  PROVE  At(stage, generation) \in Request
BY QueueAssumption, LeaseAssumption
   DEF At, Request, LeaseInv, LeaseTypeOK

LEMMA SettledType ==
  ASSUME TypeInv, NEW k \in Keys, Settle(k)
  PROVE  wire' \in [Keys -> Request]
BY IdleType DEF Settle, TypeInv, TypeOK

LEMMA TripTypes ==
  ASSUME TypeInv
  PROVE  /\ ServerView \in [seq: Periods, done: 0..Rows, open: BOOLEAN]
         /\ NoTrip \in [seq: Periods, done: 0..Rows, open: BOOLEAN]
BY DecisionType, QueueAssumption
   DEF ServerView, NoTrip, TypeInv, TypeOK, Periods

LEMMA ClearedType ==
  ASSUME TypeInv, NEW k \in DOMAIN captures, IsPhase(k), ClearDraft(k)
  PROVE  /\ drafts' \in [Phases -> Items \cup {NoItem}]
         /\ \A p \in Phases : drafts'[p] = NoItem \/ drafts'[p].phase = p
BY DEF ClearDraft, IsPhase, TypeInv, TypeOK

LEMMA TypeInvScreen ==
  ASSUME LeaseInv, TypeInv, NEW p \in Phases,
         LoadTrip \/ WriteDraft(p) \/ Swipe(p)
  PROVE  TypeInv'
<1>1. CASE LoadTrip
  BY <1>1, TripTypes DEF LoadTrip, TypeInv, TypeOK, MemoryType, LeaseTypeOK,
                         leaseVars, serverVars, storageVars
<1>2. CASE WriteDraft(p)
  <2>1. Stamp(p) \in Items /\ Stamp(p).phase = p
    BY <1>2, StampType DEF WriteDraft, OnScreen
  <2>2. Displaced(p) \subseteq Items
    BY DEF Displaced, TypeInv, TypeOK
  <2>3. QED
    BY <1>2, <2>1, <2>2
       DEF WriteDraft, TypeInv, TypeOK, MemoryType, LeaseTypeOK, leaseVars,
           serverVars, memoryVars
<1>3. CASE Swipe(p)
  <2>1. Stamp(p) \in Items
    BY <1>3, StampType DEF Swipe, OnScreen
  <2>2. captures' \in Seq(Items) /\ Len(captures') <= MaxCaptures
    BY <1>3, <2>1, QueueAssumption
       DEF Swipe, StartCapture, NextKey, Keys, TypeInv, TypeOK
  <2>3. wire' \in [Keys -> Request]
    BY <1>3, StartedType DEF Swipe, StartCapture, TypeInv, TypeOK
  <2>4. QED
    BY <1>3, <2>2, <2>3
       DEF Swipe, TypeInv, TypeOK, MemoryType, LeaseTypeOK, leaseVars,
           serverVars, storageVars
<1>4. QED BY <1>1, <1>2, <1>3

LEMMA TypeInvSubmissions ==
  ASSUME LeaseInv, TypeInv, NEW k \in DOMAIN captures,
         NEW persisted \in BOOLEAN,
         \/ SubmissionRecorded(k) \/ SubmissionConflict(k)
         \/ SubmissionRetained(k, persisted)
         \/ SubmissionUnanswered(k, persisted)
  PROVE  TypeInv'
<1>1. k \in Keys /\ captures[k] \in Items /\ captures[k].by \in Drivers
  BY CaptureType DEF Items
<1>2. CASE SubmissionRecorded(k)
  <2>1. wire' \in [Keys -> Request]
    BY <1>1, <1>2, SettledType DEF SubmissionRecorded
  <2>2. trip' \in [seq: Periods, done: 0..Rows, open: BOOLEAN]
    <3>1. wire[k].done \in 0..Rows
      BY <1>1 DEF TypeInv, TypeOK, Request
    <3>2. trip' = trip \/ trip' = [trip EXCEPT !.done = wire[k].done]
      BY <1>2 DEF SubmissionRecorded
    <3>3. QED BY <3>1, <3>2 DEF TypeInv, MemoryType
  <2>3. QED
    BY <1>2, <2>1, <2>2, ClearedType
       DEF SubmissionRecorded, OnPage, TypeInv, TypeOK, MemoryType, LeaseTypeOK,
           leaseVars, serverVars
<1>3. CASE SubmissionRetained(k, persisted)
  <2>1. queue' \subseteq Entry
    <3>1. Pending(k, captures[k].by) \in Entry
      BY <1>1, PendingType
    <3>2. Outcome(k) # "account_changed" => Outcome(k) \in Refusals
      BY <1>3 DEF SubmissionRetained, Refusals
    <3>3. QED
      BY <1>3, <3>1, <3>2, RefusedType, EnqueueType
         DEF SubmissionRetained, TypeInv, TypeOK
  <2>2. wire' \in [Keys -> Request]
    BY <1>1, <1>3, SettledType DEF SubmissionRetained
  <2>3. QED
    BY <1>3, <2>1, <2>2, ClearedType, TripTypes
       DEF SubmissionRetained, OnPage, TypeInv, TypeOK, MemoryType, LeaseTypeOK,
           leaseVars, serverVars
<1>4. CASE SubmissionUnanswered(k, persisted)
  <2>1. queue' \subseteq Entry
    BY <1>1, <1>4, PendingType, EnqueueType
       DEF SubmissionUnanswered, TypeInv, TypeOK
  <2>2. wire' \in [Keys -> Request]
    BY <1>1, <1>4, SettledType DEF SubmissionUnanswered
  <2>3. QED
    BY <1>4, <2>1, <2>2
       DEF SubmissionUnanswered, TypeInv, TypeOK, MemoryType, LeaseTypeOK,
           leaseVars, serverVars
<1>5. CASE SubmissionConflict(k)
  <2>1. wire' \in [Keys -> Request]
    <3>1. wire[k].by \in Drivers \cup {NoDriver} /\ wire[k].done \in 0..Rows
      BY <1>1 DEF TypeInv, TypeOK, Request
    <3>2. QED
      BY <1>1, <1>5, <3>1, SettledType, ReplyType, DecisionType
         DEF SubmissionConflict, Refusals, Settle
  <2>2. trip' \in [seq: Periods, done: 0..Rows, open: BOOLEAN]
    BY <1>5, TripTypes
       DEF SubmissionConflict, TypeInv, MemoryType
  <2>3. UNCHANGED <<leaseVars, serverVars, stray, queue, drafts, retained,
                    captures, flush, late>>
    BY <1>5 DEF SubmissionConflict
  <2>4. QED
    BY <2>1, <2>2, <2>3
       DEF TypeInv, TypeOK, MemoryType, LeaseTypeOK, leaseVars, serverVars
<1>6. QED BY <1>2, <1>3, <1>4, <1>5

LEMMA ChangedEntryType ==
  ASSUME NEW e \in Entry
  PROVE  Again(e) \in Entry /\ LateRefused(e) \in Entry
BY DEF Again, LateRefused, Entry, Refusals

LEMMA TypeInvReview ==
  ASSUME LeaseInv, TypeInv, EntriesAreTheirCapturers,
         \/ RetryAttention \/ EndLate
         \/ \E e \in queue, taken, lost \in BOOLEAN : SendLate(e, taken, lost)
         \/ \E e \in queue : DiscardEntry(e)
         \/ \E item \in retained : DiscardDraft(item)
  PROVE  TypeInv'
<1>1. CASE RetryAttention
  <2>1. queue' \subseteq Entry
    BY <1>1, ChangedEntryType DEF RetryAttention, TypeInv, TypeOK
  <2>2. QED
    BY <1>1, <2>1
       DEF RetryAttention, TypeInv, TypeOK, MemoryType, LeaseTypeOK,
           leaseVars, serverVars, memoryVars
<1>2. CASE EndLate
  <2>1. queue' \subseteq Entry
    BY <1>2, ChangedEntryType DEF EndLate, Without, TypeInv, TypeOK
  <2>2. LateIdle \in LateRequests
    BY LeaseAssumption DEF LateIdle, LateRequests, LateAnswers
  <2>3. UNCHANGED <<leaseVars, serverVars, stray, drafts, retained, trip,
                    captures, wire, flush>> /\ late' = LateIdle
    BY <1>2 DEF EndLate
  <2>4. QED
    BY <2>1, <2>2, <2>3
       DEF TypeInv, TypeOK, MemoryType, LeaseTypeOK, leaseVars, serverVars
<1>3. ASSUME NEW e \in queue, NEW taken \in BOOLEAN,
             NEW lost \in BOOLEAN, SendLate(e, taken, lost)
      PROVE  TypeInv'
  <2>1. e.key \in Keys /\ captures[e.key] \in Items
    BY CaptureType DEF EntriesAreTheirCapturers
  <2>2. late' \in LateRequests
    BY <1>3, <2>1
       DEF SendLate, LeaseInv, LeaseTypeOK, LateRequests, LateAnswers
  <2>3. retained \subseteq Items /\ receipts' \subseteq Keys
    BY <1>3, <2>1 DEF SendLate, TypeInv, TypeOK
  <2>4. UNCHANGED <<leaseVars, period, rows, logged, stray, storageVars, trip,
                    captures, wire, flush>>
    BY <1>3 DEF SendLate
  <2>5. QED
    BY <2>2, <2>3, <2>4
       DEF TypeInv, TypeOK, MemoryType, LeaseTypeOK, leaseVars, storageVars
<1>4. ASSUME NEW e \in queue, DiscardEntry(e) PROVE TypeInv'
  BY <1>4 DEF DiscardEntry, TypeInv, TypeOK, MemoryType, LeaseTypeOK,
              leaseVars, serverVars, memoryVars
<1>5. ASSUME NEW item \in retained, DiscardDraft(item) PROVE TypeInv'
  BY <1>5 DEF DiscardDraft, TypeInv, TypeOK, MemoryType, LeaseTypeOK,
              leaseVars, serverVars, memoryVars
<1>6. QED BY <1>1, <1>2, <1>3, <1>4, <1>5

LEMMA NoFlushType == NoFlush \in Flushes
BY LeaseAssumption DEF NoFlush, Leases, Flushes

LEMMA BegunType ==
  ASSUME NEW l \in Leases, NEW es \in SUBSET Entry
  PROVE  [NoFlush EXCEPT !.on = TRUE, !.lease = l, !.todo = es] \in Flushes
BY LeaseAssumption DEF NoFlush, Flushes

LEMMA SendingType ==
  ASSUME NEW f \in Flushes, NEW e, NEW k \in {0} \cup Keys
  PROVE  [f EXCEPT !.todo = @ \ {e}, !.key = k] \in Flushes
BY DEF Flushes

LEMMA TakenType ==
  ASSUME NEW f \in Flushes, NEW ks \in SUBSET Keys, NEW b \in BOOLEAN,
         NEW rs \in SUBSET [key: Keys, code: Refusals]
  PROVE  [f EXCEPT !.key = 0, !.sent = ks, !.refused = rs, !.stalled = b]
           \in Flushes
BY DEF Flushes

LEMMA TypeInvFlush ==
  ASSUME LeaseInv, TypeInv,
         \/ Trigger \/ TakeAnswer \/ EndFlush
         \/ \E e \in flush.todo : SendEntry(e)
  PROVE  TypeInv'
<1>1. CASE Trigger
  <2>1. Lease \in Leases
    BY DEF Lease, Leases, LeaseInv, LeaseTypeOK
  <2>2. flush' \in Flushes
    <3>1. {e \in queue : Sendable(e)} \in SUBSET Entry
      BY DEF TypeInv, TypeOK
    <3>2. QED BY <1>1, <2>1, <3>1, BegunType, Zenon DEF Trigger
  <2>3. UNCHANGED <<leaseVars, serverVars, stray, storageVars, trip, captures,
                    wire, late>>
    BY <1>1 DEF Trigger
  <2>4. QED
    BY <2>2, <2>3 DEF TypeInv, TypeOK, MemoryType, LeaseTypeOK, leaseVars,
                      serverVars, storageVars
<1>2. ASSUME NEW e \in flush.todo, SendEntry(e) PROVE TypeInv'
  <2>1. e.key \in Keys
    BY DEF TypeInv, MemoryType, Flushes, Entry
  <2>2. flush' \in Flushes
    BY <1>2, <2>1, SendingType, Zenon DEF SendEntry, TypeInv, MemoryType
  <2>3. wire' \in [Keys -> Request]
    <3>1. At("upload", generation) \in Request
      BY StartedType
    <3>2. wire' = wire
            \/ wire' = [wire EXCEPT ![e.key] = At("upload", generation)]
      BY <1>2 DEF SendEntry
    <3>3. QED BY <3>1, <3>2 DEF TypeInv, TypeOK
  <2>4. UNCHANGED <<leaseVars, serverVars, stray, storageVars, trip, captures,
                    late>>
    BY <1>2 DEF SendEntry
  <2>5. QED
    BY <2>2, <2>3, <2>4 DEF TypeInv, TypeOK, MemoryType, LeaseTypeOK,
                            leaseVars, serverVars, storageVars
<1>3. CASE TakeAnswer
  <2>1. flush.key \in Keys
    BY <1>3 DEF TakeAnswer, TypeInv, MemoryType, Flushes
  <2>2. flush' \in Flushes
    <3> DEFINE got == Outcome(flush.key)
               done == got \in {"recorded", "duplicate"}
               sent == IF done THEN flush.sent \cup {flush.key} ELSE flush.sent
               refused == IF got \in Refusals
                          THEN flush.refused
                                 \cup {[key |-> flush.key, code |-> got]}
                          ELSE flush.refused
               stalled == flush.stalled
                            \/ (IsPhase(flush.key) /\ ~done /\ got # "overridden")
    <3>1. flush \in Flushes
      BY DEF TypeInv, MemoryType
    <3>2. sent \in SUBSET Keys /\ stalled \in BOOLEAN
      BY <2>1, <3>1 DEF Flushes
    <3>3. refused \in SUBSET [key: Keys, code: Refusals]
      BY <2>1, <3>1 DEF Flushes
    <3>4. flush' = [flush EXCEPT !.key = 0, !.sent = sent,
                                 !.refused = refused, !.stalled = stalled]
      BY <1>3, Zenon DEF TakeAnswer
    <3> HIDE DEF sent, refused, stalled
    <3>5. QED BY <3>1, <3>2, <3>3, <3>4, TakenType
  <2>3. wire' \in [Keys -> Request]
    BY <1>3, <2>1, SettledType DEF TakeAnswer
  <2>4. QED
    BY <1>3, <2>2, <2>3 DEF TakeAnswer, TypeInv, TypeOK, MemoryType,
                            LeaseTypeOK, leaseVars, serverVars, storageVars
<1>4. CASE EndFlush
  <2>1. queue' \subseteq Entry
    BY <1>4, RefusedType
       DEF EndFlush, Answered, Without, TypeInv, TypeOK, MemoryType, Flushes
  <2>2. QED
    BY <1>4, <2>1, NoFlushType
       DEF EndFlush, TypeInv, TypeOK, MemoryType, LeaseTypeOK, leaseVars,
           serverVars
<1>5. QED BY <1>1, <1>2, <1>3, <1>4

LEMMA TypeInvSession ==
  ASSUME LeaseInv, TypeInv, ChangeSession \/ Reload
  PROVE  TypeInv'
<1>1. CASE ChangeSession
  BY <1>1, LeaseInvStep, TripTypes
     DEF ChangeSession, LeaseInv, TypeInv, TypeOK, MemoryType, serverVars,
         storageVars
<1>2. CASE Reload
  <2>1. wire' \in [Keys -> Request]
    BY <1>2, IdleType DEF Reload
  <2>2. QED
    BY <1>2, <2>1, LeaseInvForget, TripTypes, NoFlushType, LeaseAssumption
       DEF Reload, LeaseInv, TypeInv, TypeOK, MemoryType, serverVars,
           storageVars, LateIdle, LateRequests, LateAnswers
<1>3. QED BY <1>1, <1>2

LEMMA TypeInvLand ==
  ASSUME TypeInv, NEW r \in stray, Land(r)
  PROVE  TypeInv'
<1>1. r.key \in Keys
  BY DEF TypeInv, TypeOK
<1>2. /\ rows' \in [Phases -> {Open, Overridden}
                      \cup {DoneBy(o, i) : o \in Drivers, i \in {0} \cup Keys}]
      /\ logged' \subseteq [key: Keys, by: Drivers]
  BY <1>1, ReceiveType DEF Land
<1>3. QED
  BY <1>2 DEF Land, Receive, TypeInv, TypeOK, MemoryType, LeaseTypeOK,
              leaseVars, storageVars, memoryVars
-----------------------------------------------------------------------------
(* Owners and senders.  First what concerns neither.                       *)

LEMMA QuietSteps ==
  ASSUME OwnerInv, OneSender,
         UNCHANGED <<subject, generation, captures, queue, flush, wire>>
  PROVE  OwnerInv' /\ OneSender'
BY DEF OwnerInv, OneSender, EntriesAreTheirCapturers, RequestsAreTheirCapturers,
       Flushing

\* a capture stays what it is, and a new one has a new key
LEMMA CapturesGrow ==
  ASSUME TypeInv, NEW item \in Items, captures' = Append(captures, item)
  PROVE  /\ NextKey \notin DOMAIN captures
         /\ DOMAIN captures' = DOMAIN captures \cup {NextKey}
         /\ \A k \in DOMAIN captures : captures'[k] = captures[k]
         /\ captures'[NextKey] = item
BY DEF NextKey, TypeInv, TypeOK

LEMMA OwnersSwipe ==
  ASSUME Inv, NEW p \in Phases, Swipe(p)
  PROVE  OwnerInv' /\ OneSender'
<1>1. Stamp(p) \in Items /\ Stamp(p).by = subject
  BY StampType
     DEF Inv, Swipe, OnScreen, Loaded, Bound, LeaseInv, ActorIsTheSession, Stamp
<1>2. /\ captures' = Append(captures, Stamp(p))
      /\ wire' = [wire EXCEPT ![NextKey] = At("upload", generation)]
      /\ NextKey \in Keys
      /\ UNCHANGED <<leaseVars, queue, flush>>
  BY DEF Swipe, StartCapture, storageVars
<1>3. /\ NextKey \notin DOMAIN captures
      /\ DOMAIN captures' = DOMAIN captures \cup {NextKey}
      /\ \A k \in DOMAIN captures : captures'[k] = captures[k]
      /\ captures'[NextKey] = Stamp(p)
  BY <1>1, <1>2, CapturesGrow DEF Inv
<1>4. EntriesAreTheirCapturers'
  BY <1>2, <1>3 DEF Inv, OwnerInv, EntriesAreTheirCapturers
<1>5. RequestsAreTheirCapturers'
  <2> SUFFICES ASSUME NEW k \in Keys
               PROVE  /\ wire'[k].gen <= generation'
                      /\ wire'[k].at = "upload" /\ wire'[k].gen = generation'
                           => k \in DOMAIN captures' /\ captures'[k].by = subject'
                      /\ wire'[k].by # NoDriver
                           => k \in DOMAIN captures' /\ captures'[k].by = wire'[k].by
    BY DEF RequestsAreTheirCapturers
  <2>1. CASE k = NextKey
    BY <1>1, <1>2, <1>3, <2>1
       DEF Inv, LeaseInv, LeaseTypeOK, TypeInv, TypeOK, At, leaseVars
  <2>2. CASE k # NextKey
    BY <1>2, <1>3, <2>2
       DEF Inv, OwnerInv, RequestsAreTheirCapturers, TypeInv, TypeOK, leaseVars
  <2>3. QED BY <2>1, <2>2
<1>6. OneSender'
  <2>1. \A k \in DOMAIN captures : wire'[k] = wire[k]
    BY <1>2, <1>3, CaptureType DEF Inv, TypeInv, TypeOK
  <2>2. wire'[NextKey].at # "idle"
    BY <1>2 DEF Inv, TypeInv, TypeOK, At
  <2>3. QED
    BY <1>2, <2>1, <2>2
       DEF Inv, OwnerInv, EntriesAreTheirCapturers, OneSender,
           Flushing, TypeInv, TypeOK
<1>7. QED BY <1>4, <1>5, <1>6 DEF OwnerInv

\* a request under way is answered, under the account it was sent with
LEMMA OwnersReply ==
  ASSUME Inv, NEW k \in DOMAIN captures, wire[k].at # "idle",
         NEW d, NEW ans, NEW n,
         d # NoDriver => captures[k].by = d,
         Reply(k, d, ans, n),
         UNCHANGED <<subject, generation, captures, queue, flush>>
  PROVE  OwnerInv' /\ OneSender'
<1>1. k \in Keys
  BY CaptureType DEF Inv
<1>2. /\ wire'[k] = [at |-> "answered", gen |-> wire[k].gen, by |-> d,
                     ans |-> ans, done |-> n]
      /\ \A i \in Keys \ {k} : wire'[i] = wire[i]
  BY <1>1 DEF Reply, Inv, TypeInv, TypeOK
<1>3. OwnerInv'
  BY <1>1, <1>2 DEF Inv, OwnerInv, EntriesAreTheirCapturers,
                    RequestsAreTheirCapturers
<1>4. \A i \in Keys : wire'[i].at = "idle" <=> wire[i].at = "idle"
  BY <1>1, <1>2
<1>5. OneSender'
  BY <1>4 DEF Inv, OneSender, Flushing,
              TypeInv, TypeOK, MemoryType, Flushes, Entry
<1>6. QED BY <1>3, <1>5

LEMMA OwnersRequests ==
  ASSUME Inv, NEW k \in DOMAIN captures, Post(k) \/ Lose(k)
  PROVE  OwnerInv' /\ OneSender'
<1>1. /\ wire[k].at # "idle"
      /\ UNCHANGED <<subject, generation, captures, queue, flush>>
  BY DEF Post, Lose, leaseVars, storageVars
<1>2. Current(k) => captures[k].by = subject
  BY CaptureType
     DEF Post, Lose, Current, Inv, OwnerInv, RequestsAreTheirCapturers
<1>3. wire[k].by # NoDriver => captures[k].by = wire[k].by
  BY CaptureType DEF Inv, OwnerInv, RequestsAreTheirCapturers
<1>4. CASE Current(k)
  <2>1. PICK ans : Ask(k, ans)
    BY <1>4 DEF Post, Lose
  <2>2. QED BY <1>1, <1>2, <1>4, <2>1, OwnersReply DEF Ask
<1>5. CASE ~Current(k)
  <2>1. Reply(k, wire[k].by, wire[k].ans, wire[k].done)
    BY <1>5 DEF Post, Lose
  <2>2. QED BY <1>1, <1>3, <2>1, OwnersReply
<1>6. QED BY <1>4, <1>5

(* The step screen lets go of its request, and may put the capture in the  *)
(* queue as it does.                                                       *)
LEMMA OwnersSettle ==
  ASSUME Inv, NEW k \in DOMAIN captures, OnPage(k), Settle(k),
         NEW added, queue' = queue \cup added,
         \A e \in added : /\ e.key = k /\ e.by = captures[k].by
                          /\ \A f \in added : e = f,
         UNCHANGED <<subject, generation, captures, flush>>
  PROVE  OwnerInv' /\ OneSender'
<1>1. k \in Keys /\ k # 0
  BY CaptureType DEF Inv, Keys
<1>2. wire'[k] = Idle /\ \A i \in Keys \ {k} : wire'[i] = wire[i]
  BY <1>1 DEF Settle, Inv, TypeInv, TypeOK
<1>3. /\ \A e \in queue : e.key # k
      /\ \A e \in flush.todo : e.key # k
      /\ flush.key # k
  BY <1>1 DEF OnPage, Inv, OneSender, Flushing
<1>4. OwnerInv'
  BY <1>1, <1>2 DEF Inv, OwnerInv, EntriesAreTheirCapturers, LeaseInv,
                    LeaseTypeOK, RequestsAreTheirCapturers, Idle, At
<1>5. OneSender'
  <2>1. \A e, f \in queue' : e.key = f.key => e = f
    BY <1>3 DEF Inv, OneSender
  <2>2. \A e \in queue' : wire'[e.key].at = "idle" \/ Flushing(e.key)'
    BY <1>2 DEF Inv, OneSender, Flushing, TypeInv, TypeOK, Entry,
                Idle, At
  <2>3. QED
    BY <1>2, <1>3, <2>1, <2>2
       DEF Inv, OneSender, TypeInv, MemoryType, Flushes, Entry
<1>6. QED BY <1>4, <1>5

\* what Enqueue leaves behind
LEMMA EnqueueAdds ==
  ASSUME NEW entry \in Entry, NEW persisted \in BOOLEAN,
         Enqueue(entry, persisted)
  PROVE  \/ queue' = queue
         \/ \E e : /\ queue' = queue \cup {e}
                   /\ e.key = entry.key /\ e.by = entry.by
                   /\ e.late = entry.late
<1>1. CASE persisted
  <2>1. PICK n \in Keys : queue' = queue \cup {[entry EXCEPT !.place = n]}
    BY <1>1 DEF Enqueue
  <2>2. PICK e : e = [entry EXCEPT !.place = n]
    OBVIOUS
  <2>3. /\ e.key = entry.key /\ e.by = entry.by
        /\ e.late = entry.late
    BY <2>2 DEF Entry
  <2>4. QED BY <2>1, <2>2, <2>3, Zenon
<1>2. CASE ~persisted
  BY <1>2 DEF Enqueue
<1>3. QED BY <1>1, <1>2

LEMMA OwnersSubmissions ==
  ASSUME Inv, NEW k \in DOMAIN captures, NEW persisted \in BOOLEAN,
         \/ SubmissionRecorded(k) \/ SubmissionConflict(k)
         \/ SubmissionRetained(k, persisted)
         \/ SubmissionUnanswered(k, persisted)
  PROVE  OwnerInv' /\ OneSender'
<1>1. k \in Keys /\ captures[k].by \in Drivers
  BY CaptureType DEF Inv, Items
<1>2. Pending(k, captures[k].by) \in Entry
  BY <1>1, PendingType
<1>3. OnPage(k) /\ wire[k].at # "idle"
      /\ UNCHANGED <<subject, generation, captures, flush>>
  BY DEF SubmissionRecorded, SubmissionConflict, SubmissionRetained,
         SubmissionUnanswered, OnPage, leaseVars
<1>4. ASSUME Settle(k), queue' = queue PROVE OwnerInv' /\ OneSender'
  <2>1. PICK added : added = {}
    OBVIOUS
  <2>2. queue' = queue \cup added
    BY <1>4, <2>1
  <2>3. QED BY <1>3, <1>4, <2>1, <2>2, OwnersSettle
<1>5. CASE SubmissionRecorded(k)
  BY <1>5, <1>4 DEF SubmissionRecorded
<1>6. CASE SubmissionConflict(k)
  <2>1. queue' = queue
    BY <1>6 DEF SubmissionConflict
  <2>2. CASE Settle(k)
    BY <1>4, <2>1, <2>2
  <2>3. CASE \E ans, n : Reply(k, wire[k].by, ans, n)
    <3>1. wire[k].by # NoDriver => captures[k].by = wire[k].by
      BY <1>1 DEF Inv, OwnerInv, RequestsAreTheirCapturers
    <3>2. QED BY <1>3, <2>1, <2>3, <3>1, OwnersReply
  <2>4. QED BY <1>6, <2>2, <2>3 DEF SubmissionConflict
<1>7. ASSUME NEW entry \in Entry, Enqueue(entry, persisted), Settle(k),
             entry.key = k, entry.by = captures[k].by
      PROVE  OwnerInv' /\ OneSender'
  <2>1. CASE queue' = queue
    BY <1>4, <1>7, <2>1
  <2>2. ASSUME NEW e, queue' = queue \cup {e},
               e.key = entry.key, e.by = entry.by
        PROVE  OwnerInv' /\ OneSender'
    <3>1. PICK added : added = {e}
      OBVIOUS
    <3>2. QED BY <1>3, <1>7, <2>2, <3>1, OwnersSettle
  <2>3. QED BY <1>7, <2>1, <2>2, EnqueueAdds
<1>8. CASE SubmissionUnanswered(k, persisted)
  <2>1. /\ Pending(k, captures[k].by).key = k
        /\ Pending(k, captures[k].by).by = captures[k].by
    BY DEF Pending
  <2>2. QED BY <1>2, <1>7, <1>8, <2>1 DEF SubmissionUnanswered
<1>9. CASE SubmissionRetained(k, persisted)
  <2> DEFINE pending == Pending(k, captures[k].by)
  <2>1. pending.key = k /\ pending.by = captures[k].by
    BY DEF Pending
  <2>2. CASE Outcome(k) = "account_changed"
    BY <1>2, <1>7, <1>9, <2>1, <2>2 DEF SubmissionRetained
  <2>3. CASE Outcome(k) # "account_changed"
    <3>1. Outcome(k) \in Refusals
      BY <1>9, <2>3 DEF SubmissionRetained, Refusals
    <3>2. Refused(pending, Outcome(k)) \in Entry
      BY <1>2, <3>1, RefusedType
    <3>3. LET e == Refused(pending, Outcome(k))
          IN e.key = k /\ e.by = captures[k].by
      BY <1>2, <2>1 DEF Refused, Entry
    <3>4. QED BY <1>7, <1>9, <2>3, <3>2, <3>3 DEF SubmissionRetained
  <2>4. QED BY <2>2, <2>3
<1>10. QED BY <1>5, <1>6, <1>8, <1>9

LEMMA OwnersReview ==
  ASSUME Inv, \/ RetryAttention \/ EndLate \/ \E e \in queue : DiscardEntry(e)
  PROVE  OwnerInv' /\ OneSender'
<1>1. UNCHANGED <<subject, generation, captures, flush, wire>>
  BY DEF RetryAttention, EndLate, DiscardEntry, leaseVars, memoryVars
<1>2. \A e \in Entry : /\ Again(e).key = e.key /\ Again(e).by = e.by
                       /\ LateRefused(e).key = e.key /\ LateRefused(e).by = e.by
  BY DEF Again, LateRefused, Entry
<1>3. /\ queue \subseteq Entry
      /\ \/ queue' \subseteq queue
         \/ queue' = {Again(e) : e \in queue}
         \/ queue' = {LateRefused(e) : e \in queue}
  BY DEF RetryAttention, EndLate, DiscardEntry, Without, Inv, TypeInv, TypeOK
<1>4. /\ \A f \in queue' : \E e \in queue : f.key = e.key /\ f.by = e.by
      /\ \A f, g \in queue' : f.key = g.key => f = g
  BY <1>2, <1>3 DEF Inv, OneSender
<1>5. OwnerInv'
  BY <1>1, <1>4 DEF Inv, OwnerInv, EntriesAreTheirCapturers,
                    RequestsAreTheirCapturers
<1>6. OneSender'
  BY <1>1, <1>4 DEF Inv, OneSender, Flushing
<1>7. QED BY <1>5, <1>6

LEMMA OwnersTrigger ==
  ASSUME Inv, Trigger
  PROVE  OwnerInv' /\ OneSender'
<1>1. /\ UNCHANGED <<subject, generation, captures, queue, wire>>
      /\ ~flush.on
      /\ flush' = [NoFlush EXCEPT !.on = TRUE, !.lease = Lease,
                                  !.todo = {e \in queue : Sendable(e)}]
  BY Zenon DEF Trigger, leaseVars, storageVars
<1>2. /\ flush'.todo = {e \in queue : Sendable(e)}
      /\ flush'.lease.actor = actor
      /\ flush'.key = 0 /\ flush'.refused = {}
  BY <1>1 DEF NoFlush, Lease
<1>3. \A e \in queue : wire[e.key].at = "idle"
  BY <1>1 DEF Inv, OneSender, Flushing
<1>4. OwnerInv'
  BY <1>1, <1>2 DEF Inv, OwnerInv, EntriesAreTheirCapturers,
                    RequestsAreTheirCapturers, Sendable
<1>5. OneSender'
  BY <1>1, <1>2, <1>3
     DEF Inv, OneSender
<1>6. QED BY <1>4, <1>5

LEMMA OwnersSend ==
  ASSUME Inv, NEW e \in flush.todo, SendEntry(e)
  PROVE  OwnerInv' /\ OneSender'
<1>1. e \in Entry /\ e.key \in Keys /\ e.key # 0 /\ flush \in Flushes
  BY DEF Inv, TypeInv, MemoryType, Flushes, Entry, Keys
<1>2. /\ UNCHANGED <<subject, generation, actor, captures, queue>>
      /\ flush.on /\ flush.key = 0
      /\ LeaseIsCurrent(flush.lease)
  BY DEF SendEntry, Between, leaseVars, storageVars
<1>3. captures[e.key].by = subject /\ e.key \in DOMAIN captures
  BY <1>2 DEF LeaseIsCurrent, Lease, Inv, LeaseInv, ActorIsTheSession, OwnerInv,
              EntriesAreTheirCapturers
<1>4. CASE wire' = wire /\ flush' = [flush EXCEPT !.todo = @ \ {e}, !.key = 0]
  <2>1. /\ flush'.todo = flush.todo \ {e} /\ flush'.key = 0 /\ flush'.on
        /\ flush'.lease = flush.lease /\ flush'.refused = flush.refused
    BY <1>1, <1>2, <1>4 DEF Flushes
  <2>2. OwnerInv'
    BY <1>2, <1>4, <2>1 DEF Inv, OwnerInv, EntriesAreTheirCapturers,
                            RequestsAreTheirCapturers
  <2>3. \A r \in flush.refused : r.key # 0
    BY <1>1 DEF Flushes, Keys
  <2>4. OneSender'
    BY <1>2, <1>4, <2>1, <2>3
       DEF Inv, OneSender, Flushing
  <2>5. QED BY <2>2, <2>4
<1>5. CASE /\ wire' = [wire EXCEPT ![e.key] = At("upload", generation)]
           /\ flush' = [flush EXCEPT !.todo = @ \ {e}, !.key = e.key]
  <2>1. /\ flush'.todo = flush.todo \ {e} /\ flush'.key = e.key /\ flush'.on
        /\ flush'.lease = flush.lease /\ flush'.refused = flush.refused
    BY <1>1, <1>2, <1>5 DEF Flushes
  <2>2. /\ wire'[e.key] = At("upload", generation)
        /\ \A i \in Keys \ {e.key} : wire'[i] = wire[i]
    BY <1>1, <1>5 DEF Inv, TypeInv, TypeOK
  <2>3. EntriesAreTheirCapturers'
    BY <1>2, <2>1 DEF Inv, OwnerInv, EntriesAreTheirCapturers
  <2>4. RequestsAreTheirCapturers'
    BY <1>1, <1>2, <1>3, <2>2
       DEF Inv, OwnerInv, RequestsAreTheirCapturers, At, LeaseInv, LeaseTypeOK
  <2>5. /\ wire'[e.key].at # "idle"
        /\ \A f \in flush.todo : f # e => f.key # e.key
        /\ \A f \in queue \cup flush.todo : f.key \in Keys
    BY <1>1, <2>2
       DEF At, Inv, OneSender, TypeInv, TypeOK, Flushes, Entry
  <2>6. OneSender'
    <3>1. \A f \in queue : wire'[f.key].at = "idle" \/ Flushing(f.key)'
      <4> SUFFICES ASSUME NEW f \in queue
                   PROVE  wire'[f.key].at = "idle" \/ Flushing(f.key)'
        OBVIOUS
      <4>1. CASE f.key = e.key
        BY <2>1, <4>1 DEF Flushing
      <4>2. CASE f.key # e.key
        BY <1>2, <2>2, <2>5, <4>2
           DEF Inv, OneSender, Flushing, Keys
      <4>3. QED BY <4>1, <4>2
    <3>2. \A f \in flush'.todo : wire'[f.key].at = "idle"
      BY <2>1, <2>2, <2>5 DEF Inv, OneSender
    <3>3. \A r \in flush.refused : /\ r.key # e.key
                                  /\ \A f \in flush.todo : f.key # r.key
      BY DEF Inv, OneSender
    <3>4. QED
      BY <1>2, <2>1, <2>5, <3>1, <3>2, <3>3 DEF Inv, OneSender
  <2>7. QED BY <2>3, <2>4, <2>6 DEF OwnerInv
<1>6. QED BY <1>4, <1>5, Zenon DEF SendEntry

LEMMA OwnersTakeAnswer ==
  ASSUME Inv, TakeAnswer
  PROVE  OwnerInv' /\ OneSender'
<1>1. /\ flush.key \in Keys /\ flush \in Flushes
      /\ UNCHANGED <<subject, generation, captures, queue>>
  BY DEF TakeAnswer, Inv, TypeInv, MemoryType, Flushes, leaseVars, storageVars
<1>2. PICK rs : /\ flush'.key = 0 /\ flush'.todo = flush.todo
                /\ flush'.lease = flush.lease /\ flush'.refused = rs
                /\ rs = flush.refused
                   \/ \E c : rs = flush.refused
                                    \cup {[key |-> flush.key, code |-> c]}
  BY <1>1 DEF TakeAnswer, Flushes
<1>3. /\ wire'[flush.key] = Idle
      /\ \A i \in Keys \ {flush.key} : wire'[i] = wire[i]
  BY <1>1 DEF TakeAnswer, Settle, Inv, TypeInv, TypeOK
<1>4. OwnerInv'
  BY <1>1, <1>2, <1>3
     DEF Inv, OwnerInv, EntriesAreTheirCapturers, RequestsAreTheirCapturers,
         Idle, At, LeaseInv, LeaseTypeOK
<1>5. \A f \in flush.todo : f.key # flush.key
  BY <1>1 DEF Inv, OneSender, Keys
<1>6. \A f \in queue \cup flush.todo : f.key \in Keys /\ wire'[f.key].at = "idle"
  <2>1. \A f \in queue \cup flush.todo : f.key \in Keys
    BY <1>1 DEF Inv, TypeInv, TypeOK, Flushes, Entry
  <2>2. QED
    BY <1>1, <1>3, <2>1 DEF Inv, OneSender, Flushing, Idle, At
<1>7. /\ \A r, q \in rs : r.key = q.key => r = q
      /\ \A r \in rs : r.key # 0 /\ \A e \in flush.todo : e.key # r.key
  <2>1. \A r \in flush.refused : /\ r.key # flush.key /\ r.key # 0
                                 /\ \A e \in flush.todo : e.key # r.key
    BY <1>1 DEF Inv, OneSender, Flushes, Keys
  <2>2. QED BY <1>1, <1>2, <1>5, <2>1 DEF Inv, OneSender, Keys
<1>8. OneSender'
  BY <1>1, <1>2, <1>6, <1>7 DEF Inv, OneSender
<1>9. QED BY <1>4, <1>8

\* what the flush writes back for one entry
LEMMA AnsweredEntries ==
  ASSUME Inv, NEW e \in queue, NEW f \in Answered(e)
  PROVE  /\ f.key = e.key /\ f.by = e.by
         /\ f = e \/ f.status = "needs-attention"
         /\ \A g \in Answered(e) : f = g
<1> DEFINE codes == {r.code : r \in {q \in flush.refused : q.key = e.key}}
<1>1. \A c, d \in codes : c = d
  BY DEF Inv, OneSender
<1>2. \A c : LET g == Refused(e, c)
             IN g.key = e.key /\ g.by = e.by /\ g.status = "needs-attention"
  BY DEF Refused, Entry, Inv, TypeInv, TypeOK
<1>3. CASE codes = {}
  BY <1>3 DEF Answered
<1>4. CASE codes # {}
  <2>1. Answered(e) = {Refused(e, c) : c \in codes}
    BY <1>4, Zenon DEF Answered
  <2>2. QED BY <1>1, <1>2, <2>1
<1>5. QED BY <1>3, <1>4

LEMMA OwnersEndFlush ==
  ASSUME Inv, EndFlush
  PROVE  OwnerInv' /\ OneSender'
<1>1. /\ UNCHANGED <<subject, generation, captures, wire>>
      /\ flush.key = 0 /\ flush' = NoFlush /\ queue \subseteq Entry
      /\ queue' = UNION {Answered(e) : e \in Without(flush.sent)}
  BY DEF EndFlush, Between, leaseVars, Inv, TypeInv, TypeOK
<1>2. \A f \in queue' : \E e \in queue : f \in Answered(e)
  BY <1>1 DEF Without
<1>3. \A f, g \in queue' : f.key = g.key => f = g
  BY <1>2, AnsweredEntries DEF Inv, OneSender
<1>4. \A f \in queue' : wire'[f.key].at = "idle"
  <2>1. \A e \in queue : e.key \in Keys /\ e.key # 0
    BY <1>1 DEF Entry, Keys
  <2>2. QED
    BY <1>1, <1>2, <2>1, AnsweredEntries
       DEF Inv, OneSender, Flushing
<1>5. OwnerInv'
  BY <1>1, <1>2, AnsweredEntries
     DEF Inv, OwnerInv, EntriesAreTheirCapturers, RequestsAreTheirCapturers,
         NoFlush
<1>6. OneSender'
  BY <1>1, <1>3, <1>4 DEF OneSender, NoFlush
<1>7. QED BY <1>5, <1>6

LEMMA OwnersSession ==
  ASSUME Inv, ChangeSession
  PROVE  OwnerInv' /\ OneSender'
<1>1. /\ generation' >= generation
      /\ generation' = generation => subject' = subject
      /\ UNCHANGED <<captures, queue, flush, wire>>
  BY GenerationFixesTheAccount DEF ChangeSession, Inv, storageVars
<1>2. generation \in Nat /\ generation' \in Nat
  BY LeaseInvStep DEF ChangeSession, Inv, LeaseInv, LeaseTypeOK
<1>3. \A k \in Keys : wire[k].gen \in Nat
  BY DEF Inv, TypeInv, TypeOK, Request
<1>4. RequestsAreTheirCapturers'
  BY <1>1, <1>2, <1>3 DEF Inv, OwnerInv, RequestsAreTheirCapturers
<1>5. QED
  BY <1>1, <1>4 DEF Inv, OwnerInv, OneSender, EntriesAreTheirCapturers,
                    Flushing

LEMMA OwnersReload ==
  ASSUME Inv, Reload
  PROVE  OwnerInv' /\ OneSender'
<1>1. /\ UNCHANGED <<subject, generation, captures, queue>>
      /\ flush' = NoFlush
      /\ \A k \in Keys : wire'[k] = Idle
      /\ \A e \in queue : e.key \in Keys
      /\ generation \in Nat
  BY DEF Reload, ForgetLease, storageVars, Inv, LeaseInv, LeaseTypeOK, TypeInv,
         TypeOK, Entry
<1>2. OwnerInv'
  BY <1>1 DEF Inv, OwnerInv, EntriesAreTheirCapturers,
              RequestsAreTheirCapturers, NoFlush, Idle, At
<1>3. OneSender'
  BY <1>1 DEF Inv, OneSender, NoFlush,
              Idle, At
<1>4. QED BY <1>2, <1>3
-----------------------------------------------------------------------------
(* The invariant is kept by every step.                                    *)

LEMMA LeaseInvNext ==
  ASSUME LeaseInv, [Next]_vars
  PROVE  LeaseInv'
<1>1. CASE ChangeSession
  BY <1>1, LeaseInvStep DEF ChangeSession
<1>2. CASE Reload
  BY <1>2, LeaseInvForget DEF Reload
<1>3. CASE UNCHANGED leaseVars
  BY <1>3, LeaseInvStutter
<1>4. QED
  BY <1>1, <1>2, <1>3
     DEF Next, vars, HandOver, Override, CompleteElsewhere, Decide, Attempt,
         Post, Lose, Land, SubmissionRecorded, SubmissionConflict,
         SubmissionRetained, SubmissionUnanswered, DriverStep, LoadTrip,
         WriteDraft, Swipe, RetryAttention, SendLate, DriverDiscards,
         DiscardEntry, DiscardDraft, Trigger, FlushStep, SendEntry,
         TakeAnswer, EndFlush, EndLate

LEMMA InvStep ==
  ASSUME Inv, Next
  PROVE  Inv'
<1>0. LeaseInv'
  BY LeaseInvNext DEF Inv
<1>1. CASE HandOver \/ Override \/ CompleteElsewhere
  <2>1. TypeInv'
    BY <1>1, TypeInvServer DEF Inv
  <2>2. UNCHANGED <<subject, generation, captures, queue, flush, wire>>
    BY <1>1 DEF HandOver, Override, CompleteElsewhere, Decide, leaseVars,
                storageVars, memoryVars
  <2>3. QED BY <1>0, <2>1, <2>2, QuietSteps DEF Inv
<1>2. ASSUME NEW k \in DOMAIN captures, Post(k) \/ Lose(k) PROVE Inv'
  BY <1>0, <1>2, TypeInvRequests, OwnersRequests DEF Inv
<1>3. ASSUME NEW k \in DOMAIN captures, NEW persisted \in BOOLEAN,
             \/ SubmissionRecorded(k) \/ SubmissionConflict(k)
             \/ SubmissionRetained(k, persisted)
             \/ SubmissionUnanswered(k, persisted)
      PROVE  Inv'
  BY <1>0, <1>3, TypeInvSubmissions, OwnersSubmissions DEF Inv
<1>4. ASSUME NEW r \in stray, Land(r) PROVE Inv'
  <2>1. UNCHANGED <<subject, generation, captures, queue, flush, wire>>
    BY <1>4 DEF Land, leaseVars, storageVars, memoryVars
  <2>2. QED BY <1>0, <1>4, <2>1, TypeInvLand, QuietSteps DEF Inv
<1>5. ASSUME NEW p \in Phases, LoadTrip \/ WriteDraft(p) PROVE Inv'
  <2>1. UNCHANGED <<subject, generation, captures, queue, flush, wire>>
    BY <1>5 DEF LoadTrip, WriteDraft, leaseVars, storageVars, memoryVars
  <2>2. QED BY <1>0, <1>5, <2>1, TypeInvScreen, QuietSteps DEF Inv
<1>6. ASSUME NEW p \in Phases, Swipe(p) PROVE Inv'
  BY <1>0, <1>6, TypeInvScreen, OwnersSwipe DEF Inv
<1>7. CASE RetryAttention \/ EndLate \/ \E e \in queue : DiscardEntry(e)
  BY <1>0, <1>7, TypeInvReview, OwnersReview DEF Inv, OwnerInv
<1>8. CASE \/ \E e \in queue, taken, lost \in BOOLEAN : SendLate(e, taken, lost)
           \/ \E item \in retained : DiscardDraft(item)
  <2>1. UNCHANGED <<subject, generation, captures, queue, flush, wire>>
    BY <1>8 DEF SendLate, DiscardDraft, leaseVars, storageVars, memoryVars
  <2>2. QED BY <1>0, <1>8, <2>1, TypeInvReview, QuietSteps DEF Inv, OwnerInv
<1>9. CASE Trigger
  BY <1>0, <1>9, TypeInvFlush, OwnersTrigger DEF Inv
<1>10. ASSUME NEW e \in flush.todo, SendEntry(e) PROVE Inv'
  BY <1>0, <1>10, TypeInvFlush, OwnersSend DEF Inv
<1>11. CASE TakeAnswer
  BY <1>0, <1>11, TypeInvFlush, OwnersTakeAnswer DEF Inv
<1>12. CASE EndFlush
  BY <1>0, <1>12, TypeInvFlush, OwnersEndFlush DEF Inv
<1>13. CASE ChangeSession
  BY <1>0, <1>13, TypeInvSession, OwnersSession DEF Inv
<1>14. CASE Reload
  BY <1>0, <1>14, TypeInvSession, OwnersReload DEF Inv
<1>15. 1 \in Phases
  BY QueueAssumption DEF Phases
<1>16. QED
  BY <1>1, <1>2, <1>3, <1>4, <1>5, <1>6, <1>7, <1>8, <1>9, <1>10, <1>11, <1>12,
     <1>13, <1>14, <1>15
     DEF Next, Attempt, DriverStep, DriverDiscards, FlushStep

LEMMA InvStutter == ASSUME Inv, UNCHANGED vars PROVE Inv'
<1>1. LeaseInv'
  BY LeaseInvStutter DEF Inv, vars
<1>2. OwnerInv' /\ OneSender'
  BY QuietSteps DEF Inv, vars, leaseVars, storageVars, memoryVars
<1>3. TypeInv'
  BY DEF Inv, TypeInv, TypeOK, MemoryType, LeaseTypeOK, vars, leaseVars,
         serverVars, storageVars, memoryVars
<1>4. QED BY <1>1, <1>2, <1>3 DEF Inv

LEMMA AlwaysInv == Spec => []Inv
<1>1. Inv /\ [Next]_vars => Inv'
  BY InvStep, InvStutter
<1>2. QED BY <1>1, InitInv, PTL DEF Spec
-----------------------------------------------------------------------------
(* Every variable of the phone and the server keeps its type.              *)
THEOREM TypeCorrect == Spec => []TypeOK
<1>1. Inv => TypeOK
  BY DEF Inv, TypeInv
<1>2. QED BY <1>1, AlwaysInv, PTL

(* While a driver is bound on the phone, requests carry that driver's own  *)
(* token (observeAuthSession and bindActorLease in custody-context.ts).    *)
THEOREM BoundDriverIsTheAccount == Spec => []ActorIsTheSession
<1>1. Inv => ActorIsTheSession
  BY DEF Inv, LeaseInv
<1>2. QED BY <1>1, AlwaysInv, PTL

(* A phase capture is sent with its own driver's token only, by the step   *)
(* screen or by the flush, however often the phone changes hands.          *)
THEOREM SentUnderItsOwnName == Spec => []SentAsCapturer
<1>1. Inv => SentAsCapturer
  BY CaptureType
     DEF Inv, OwnerInv, RequestsAreTheirCapturers, SentAsCapturer
<1>2. QED BY <1>1, AlwaysInv, PTL
-----------------------------------------------------------------------------
(***************************************************************************)
(* The phone loses no evidence: every draft, retained draft and queued     *)
(* capture that leaves it is accounted for, though a driver may come back  *)
(* to the trip.                                                            *)
(***************************************************************************)

\* rows are decided from the first one on, without a gap
RowsInOrder == \A p \in Phases : rows[p] # Open <=> p <= Decided

(* A capture, and the trip on screen, belong to the driver who held the    *)
(* trip in their period.                                                   *)
PeriodsFitDrivers ==
  /\ \A k \in DOMAIN captures : /\ captures[k].seq <= period
                                /\ captures[k].by = HolderOf(captures[k].seq)
  /\ trip.open => trip.seq <= period /\ subject = HolderOf(trip.seq)

DoneByHolder(p) == rows[p].state = "done" => rows[p].by = Holder

(* Whatever was open when the present holder looked, and is completed now, *)
(* that driver completed: whether it was the trip on screen that looked,   *)
(* an answer, or a capture.                                                *)
CompletedSinceByHolder ==
  /\ trip.open /\ trip.seq = period
       => \A p \in Phases : p > trip.done => DoneByHolder(p)
  /\ \A k \in DOMAIN captures :
       captures[k].seq = period
         => /\ IsPhase(k) => DoneByHolder(captures[k].phase)
            /\ wire[k].ans = "recorded"
                 => \A p \in Phases : p > wire[k].done => DoneByHolder(p)

(* The server has the capture, or another one of the driver for that row.  *)
Received(k) ==
  \/ \E d \in Drivers : Held(k, d)
  \/ /\ IsPhase(k)
     /\ rows[captures[k].phase].state = "done"
     /\ rows[captures[k].phase].by = captures[k].by

(* An answer that lets the phone forget a capture is true; the step screen *)
(* may also have concluded it from the plan, and then it has moved on to a *)
(* later period.                                                           *)
MovedOn(k) == /\ captures[k].seq < period
              /\ trip.open => trip.seq > captures[k].seq

Delivered(k) == wire[k].ans \in {"recorded", "duplicate"}

AnswersAreTrue ==
  /\ \A k \in Keys :
       Delivered(k) => /\ k \in DOMAIN captures
                       /\ Received(k) \/ (~Flushing(k) /\ MovedOn(k))
  /\ \A k \in flush.sent : k \in DOMAIN captures /\ Received(k)
  /\ late.ans = "receipt"
       => late.key \in DOMAIN captures /\ late.key \in receipts

KeptInv == /\ RowsInOrder /\ PeriodsFitDrivers /\ CompletedSinceByHolder
           /\ AnswersAreTrue
-----------------------------------------------------------------------------
(* What a step does to the server.                                         *)

RowStep ==
  \/ rows' = rows
  \/ /\ Decided + 1 \in Phases
     /\ \E row : /\ row # Open
                 /\ row.state = "done" => row.by = Holder
                 /\ rows' = [rows EXCEPT ![Decided + 1] = row]

ServerStep ==
  /\ RowStep
  /\ logged \subseteq logged' /\ receipts \subseteq receipts'
  /\ period' = period \/ (period' = period + 1 /\ rows' = rows)

LEMMA RowKinds ==
  /\ Overridden # Open /\ Overridden.state = "overridden"
  /\ \A d, k : /\ DoneBy(d, k) # Open
               /\ DoneBy(d, k).state = "done" /\ DoneBy(d, k).by = d
  /\ Open.state = "open"
BY DEF Overridden, Open, DoneBy

LEMMA ReceiveIsServerStep ==
  ASSUME TypeInv, NEW k, NEW d, Receive(k, d)
  PROVE  ServerStep
<1>1. UNCHANGED <<period, receipts>> /\ logged \subseteq logged'
  BY DEF Receive
<1>2. RowStep
  <2> SUFFICES ASSUME Takes(k, d), IsPhase(k), rows[captures[k].phase] = Open,
                      rows' = [rows EXCEPT ![captures[k].phase] = DoneBy(d, k)]
               PROVE  RowStep
    BY DEF Receive, RowStep
  <2>1. d = Holder /\ captures[k].phase = Decided + 1
    BY RowKinds DEF Takes, Answer, FormerAnswer
  <2>2. /\ Decided + 1 \in Phases
        /\ rows' = [rows EXCEPT ![Decided + 1] = DoneBy(d, k)]
    BY <2>1, Zenon DEF IsPhase
  <2>3. PICK row : /\ row = DoneBy(d, k) /\ row # Open
                   /\ row.state = "done" => row.by = Holder
    BY <2>1, RowKinds
  <2>4. QED BY <2>2, <2>3, Zenon DEF RowStep
<1>3. QED BY <1>1, <1>2 DEF ServerStep

LEMMA NextIsServerStep ==
  ASSUME Inv, [Next]_vars
  PROVE  ServerStep
<1>1. CASE HandOver
  BY <1>1 DEF HandOver, ServerStep, RowStep
<1>2. ASSUME NEW row, Decide(row), row = Overridden \/ row = DoneBy(Holder, 0)
      PROVE  ServerStep
  <2>1. Decided + 1 \in Phases
    BY <1>2, DecisionType, QueueAssumption DEF Inv, Decide, Phases
  <2>2. row # Open /\ (row.state = "done" => row.by = Holder)
    BY <1>2, RowKinds
  <2>3. QED BY <1>2, <2>1, <2>2 DEF Decide, ServerStep, RowStep
<1>3. ASSUME NEW k, Post(k) PROVE ServerStep
  BY <1>3, ReceiveIsServerStep
     DEF Inv, Post, serverVars, ServerStep, RowStep
<1>4. ASSUME NEW r, Land(r) PROVE ServerStep
  BY <1>4, ReceiveIsServerStep DEF Inv, Land
<1>5. ASSUME NEW e, NEW taken, NEW lost, SendLate(e, taken, lost) PROVE ServerStep
  BY <1>5 DEF SendLate, ServerStep, RowStep
<1>6. CASE UNCHANGED serverVars
  BY <1>6 DEF serverVars, ServerStep, RowStep
<1>7. QED
  BY <1>1, <1>2, <1>3, <1>4, <1>5, <1>6
     DEF Next, vars, Override, CompleteElsewhere, Attempt, Lose,
         SubmissionRecorded, SubmissionConflict, SubmissionRetained,
         SubmissionUnanswered, DriverStep, LoadTrip, WriteDraft, Swipe,
         RetryAttention, DriverDiscards, DiscardEntry, DiscardDraft, Trigger,
         FlushStep, SendEntry, TakeAnswer, EndFlush, EndLate, ChangeSession,
         Reload

LEMMA CountOfPrefix ==
  ASSUME NEW n \in 0..Rows, NEW S, S = 1..n
  PROVE  Cardinality(S) = n
BY QueueAssumption, FS_Interval

LEMMA RowsStayInOrder ==
  ASSUME Inv, RowsInOrder, ServerStep
  PROVE  /\ RowsInOrder'
         /\ \A p \in Phases : rows[p] # Open => rows'[p] = rows[p]
<1>1. CASE rows' = rows
  BY <1>1 DEF RowsInOrder, Decided
<1>2. CASE rows' # rows
  <2>1. PICK row : row # Open /\ rows' = [rows EXCEPT ![Decided + 1] = row]
    BY <1>2 DEF ServerStep, RowStep
  <2>2. Decided + 1 \in Phases /\ Decided \in 0..Rows
    BY <1>2, DecisionType DEF Inv, ServerStep, RowStep
  <2>3. \A p \in Phases : rows'[p] # Open <=> p <= Decided + 1
    BY <2>1, <2>2, QueueAssumption DEF RowsInOrder, Inv, TypeInv, TypeOK, Phases
  <2>4. {p \in Phases : rows'[p] # Open} = 1..(Decided + 1)
    BY <2>2, <2>3, QueueAssumption DEF Phases
  <2>5. Decided' = Decided + 1
    <3>1. Decided + 1 \in 0..Rows
      BY <2>2, QueueAssumption DEF Phases
    <3>2. Cardinality({p \in Phases : rows'[p] # Open}) = Decided + 1
      BY <2>4, <3>1, CountOfPrefix
    <3>3. QED BY <3>2 DEF Decided
  <2>6. \A p \in Phases : rows[p] # Open => rows'[p] = rows[p]
    BY <2>1, <2>2, QueueAssumption DEF RowsInOrder, Inv, TypeInv, TypeOK, Phases
  <2>7. QED BY <2>3, <2>5, <2>6 DEF RowsInOrder
<1>3. QED BY <1>1, <1>2

LEMMA DoneByHolderStays ==
  ASSUME Inv, ServerStep, period' = period, NEW p \in Phases, DoneByHolder(p)
  PROVE  DoneByHolder(p)'
<1>1. Holder' = Holder
  BY DEF Holder, HolderOf
<1>2. CASE rows' = rows
  BY <1>1, <1>2 DEF DoneByHolder
<1>3. CASE rows' # rows
  <2>1. PICK row : /\ row.state = "done" => row.by = Holder
                   /\ rows' = [rows EXCEPT ![Decided + 1] = row]
    BY <1>3 DEF ServerStep, RowStep
  <2>2. rows'[p] = rows[p] \/ rows'[p] = row
    BY <2>1 DEF Inv, TypeInv, TypeOK
  <2>3. QED BY <1>1, <2>1, <2>2 DEF DoneByHolder
<1>4. QED BY <1>2, <1>3

LEMMA ReceivedStays ==
  ASSUME Inv, RowsInOrder, ServerStep,
         NEW k \in DOMAIN captures, captures'[k] = captures[k], Received(k)
  PROVE  Received(k)'
<1>1. ASSUME NEW p \in Phases, rows[p].state = "done"
      PROVE  rows'[p] = rows[p]
  BY <1>1, RowsStayInOrder, RowKinds
<1>2. ASSUME NEW d \in Drivers, Held(k, d) PROVE Held(k, d)'
  <2>1. CASE IsPhase(k)
    BY <1>1, <1>2, <2>1, RowKinds DEF Held, IsPhase
  <2>2. CASE ~IsPhase(k)
    BY <1>2, <2>2 DEF Held, IsPhase, ServerStep
  <2>3. QED BY <2>1, <2>2
<1>3. ASSUME IsPhase(k), rows[captures[k].phase].state = "done"
      PROVE  IsPhase(k)' /\ rows'[captures'[k].phase] = rows[captures[k].phase]
  BY <1>1, <1>3 DEF IsPhase
<1>4. QED BY <1>2, <1>3 DEF Received

LEMMA PeriodsGrow ==
  ASSUME Inv, ServerStep
  PROVE  period \in Nat /\ period' \in Nat /\ period <= period'
BY QueueAssumption DEF ServerStep, Inv, TypeInv, TypeOK, Periods

(* A step that touches nothing of the phone's memory, but perhaps the rows,*)
(* the storage or the drafts.                                              *)
LEMMA KeptElsewhere ==
  ASSUME Inv, KeptInv, ServerStep, period' = period,
         UNCHANGED <<subject, trip, captures, wire, flush, late>>
  PROVE  KeptInv'
<1>1. RowsInOrder'
  BY RowsStayInOrder DEF KeptInv
<1>2. PeriodsFitDrivers'
  BY DEF KeptInv, PeriodsFitDrivers, HolderOf
<1>3. CompletedSinceByHolder'
  <2>1. \A k \in DOMAIN captures : IsPhase(k)' <=> IsPhase(k)
    BY DEF IsPhase
  <2>2. QED
    BY <2>1, DoneByHolderStays
       DEF KeptInv, CompletedSinceByHolder, IsPhase
<1>4. AnswersAreTrue'
  BY ReceivedStays DEF KeptInv, AnswersAreTrue, Delivered, ServerStep, Flushing, MovedOn
<1>5. QED BY <1>1, <1>2, <1>3, <1>4 DEF KeptInv

LEMMA KeptHandOver ==
  ASSUME Inv, KeptInv, HandOver
  PROVE  KeptInv'
<1>1. /\ period' = period + 1 /\ period \in Nat
      /\ UNCHANGED <<rows, logged, receipts, subject, trip, captures, wire,
                     flush, late>>
  BY QueueAssumption
     DEF HandOver, leaseVars, memoryVars, Inv, TypeInv, TypeOK, Periods
<1>2. ServerStep
  BY <1>1 DEF ServerStep, RowStep
<1>3. RowsInOrder'
  BY <1>2, RowsStayInOrder DEF KeptInv
<1>4. /\ \A k \in DOMAIN captures : captures[k].seq \in Nat
      /\ trip.seq \in Nat
  BY CaptureType, QueueAssumption
     DEF Inv, Items, TypeInv, MemoryType, Periods
<1>5. PeriodsFitDrivers'
  BY <1>1, <1>4 DEF KeptInv, PeriodsFitDrivers, HolderOf
<1>6. CompletedSinceByHolder'
  BY <1>1, <1>4 DEF KeptInv, PeriodsFitDrivers, CompletedSinceByHolder
<1>7. AnswersAreTrue'
  BY <1>1, <1>2, <1>4, ReceivedStays
     DEF KeptInv, AnswersAreTrue, Delivered, Flushing, MovedOn
<1>8. QED BY <1>3, <1>5, <1>6, <1>7 DEF KeptInv
-----------------------------------------------------------------------------
(* The two parts of KeptInv that the phone's own steps can disturb: what   *)
(* the trip on screen says, and what an answer says.                       *)

TripKnown ==
  trip.open =>
    /\ trip.seq <= period /\ subject = HolderOf(trip.seq)
    /\ trip.seq = period => \A p \in Phases : p > trip.done => DoneByHolder(p)

AnswerKnown(k) ==
  /\ Delivered(k) => Received(k) \/ (~Flushing(k) /\ MovedOn(k))
  /\ captures[k].seq = period /\ wire[k].ans = "recorded"
       => \A p \in Phases : p > wire[k].done => DoneByHolder(p)

\* the copy of the trip is fresh, or of the same period as before
TripFollows == trip'.open => \/ trip'.seq = period
                             \/ trip.open /\ trip'.seq = trip.seq

LEMMA TripStaysKnown ==
  ASSUME Inv, KeptInv, ServerStep, period' = period,
         trip' = trip, trip.open => subject' = subject
  PROVE  TripKnown'
<1>1. \A p \in Phases : DoneByHolder(p) => DoneByHolder(p)'
  BY DoneByHolderStays
<1>2. QED
  BY <1>1
     DEF KeptInv, PeriodsFitDrivers, CompletedSinceByHolder, TripKnown, HolderOf

LEMMA TripReadIsKnown ==
  ASSUME Inv, KeptInv, UNCHANGED <<rows, period, subject>>, subject = Holder,
         trip' = ServerView
  PROVE  TripKnown' /\ TripFollows
<1>1. trip'.seq = period /\ trip'.done = Decided
  BY DEF ServerView
<1>2. \A p \in Phases : p > Decided => rows[p] = Open
  BY DecisionType, QueueAssumption DEF KeptInv, RowsInOrder, Inv, Phases
<1>3. \A p \in Phases : p > Decided => DoneByHolder(p)'
  BY <1>2, RowKinds DEF DoneByHolder
<1>4. period <= period
  BY PeriodsGrow, QueueAssumption DEF Inv, TypeInv, TypeOK, Periods
<1>5. QED
  BY <1>1, <1>3, <1>4 DEF TripKnown, TripFollows, Holder, HolderOf

LEMMA AnswerStaysKnown ==
  ASSUME Inv, KeptInv, ServerStep, period' = period, TripFollows,
         NEW k \in DOMAIN captures, captures'[k] = captures[k],
         wire'[k].ans = wire[k].ans, wire'[k].done = wire[k].done,
         Flushing(k)' => Flushing(k)
  PROVE  AnswerKnown(k)'
<1>1. k \in Keys /\ captures[k].seq \in Nat /\ trip.seq \in Nat
  BY CaptureType, QueueAssumption
     DEF Inv, Items, TypeInv, MemoryType, Periods
<1>2. Received(k) => Received(k)'
  BY ReceivedStays DEF KeptInv
<1>3. MovedOn(k) => MovedOn(k)'
  BY <1>1 DEF MovedOn, TripFollows
<1>4. \A p \in Phases : DoneByHolder(p) => DoneByHolder(p)'
  BY DoneByHolderStays
<1>5. QED
  BY <1>1, <1>2, <1>3, <1>4
     DEF KeptInv, AnswersAreTrue, CompletedSinceByHolder, AnswerKnown, Delivered

LEMMA NoAnswerIsKnown ==
  ASSUME NEW k, wire'[k].ans \notin {"recorded", "duplicate"}
  PROVE  AnswerKnown(k)'
BY DEF AnswerKnown, Delivered

(* The frame of every step that makes no capture.                          *)
LEMMA KeptOnPhone ==
  ASSUME Inv, KeptInv, ServerStep, period' = period, captures' = captures,
         TripKnown',
         \A k \in DOMAIN captures : AnswerKnown(k)',
         \A k \in Keys : Delivered(k)' => k \in DOMAIN captures,
         \A k \in flush'.sent : k \in DOMAIN captures /\ Received(k),
         late'.ans = "receipt"
           => late'.key \in DOMAIN captures /\ late'.key \in receipts'
  PROVE  KeptInv'
<1>1. RowsInOrder'
  BY RowsStayInOrder DEF KeptInv
<1>2. PeriodsFitDrivers'
  BY DEF KeptInv, PeriodsFitDrivers, TripKnown, HolderOf
<1>3. CompletedSinceByHolder'
  <2>1. \A k \in DOMAIN captures : IsPhase(k)' <=> IsPhase(k)
    BY DEF IsPhase
  <2>2. \A k \in DOMAIN captures :
          captures[k].seq = period /\ IsPhase(k) => DoneByHolder(captures[k].phase)'
    BY DoneByHolderStays DEF KeptInv, CompletedSinceByHolder, IsPhase
  <2>3. QED BY <2>1, <2>2 DEF CompletedSinceByHolder, TripKnown, AnswerKnown
<1>4. AnswersAreTrue'
  <2>1. \A k \in flush'.sent : Received(k)'
    BY ReceivedStays DEF KeptInv
  <2>2. QED BY <2>1 DEF AnswersAreTrue, AnswerKnown
<1>5. QED BY <1>1, <1>2, <1>3, <1>4 DEF KeptInv
-----------------------------------------------------------------------------
(* Init, and each step.                                                    *)

LEMMA KeptInit == Init => KeptInv
<1> SUFFICES ASSUME Init PROVE KeptInv
  OBVIOUS
<1>1. rows = [p \in Phases |-> Open] /\ captures = <<>> /\ trip.open = FALSE
  BY DEF Init, NoTrip
<1>2. flush.sent = {} /\ late.ans = "none"
      /\ \A k \in Keys : wire[k].ans = "none"
  BY DEF Init, NoFlush, LateIdle, Idle, At
<1>3. Decided = 0
  <2>1. {p \in Phases : rows[p] # Open} = 1..0
    BY <1>1
  <2>2. 0 \in 0..Rows
    BY QueueAssumption
  <2>3. Cardinality({p \in Phases : rows[p] # Open}) = 0
    BY <2>1, <2>2, CountOfPrefix
  <2>4. QED BY <2>3 DEF Decided
<1>4. RowsInOrder
  BY <1>1, <1>3 DEF RowsInOrder, Phases
<1>5. PeriodsFitDrivers /\ CompletedSinceByHolder
  BY <1>1 DEF PeriodsFitDrivers, CompletedSinceByHolder
<1>6. AnswersAreTrue
  BY <1>2 DEF AnswersAreTrue, Delivered
<1>7. QED BY <1>4, <1>5, <1>6 DEF KeptInv

(* A driver looks: the copy of the trip is fresh, nothing else changes.    *)
LEMMA KeptLoadTrip ==
  ASSUME Inv, KeptInv, LoadTrip
  PROVE  KeptInv'
<1>1. /\ UNCHANGED <<period, rows, logged, receipts, captures, subject, wire,
                     flush, late>>
  BY DEF LoadTrip, leaseVars, serverVars
<1>2. ServerStep
  BY <1>1 DEF ServerStep, RowStep
<1>3. TripKnown' /\ TripFollows
  <2>1. CASE subject = Holder /\ trip' = ServerView
    BY <1>1, <2>1, TripReadIsKnown
  <2>2. CASE trip' = NoTrip
    BY <2>2 DEF NoTrip, TripKnown, TripFollows
  <2>3. QED BY <2>1, <2>2 DEF LoadTrip
<1>4. \A k \in DOMAIN captures : AnswerKnown(k)'
  BY <1>1, <1>2, <1>3, AnswerStaysKnown DEF Flushing
<1>5. QED
  BY <1>1, <1>2, <1>3, <1>4, KeptOnPhone
     DEF KeptInv, AnswersAreTrue, Delivered

(* Steps of the flush, of late evidence and of the session, and a reload:  *)
(* requests settle or start, and answers are taken.                        *)
LEMMA KeptBetween ==
  ASSUME Inv, KeptInv, ServerStep, period' = period, captures' = captures,
         trip' = NoTrip \/ (trip' = trip /\ (trip.open => subject' = subject)),
         \A k \in Keys : \/ wire'[k] = wire[k] /\ (Flushing(k)' => Flushing(k))
                         \/ wire'[k].ans \notin {"recorded", "duplicate"},
         \A k \in flush'.sent : k \in DOMAIN captures /\ Received(k),
         late'.ans = "receipt"
           => late'.key \in DOMAIN captures /\ late'.key \in receipts'
  PROVE  KeptInv'
<1>1. TripKnown' /\ TripFollows
  <2>1. CASE trip' = NoTrip
    BY <2>1 DEF NoTrip, TripKnown, TripFollows
  <2>2. CASE trip' = trip /\ (trip.open => subject' = subject)
    BY <2>2, TripStaysKnown DEF TripFollows
  <2>3. QED BY <2>1, <2>2
<1>2. \A k \in DOMAIN captures : AnswerKnown(k)'
  <2>1. DOMAIN captures \subseteq Keys
    BY CaptureType DEF Inv
  <2>2. TAKE k \in DOMAIN captures
  <2>3. CASE wire'[k] = wire[k] /\ (Flushing(k)' => Flushing(k))
    BY <1>1, <2>3, AnswerStaysKnown
  <2>4. CASE wire'[k].ans \notin {"recorded", "duplicate"}
    BY <2>4, NoAnswerIsKnown
  <2>5. QED BY <2>1, <2>3, <2>4
<1>3. \A k \in Keys : Delivered(k)' => k \in DOMAIN captures
  BY DEF KeptInv, AnswersAreTrue, Delivered
<1>4. QED BY <1>1, <1>2, <1>3, KeptOnPhone

LEMMA QuietServer == ASSUME UNCHANGED serverVars PROVE ServerStep
BY DEF serverVars, ServerStep, RowStep

LEMMA KeptSwipe ==
  ASSUME Inv, KeptInv, NEW p \in Phases, Swipe(p)
  PROVE  KeptInv'
<1>1. /\ captures' = Append(captures, Stamp(p))
      /\ wire' = [wire EXCEPT ![NextKey] = At("upload", generation)]
      /\ UNCHANGED <<period, rows, logged, receipts, subject, trip, flush, late>>
      /\ trip.open /\ actor # NoDriver /\ p > trip.done
  BY QueueAssumption
     DEF Swipe, StartCapture, OnScreen, Loaded, Bound, leaseVars, serverVars,
         Inv, TypeInv, MemoryType, Phases
<1>2. /\ captures \in Seq(Items) /\ NextKey \in Keys
      /\ NextKey \notin DOMAIN captures
      /\ DOMAIN captures' = DOMAIN captures \cup {NextKey}
      /\ \A k \in DOMAIN captures : k \in Keys /\ captures'[k] = captures[k]
      /\ captures'[NextKey] = Stamp(p)
  BY <1>1, QueueAssumption
     DEF Swipe, StartCapture, NextKey, Keys, Inv, TypeInv, TypeOK
<1>3. /\ wire'[NextKey].ans = "none"
      /\ \A k \in Keys \ {NextKey} : wire'[k] = wire[k]
  BY <1>1, <1>2 DEF Inv, TypeInv, TypeOK, At
<1>4. Stamp(p).by = actor /\ Stamp(p).seq = trip.seq /\ Stamp(p).phase = p
  BY DEF Stamp
<1>5. ServerStep
  BY <1>1 DEF ServerStep, RowStep
<1>6. actor = subject
  BY <1>1 DEF Inv, LeaseInv, ActorIsTheSession
<1>7. RowsInOrder'
  BY <1>5, RowsStayInOrder DEF KeptInv
<1>8. PeriodsFitDrivers'
  BY <1>1, <1>2, <1>4, <1>6 DEF KeptInv, PeriodsFitDrivers, HolderOf
<1>9. \A q \in Phases : DoneByHolder(q)' <=> DoneByHolder(q)
  BY <1>1 DEF DoneByHolder, Holder, HolderOf
<1>10. CompletedSinceByHolder'
  <2>1. \A k \in DOMAIN captures : IsPhase(k)' <=> IsPhase(k)
    BY <1>2 DEF IsPhase
  <2>2. ASSUME NEW k \in DOMAIN captures, captures'[k].seq = period
        PROVE  /\ IsPhase(k)' => DoneByHolder(captures[k].phase)'
               /\ wire'[k].ans = "recorded"
                    => \A q \in Phases : q > wire'[k].done => DoneByHolder(q)'
    <3>1. wire'[k] = wire[k] /\ captures[k].seq = period
      BY <1>2, <1>3, <2>2
    <3>2. IsPhase(k) => captures[k].phase \in Phases
      BY DEF IsPhase
    <3>3. captures'[k] = captures[k] /\ Holder' = Holder /\ rows' = rows
      BY <1>1, <1>2 DEF Holder, HolderOf
    <3>4. /\ IsPhase(k) => DoneByHolder(captures[k].phase)
          /\ wire[k].ans = "recorded"
               => \A q \in Phases : q > wire[k].done => DoneByHolder(q)
      BY <3>1 DEF KeptInv, CompletedSinceByHolder
    <3>5. QED
      BY <2>1, <3>1, <3>3, <3>4 DEF DoneByHolder
  <2>3. trip.seq = period => DoneByHolder(p)'
    BY <1>1, <1>9 DEF KeptInv, CompletedSinceByHolder
  <2>4. trip.seq = period =>
          \A q \in Phases : q > trip.done => DoneByHolder(q)'
    BY <1>1, <1>9 DEF KeptInv, CompletedSinceByHolder
  <2>5. QED
    BY <1>1, <1>2, <1>3, <1>4, <2>2, <2>3, <2>4 DEF CompletedSinceByHolder
<1>11. AnswersAreTrue'
  <2>1. \A k \in DOMAIN captures : Received(k) => Received(k)'
    BY <1>2, <1>5, ReceivedStays DEF KeptInv
  <2>2. \A k \in DOMAIN captures : /\ MovedOn(k)' <=> MovedOn(k)
                                   /\ Flushing(k)' <=> Flushing(k)
    BY <1>1, <1>2 DEF MovedOn, Flushing
  <2>3. \A k \in Keys : Delivered(k)' => k # NextKey /\ Delivered(k)
    BY <1>3 DEF Delivered
  <2>4. \A k \in Keys : Delivered(k)' =>
          /\ k \in DOMAIN captures'
          /\ Received(k)' \/ (~Flushing(k)' /\ MovedOn(k)')
    BY <1>2, <2>1, <2>2, <2>3 DEF KeptInv, AnswersAreTrue
  <2>5. \A k \in flush.sent : k \in DOMAIN captures' /\ Received(k)'
    BY <1>2, <2>1 DEF KeptInv, AnswersAreTrue
  <2>6. late.ans = "receipt" =>
          late.key \in DOMAIN captures' /\ late.key \in receipts
    BY <1>2 DEF KeptInv, AnswersAreTrue
  <2>7. QED BY <1>1, <2>4, <2>5, <2>6 DEF AnswersAreTrue
<1>12. QED BY <1>7, <1>8, <1>10, <1>11 DEF KeptInv

(* The server says recorded, or a duplicate: it has the capture.           *)
LEMMA AnswerIsTrue ==
  ASSUME Inv, KeptInv, NEW k \in DOMAIN captures, NEW d,
         Receive(k, d),
         UNCHANGED <<captures, flush>>,
         Answer(k, d) \in {"recorded", "duplicate"}
  PROVE  Received(k)' /\ d \in Drivers
         /\ (Answer(k, d) = "recorded" => d = Holder)
<1>1. /\ d \in PastHolders
      /\ Answer(k, d) = "duplicate" => Held(k, d)
      /\ Answer(k, d) = "recorded" =>
           /\ d = Holder
           /\ captures[k].seq = period \/ Held(k, d)
           /\ IsPhase(k) =>
                LET row == rows[captures[k].phase]
                IN \/ row.state = "done" /\ (period = 0 \/ Held(k, d))
                   \/ row.state = "open"
  BY DEF Answer, FormerAnswer
<1>2. d \in Drivers
  <2>1. 0..period \subseteq Periods
    BY QueueAssumption DEF Inv, TypeInv, TypeOK, Periods
  <2>2. QED BY <1>1, <2>1, HoldersAreDrivers DEF PastHolders
<1>3. ServerStep
  BY ReceiveIsServerStep DEF Inv
<1>4. CASE Held(k, d)
  BY <1>1, <1>2, <1>3, <1>4, ReceivedStays DEF KeptInv, Received
<1>5. CASE ~Held(k, d) /\ ~IsPhase(k)
  <2>1. [key |-> k, by |-> d] \in logged'
    BY <1>1, <1>5 DEF Receive, Takes
  <2>2. Held(k, d)'
    BY <1>5, <2>1 DEF Held, IsPhase
  <2>3. QED BY <1>1, <1>2, <2>2 DEF Received
<1>6. CASE ~Held(k, d) /\ IsPhase(k) /\ rows[captures[k].phase].state = "open"
  <2>1. captures[k].phase \in Phases
    BY <1>6 DEF IsPhase
  <2>2. rows[captures[k].phase] = Open
    BY <1>6, <2>1, RowKinds DEF Inv, TypeInv, TypeOK
  <2>3. rows' = [rows EXCEPT ![captures[k].phase] = DoneBy(d, k)]
    BY <1>1, <1>6, <2>2 DEF Receive, Takes
  <2>4. rows'[captures[k].phase] = DoneBy(d, k)
    BY <2>1, <2>3 DEF Inv, TypeInv, TypeOK
  <2>5. Held(k, d)'
    BY <1>6, <2>4 DEF Held, IsPhase
  <2>6. QED BY <1>1, <1>2, <2>5 DEF Received
<1>7. CASE ~Held(k, d) /\ IsPhase(k) /\ rows[captures[k].phase].state = "done"
  <2>1. captures[k].phase \in Phases
    BY <1>7 DEF IsPhase
  <2>2. captures[k].seq = period
    BY <1>1, <1>7
  <2>3. rows[captures[k].phase].by = Holder
    BY <1>7, <2>2 DEF KeptInv, CompletedSinceByHolder, DoneByHolder
  <2>4. captures[k].by = Holder
    BY <2>2 DEF KeptInv, PeriodsFitDrivers, Holder
  <2>5. Received(k)
    BY <1>7, <2>3, <2>4 DEF Received
  <2>6. QED BY <1>1, <1>2, <1>3, <1>7, <2>5, ReceivedStays DEF KeptInv
<1>8. QED BY <1>1, <1>2, <1>4, <1>5, <1>6, <1>7

LEMMA OnlyOpenRowsAhead ==
  ASSUME Inv, RowsInOrder, ServerStep, NEW p \in Phases, p > Decided'
  PROVE  DoneByHolder(p)'
<1>1. RowsInOrder'
  BY RowsStayInOrder
<1>2. Decided' \in Int
  <2>1. Cardinality({q \in Phases : rows'[q] # Open}) \in 0..Rows
    BY DecidedType
  <2>2. QED BY <2>1, QueueAssumption DEF Decided
<1>3. rows'[p] = Open
  BY <1>1, <1>2, QueueAssumption DEF RowsInOrder, Phases
<1>4. QED BY <1>3, RowKinds DEF DoneByHolder

LEMMA KeptPost ==
  ASSUME Inv, KeptInv, NEW k \in DOMAIN captures, Post(k)
  PROVE  KeptInv'
<1>1. /\ UNCHANGED <<subject, period, receipts, trip, captures, flush, late>>
      /\ k \in Keys
  BY CaptureType DEF Post, Receive, serverVars, leaseVars, Inv
<1>2. ServerStep
  BY ReceiveIsServerStep, QuietServer DEF Post, Inv
<1>3. TripKnown' /\ TripFollows
  BY <1>1, <1>2, TripStaysKnown DEF TripFollows
<1>4. \A j \in Keys : Flushing(j)' <=> Flushing(j)
  BY <1>1 DEF Flushing
<1>5. \A j \in Keys \ {k} : wire'[j] = wire[j]
  BY DEF Post, Ask, Reply, Inv, TypeInv, TypeOK
<1>6. ASSUME Current(k)
      PROVE  /\ AnswerKnown(k)'
  <2>1. /\ Receive(k, subject)
        /\ wire'[k].ans = Answer(k, subject)
        /\ wire'[k].done = Decided'
    BY <1>1, <1>6 DEF Post, Ask, Reply, Decided, Inv, TypeInv, TypeOK
  <2>2. Delivered(k)' => Received(k)'
    BY <1>1, <2>1, AnswerIsTrue DEF Delivered
  <2>3. \A p \in Phases : p > wire'[k].done => DoneByHolder(p)'
    BY <1>2, <2>1, OnlyOpenRowsAhead DEF KeptInv
  <2>4. QED BY <2>2, <2>3 DEF AnswerKnown
<1>7. ASSUME ~Current(k)
      PROVE  AnswerKnown(k)'
  <2>1. wire'[k].ans = wire[k].ans /\ wire'[k].done = wire[k].done
    BY <1>1, <1>7 DEF Post, Reply, Inv, TypeInv, TypeOK
  <2>2. QED BY <1>1, <1>2, <1>3, <1>4, <2>1, AnswerStaysKnown
<1>8. \A j \in DOMAIN captures : AnswerKnown(j)'
  <2>1. \A j \in DOMAIN captures : j \in Keys
    BY CaptureType DEF Inv
  <2>2. ASSUME NEW j \in DOMAIN captures, j # k PROVE AnswerKnown(j)'
    BY <1>1, <1>2, <1>3, <1>4, <1>5, <2>1, <2>2, AnswerStaysKnown
  <2>3. QED BY <1>6, <1>7, <2>2
<1>9. \A j \in Keys : Delivered(j)' => j \in DOMAIN captures
  BY <1>5 DEF KeptInv, AnswersAreTrue, Delivered
<1>10. QED
  BY <1>1, <1>2, <1>3, <1>8, <1>9, KeptOnPhone DEF KeptInv, AnswersAreTrue

(* The capture's own answer is settled, or reread, and the trip on screen  *)
(* is followed.                                                            *)
LEMMA KeptByAttempt ==
  ASSUME Inv, KeptInv, NEW k \in DOMAIN captures,
         UNCHANGED <<subject, period, rows, logged, receipts, captures, flush, late>>,
         \A j \in Keys \ {k} : wire'[j] = wire[j],
         TripKnown', TripFollows, AnswerKnown(k)'
  PROVE  KeptInv'
<1>1. ServerStep
  BY DEF ServerStep, RowStep
<1>2. \A j \in Keys : Flushing(j)' <=> Flushing(j)
  BY DEF Flushing
<1>3. \A j \in DOMAIN captures : AnswerKnown(j)'
  <2>1. \A j \in DOMAIN captures : j \in Keys
    BY CaptureType DEF Inv
  <2>2. ASSUME NEW j \in DOMAIN captures, j # k PROVE AnswerKnown(j)'
    BY <1>1, <1>2, <2>1, <2>2, AnswerStaysKnown
  <2>3. QED BY <2>2
<1>4. \A j \in Keys : Delivered(j)' => j \in DOMAIN captures
  BY DEF KeptInv, AnswersAreTrue, Delivered
<1>5. QED BY <1>1, <1>3, <1>4, KeptOnPhone DEF KeptInv, AnswersAreTrue

\* a request that settles, or is lost, says nothing more
LEMMA SettledIsKnown ==
  ASSUME Inv, NEW k \in Keys, Settle(k)
  PROVE  /\ AnswerKnown(k)'
         /\ \A j \in Keys \ {k} : wire'[j] = wire[j]
<1>1. wire'[k].ans = "none" /\ \A j \in Keys \ {k} : wire'[j] = wire[j]
  BY DEF Settle, Idle, At, Inv, TypeInv, TypeOK
<1>2. QED BY <1>1, NoAnswerIsKnown

LEMMA KeptLose ==
  ASSUME Inv, KeptInv, NEW k \in DOMAIN captures, Lose(k)
  PROVE  KeptInv'
<1>1. /\ UNCHANGED <<subject, period, rows, logged, receipts, trip, captures,
                     flush, late>>
      /\ k \in Keys
  BY CaptureType DEF Lose, serverVars, leaseVars, Inv
<1>2. /\ wire'[k].ans = "lost"
      /\ \A j \in Keys \ {k} : wire'[j] = wire[j]
  BY <1>1 DEF Lose, Ask, Reply, Inv, TypeInv, TypeOK
<1>3. TripKnown' /\ TripFollows
  BY <1>1, TripStaysKnown DEF TripFollows, ServerStep, RowStep
<1>4. AnswerKnown(k)'
  BY <1>2, NoAnswerIsKnown
<1>5. QED BY <1>1, <1>2, <1>3, <1>4, KeptByAttempt

LEMMA KeptRecorded ==
  ASSUME Inv, KeptInv, NEW k \in DOMAIN captures, SubmissionRecorded(k)
  PROVE  KeptInv'
<1>1. /\ UNCHANGED <<subject, period, rows, logged, receipts, captures, flush,
                     late>>
      /\ k \in Keys
  BY CaptureType DEF SubmissionRecorded, serverVars, leaseVars, Inv
<1>2. AnswerKnown(k)' /\ \A j \in Keys \ {k} : wire'[j] = wire[j]
  BY <1>1, SettledIsKnown DEF SubmissionRecorded
<1>3. TripKnown' /\ TripFollows
  <2>1. CASE trip' = trip
    BY <1>1, <2>1, TripStaysKnown DEF TripFollows, ServerStep, RowStep
  <2>2. CASE trip' # trip
    <3>1. /\ SameCapture(k) /\ Outcome(k) = "recorded"
          /\ trip' = [trip EXCEPT !.done = wire[k].done]
      BY <2>2 DEF SubmissionRecorded
    <3>2. trip.open /\ captures[k].seq = trip.seq /\ wire[k].ans = "recorded"
      BY <3>1 DEF SameCapture, Loaded, Outcome
    <3>3. trip'.seq = trip.seq /\ trip'.open = trip.open /\ trip'.done = wire[k].done
      BY <3>1 DEF Inv, TypeInv, MemoryType
    <3>4. trip.seq = period =>
            \A p \in Phases : p > wire[k].done => DoneByHolder(p)'
      BY <1>1, <3>2 DEF KeptInv, CompletedSinceByHolder, DoneByHolder, Holder, HolderOf
    <3>5. QED
      BY <1>1, <3>2, <3>3, <3>4
         DEF KeptInv, PeriodsFitDrivers, TripKnown, TripFollows, HolderOf
  <2>3. QED BY <2>1, <2>2
<1>4. QED BY <1>1, <1>2, <1>3, KeptByAttempt

LEMMA KeptUnrecorded ==
  ASSUME Inv, KeptInv, NEW k \in DOMAIN captures, NEW persisted \in BOOLEAN,
         SubmissionRetained(k, persisted) \/ SubmissionUnanswered(k, persisted)
  PROVE  KeptInv'
<1>1. /\ UNCHANGED <<subject, period, rows, logged, receipts, captures, flush,
                     late>>
      /\ k \in Keys
  BY CaptureType
     DEF SubmissionRetained, SubmissionUnanswered, serverVars, leaseVars, Inv
<1>2. AnswerKnown(k)' /\ \A j \in Keys \ {k} : wire'[j] = wire[j]
  BY <1>1, SettledIsKnown DEF SubmissionRetained, SubmissionUnanswered
<1>3. TripKnown' /\ TripFollows
  <2>1. CASE trip' = trip
    BY <1>1, <2>1, TripStaysKnown DEF TripFollows, ServerStep, RowStep
  <2>2. CASE trip' = NoTrip
    BY <2>2 DEF NoTrip, TripKnown, TripFollows
  <2>3. QED BY <2>1, <2>2 DEF SubmissionRetained, SubmissionUnanswered
<1>4. QED BY <1>1, <1>2, <1>3, KeptByAttempt

(* An uncoded refusal.  When the plan shows the row decided in the         *)
(* capture's own period, its driver decided it; when the capture is of an  *)
(* earlier period, the screen has moved on.                                *)
LEMMA KeptConflict ==
  ASSUME Inv, KeptInv, NEW k \in DOMAIN captures, SubmissionConflict(k)
  PROVE  KeptInv'
<1>1. /\ UNCHANGED <<subject, period, rows, logged, receipts, captures, flush,
                     late>>
      /\ k \in Keys /\ IsPhase(k) /\ ~Flushing(k)
  BY CaptureType DEF SubmissionConflict, OnPage, serverVars, leaseVars, Inv
<1>2. CASE /\ subject = Holder /\ rows[captures[k].phase].state = "done"
           /\ Reply(k, wire[k].by, "recorded", Decided)
           /\ trip' = ServerView
  <2>1. TripKnown' /\ TripFollows
    BY <1>1, <1>2, TripReadIsKnown
  <2>2. /\ wire'[k].ans = "recorded" /\ wire'[k].done = Decided'
        /\ \A j \in Keys \ {k} : wire'[j] = wire[j]
    BY <1>1, <1>2 DEF Reply, Decided, Inv, TypeInv, TypeOK
  <2>3. \A p \in Phases : p > wire'[k].done => DoneByHolder(p)'
    BY <1>1, <2>2, OnlyOpenRowsAhead DEF KeptInv, ServerStep, RowStep
  <2>4. ASSUME captures[k].seq = period PROVE AnswerKnown(k)'
    <3>1. rows[captures[k].phase].by = Holder
      BY <1>1, <1>2, <2>4 DEF KeptInv, CompletedSinceByHolder, DoneByHolder
    <3>2. captures[k].by = Holder
      BY <2>4 DEF KeptInv, PeriodsFitDrivers, Holder
    <3>3. Received(k)
      BY <1>1, <1>2, <3>1, <3>2 DEF Received
    <3>4. Received(k)'
      BY <1>1, <3>3, ReceivedStays DEF KeptInv, ServerStep, RowStep
    <3>5. QED BY <2>3, <3>4 DEF AnswerKnown
  <2>5. ASSUME captures[k].seq # period PROVE AnswerKnown(k)'
    <3>1. captures[k].seq < period
      BY <2>5, CaptureType, QueueAssumption
         DEF KeptInv, PeriodsFitDrivers, Inv, TypeInv, TypeOK, Items, Periods
    <3>2. ~Flushing(k)' /\ MovedOn(k)'
      BY <1>1, <1>2, <3>1 DEF Flushing, MovedOn, ServerView
    <3>3. QED BY <1>1, <2>5, <3>2 DEF AnswerKnown
  <2>6. QED BY <1>1, <2>1, <2>2, <2>4, <2>5, KeptByAttempt
<1>3. CASE /\ subject = Holder /\ Reply(k, wire[k].by, "overridden", wire[k].done)
           /\ trip' = ServerView
  <2>1. TripKnown' /\ TripFollows
    BY <1>1, <1>3, TripReadIsKnown
  <2>2. /\ wire'[k].ans = "overridden"
        /\ \A j \in Keys \ {k} : wire'[j] = wire[j]
    BY <1>1, <1>3 DEF Reply, Inv, TypeInv, TypeOK
  <2>3. AnswerKnown(k)'
    BY <2>2, NoAnswerIsKnown
  <2>4. QED BY <1>1, <2>1, <2>2, <2>3, KeptByAttempt
<1>4. CASE /\ Settle(k)
           /\ \/ trip' = trip
              \/ subject = Holder /\ trip' = ServerView
              \/ trip' = NoTrip
  <2>1. AnswerKnown(k)' /\ \A j \in Keys \ {k} : wire'[j] = wire[j]
    BY <1>1, <1>4, SettledIsKnown
  <2>2. TripKnown' /\ TripFollows
    <3>1. CASE trip' = trip
      BY <1>1, <3>1, TripStaysKnown DEF TripFollows, ServerStep, RowStep
    <3>2. CASE subject = Holder /\ trip' = ServerView
      BY <1>1, <3>2, TripReadIsKnown
    <3>3. CASE trip' = NoTrip
      BY <3>3 DEF NoTrip, TripKnown, TripFollows
    <3>4. QED BY <1>4, <3>1, <3>2, <3>3
  <2>3. QED BY <1>1, <2>1, <2>2, KeptByAttempt
<1>5. QED BY <1>2, <1>3, <1>4 DEF SubmissionConflict

(* The flush forgets an entry for the answer to that entry's own request.  *)
LEMMA KeptFlush ==
  ASSUME Inv, KeptInv, Trigger \/ FlushStep
  PROVE  KeptInv'
<1>1. /\ UNCHANGED <<leaseVars, serverVars, trip, captures, late>>
  BY DEF Trigger, FlushStep, SendEntry, TakeAnswer, EndFlush
<1>2. ServerStep
  BY <1>1, QuietServer
<1>3. /\ UNCHANGED <<subject, period, rows, logged, receipts, trip, captures, late>>
      /\ DOMAIN captures \subseteq Keys /\ 0 \notin Keys
  BY <1>1, CaptureType DEF leaseVars, serverVars, Inv, Keys
<1>4. /\ \A k \in flush.sent : k \in DOMAIN captures /\ Received(k)
      /\ late'.ans = "receipt"
           => late'.key \in DOMAIN captures /\ late'.key \in receipts'
  BY <1>3 DEF KeptInv, AnswersAreTrue
<1>5. CASE Trigger \/ EndFlush
  <2>1. wire' = wire /\ flush'.sent = {} /\ flush'.key = 0
    <3>1. /\ wire' = wire
          /\ \/ flush' = NoFlush
             \/ \E l, es : flush' = [NoFlush EXCEPT !.on = TRUE, !.lease = l,
                                                     !.todo = es]
      BY <1>5, Zenon DEF Trigger, EndFlush
    <3>2. \A l, es :
            LET f == [NoFlush EXCEPT !.on = TRUE, !.lease = l, !.todo = es]
            IN f.sent = {} /\ f.key = 0
      BY DEF NoFlush
    <3>3. NoFlush.sent = {} /\ NoFlush.key = 0
      BY DEF NoFlush
    <3>4. QED BY <3>1, <3>2, <3>3, Zenon
  <2>2. \A k \in Keys : ~Flushing(k)'
    BY <1>3, <2>1 DEF Flushing
  <2>3. QED BY <1>2, <1>3, <1>4, <2>1, <2>2, KeptBetween
<1>6. ASSUME NEW e \in flush.todo, SendEntry(e)
      PROVE  KeptInv'
  <2>1. /\ flush'.sent = flush.sent
        /\ e.key \in Keys
        /\ \/ flush'.key = 0 /\ wire' = wire
           \/ /\ flush'.key = e.key
              /\ wire' = [wire EXCEPT ![e.key] = At("upload", generation)]
    BY <1>6 DEF SendEntry, Inv, TypeInv, MemoryType, Flushes, Entry
  <2>2. \A k \in Keys : \/ wire'[k] = wire[k] /\ ~Flushing(k)'
                        \/ wire'[k].ans \notin {"recorded", "duplicate"}
    <3>1. CASE flush'.key = 0 /\ wire' = wire
      BY <1>3, <3>1 DEF Flushing
    <3>2. CASE /\ flush'.key = e.key
               /\ wire' = [wire EXCEPT ![e.key] = At("upload", generation)]
      BY <3>2 DEF Flushing, At, Inv, TypeInv, TypeOK
    <3>3. QED BY <2>1, <3>1, <3>2
  <2>3. QED BY <1>2, <1>3, <1>4, <2>1, <2>2, KeptBetween
<1>7. CASE TakeAnswer
  <2> DEFINE k == flush.key
  <2>1. /\ k \in Keys /\ Flushing(k)
        /\ Settle(k) /\ flush'.key = 0
        /\ \/ flush'.sent = flush.sent
           \/ Delivered(k) /\ flush'.sent = flush.sent \cup {k}
    <3>1. k \in Keys /\ flush \in Flushes /\ Flushing(k) /\ Settle(k)
      BY <1>7 DEF TakeAnswer, Flushing, Inv, TypeInv, MemoryType, Flushes
    <3>2. Outcome(k) \in {"recorded", "duplicate"} => Delivered(k)
      BY DEF Outcome, Delivered
    <3>3. /\ flush'.key = 0
          /\ \/ flush'.sent = flush.sent
             \/ /\ Outcome(k) \in {"recorded", "duplicate"}
                /\ flush'.sent = flush.sent \cup {k}
      <4> DEFINE ss == IF Outcome(k) \in {"recorded", "duplicate"}
                       THEN flush.sent \cup {k} ELSE flush.sent
      <4>1. PICK rs, st :
              flush' = [flush EXCEPT !.key = 0, !.sent = ss, !.refused = rs,
                                     !.stalled = st]
        BY <1>7, Zenon DEF TakeAnswer
      <4>2. \A S : LET f == [flush EXCEPT !.key = 0, !.sent = S, !.refused = rs,
                                         !.stalled = st]
                   IN f.key = 0 /\ f.sent = S
        BY <3>1 DEF Flushes
      <4>3. flush'.key = 0 /\ flush'.sent = ss
        BY <4>1, <4>2, Zenon
      <4>4. QED BY <4>3
    <3>4. QED BY <3>1, <3>2, <3>3
  <2>2. \A j \in Keys : \/ wire'[j] = wire[j] /\ ~Flushing(j)'
                        \/ wire'[j].ans \notin {"recorded", "duplicate"}
    BY <1>3, <2>1 DEF Settle, Idle, At, Flushing, Inv, TypeInv, TypeOK
  <2>3. Delivered(k) => k \in DOMAIN captures /\ Received(k)
    BY <2>1 DEF KeptInv, AnswersAreTrue
  <2>4. \A j \in flush'.sent : j \in DOMAIN captures /\ Received(j)
    BY <1>4, <2>1, <2>3
  <2>5. QED BY <1>2, <1>3, <1>4, <2>2, <2>4, KeptBetween
<1>8. QED BY <1>5, <1>6, <1>7 DEF FlushStep

(* Late evidence is told it has a receipt when the server keeps one.       *)
LEMMA KeptLate ==
  ASSUME Inv, KeptInv,
         EndLate \/ \E e \in queue, taken, lost \in BOOLEAN : SendLate(e, taken, lost)
  PROVE  KeptInv'
<1>1. /\ UNCHANGED <<subject, period, rows, logged, trip, captures, wire, flush>>
      /\ receipts \subseteq receipts'
  BY DEF EndLate, SendLate, leaseVars, serverVars
<1>2. ServerStep
  BY <1>1 DEF ServerStep, RowStep
<1>3. /\ \A k \in flush.sent : k \in DOMAIN captures /\ Received(k)
      /\ \A k \in Keys : Flushing(k)' <=> Flushing(k)
  BY <1>1 DEF KeptInv, AnswersAreTrue, Flushing
<1>4. late'.ans = "receipt"
        => late'.key \in DOMAIN captures /\ late'.key \in receipts'
  <2>1. CASE EndLate
    BY <2>1 DEF EndLate, LateIdle
  <2>2. ASSUME NEW e \in queue, NEW taken \in BOOLEAN,
             NEW lost \in BOOLEAN, SendLate(e, taken, lost)
        PROVE  late'.ans = "receipt"
                 => late'.key \in DOMAIN captures
                      /\ late'.key \in receipts'
    <3>1. e.key \in DOMAIN captures
      BY DEF Inv, OwnerInv, EntriesAreTheirCapturers
    <3>2. QED BY <2>2, <3>1 DEF SendLate
  <2>3. QED BY <2>1, <2>2
<1>5. QED BY <1>1, <1>2, <1>3, <1>4, KeptBetween

LEMMA KeptSession ==
  ASSUME Inv, KeptInv, ChangeSession \/ Reload
  PROVE  KeptInv'
<1>1. UNCHANGED <<period, rows, logged, receipts, captures>>
  BY DEF ChangeSession, Reload, serverVars
<1>2. ServerStep
  BY <1>1 DEF ServerStep, RowStep
<1>3. CASE ChangeSession
  <2>1. UNCHANGED <<wire, flush, late>>
    BY <1>3 DEF ChangeSession
  <2>2. trip' = NoTrip \/ (trip' = trip /\ generation' = generation)
    BY <1>3 DEF ChangeSession
  <2>3. generation' = generation => subject' = subject
    BY <1>3, LeaseAssumption
       DEF ChangeSession, SessionStep, Observe, SignOut, NewGeneration,
           ProfileAnswer, Inv, LeaseInv, LeaseTypeOK
  <2>4. \A k \in Keys : Flushing(k)' <=> Flushing(k)
    BY <2>1 DEF Flushing
  <2>5. QED
    BY <1>1, <1>2, <2>1, <2>2, <2>3, <2>4, KeptBetween
       DEF KeptInv, AnswersAreTrue
<1>4. CASE Reload
  <2>1. /\ trip' = NoTrip /\ flush'.sent = {} /\ late'.ans = "none"
        /\ \A k \in Keys : wire'[k].ans = "none"
    BY <1>4 DEF Reload, NoFlush, LateIdle, Idle, At
  <2>2. QED BY <1>1, <1>2, <2>1, KeptBetween
<1>5. QED BY <1>3, <1>4

LEMMA KeptStorage ==
  ASSUME Inv, KeptInv,
         UNCHANGED <<leaseVars, serverVars, memoryVars>>
  PROVE  KeptInv'
<1>1. ServerStep
  BY QuietServer
<1>2. UNCHANGED <<subject, period, trip, captures, wire, flush, late>>
  BY DEF leaseVars, serverVars, memoryVars
<1>3. QED BY <1>1, <1>2, KeptElsewhere
-----------------------------------------------------------------------------
LEMMA KeptNext ==
  ASSUME Inv, KeptInv, [Next]_vars
  PROVE  KeptInv'
<1>1. ServerStep
  BY NextIsServerStep
<1>2. CASE HandOver
  BY <1>2, KeptHandOver
<1>3. CASE Override \/ CompleteElsewhere \/ \E r \in stray : Land(r)
  <2>1. period' = period
    BY <1>3 DEF Override, CompleteElsewhere, Decide, Land, Receive
  <2>2. UNCHANGED <<leaseVars, memoryVars>>
    BY <1>3 DEF Override, CompleteElsewhere, Decide, Land
  <2>3. UNCHANGED <<subject, trip, captures, wire, flush, late>>
    BY <2>2 DEF leaseVars, memoryVars
  <2>4. QED BY <1>1, <2>1, <2>3, KeptElsewhere
<1>4. ASSUME NEW k \in DOMAIN captures, Attempt(k) \/ Lose(k)
      PROVE  KeptInv'
  BY <1>4, KeptPost, KeptLose, KeptRecorded, KeptConflict, KeptUnrecorded
     DEF Attempt
<1>5. CASE DriverStep
  <2>1. CASE LoadTrip
    BY <2>1, KeptLoadTrip
  <2>2. ASSUME NEW p \in Phases, Swipe(p) PROVE KeptInv'
    BY <2>2, KeptSwipe
  <2>3. CASE \/ \E p \in Phases : WriteDraft(p)
             \/ RetryAttention \/ DriverDiscards
    <3>1. UNCHANGED <<leaseVars, serverVars, memoryVars>>
      BY <2>3 DEF WriteDraft, RetryAttention, DriverDiscards, DiscardEntry,
                  DiscardDraft
    <3>2. QED BY <3>1, KeptStorage
  <2>4. CASE \E e \in queue, taken, lost \in BOOLEAN : SendLate(e, taken, lost)
    BY <2>4, KeptLate
  <2>5. QED BY <1>5, <2>1, <2>2, <2>3, <2>4 DEF DriverStep
<1>6. CASE Trigger \/ FlushStep
  BY <1>6, KeptFlush
<1>7. CASE EndLate
  BY <1>7, KeptLate
<1>8. CASE ChangeSession \/ Reload
  BY <1>8, KeptSession
<1>9. CASE UNCHANGED vars
  BY <1>9, KeptStorage DEF vars
<1>10. QED
  BY <1>2, <1>3, <1>4, <1>5, <1>6, <1>7, <1>8, <1>9 DEF Next

LEMMA AlwaysKept == Spec => [](Inv /\ KeptInv)
<1>1. Inv /\ KeptInv /\ [Next]_vars => KeptInv'
  BY KeptNext
<1>2. QED BY <1>1, AlwaysInv, KeptInit, PTL DEF Spec
-----------------------------------------------------------------------------
(* What each step leaves in its place, and what it takes away.             *)

\* nothing leaves the phone that is not at the server
NothingLeaves == \A item \in OnPhone : item \in OnPhone' \/ AtServer(item)'

\* every place on the phone holds at least what it held
LEMMA StorageGrows ==
  ASSUME Inv, Inv',
         \A k \in DOMAIN captures : captures'[k] = captures[k],
         \A p \in Phases : \A item :
           drafts[p] = item /\ item # NoItem
             => \/ drafts'[p] = item \/ item \in retained'
                \/ \E e \in queue' : captures'[e.key] = item
                \/ AtServer(item)',
         retained \subseteq retained',
         \A e \in queue : \A item :
           captures[e.key] = item
             => (\E f \in queue' : f.key = e.key) \/ AtServer(item)'
  PROVE  NothingLeaves
<1> SUFFICES ASSUME NEW item \in OnPhone, ~AtServer(item)'
             PROVE  item \in OnPhone'
  BY DEF NothingLeaves
<1>1. CASE item \in retained
  BY <1>1 DEF OnPhone
<1>2. CASE item \in Range(drafts) \ {NoItem}
  <2>1. PICK p \in Phases : drafts[p] = item
    BY <1>2 DEF Range, Inv, TypeInv, TypeOK
  <2>2. drafts'[p] = item => item \in Range(drafts')
    <3>1. DOMAIN drafts' = Phases
      BY DEF Inv, TypeInv, TypeOK
    <3>2. QED BY <3>1 DEF Range
  <2>3. QED BY <1>2, <2>1, <2>2 DEF OnPhone
<1>3. ASSUME NEW e \in queue, item = captures[e.key]
      PROVE  item \in OnPhone'
  <2>1. e.key \in DOMAIN captures
    BY DEF Inv, OwnerInv, EntriesAreTheirCapturers
  <2>2. QED BY <1>3, <2>1 DEF OnPhone
<1>4. QED BY <1>1, <1>2, <1>3 DEF OnPhone

\* what the server has received it does not give up
LEMMA ReceivedIsAtServer ==
  ASSUME UNCHANGED <<rows, logged, receipts, captures>>,
         NEW k \in DOMAIN captures, Received(k),
         NEW item, item = captures[k]
  PROVE  AtServer(item)'
<1>1. CASE \E d \in Drivers : Held(k, d)
  <2>1. PICK d \in Drivers : Held(k, d)
    BY <1>1
  <2>2. Held(k, d)'
    BY <2>1 DEF Held, IsPhase
  <2>3. QED BY <2>2 DEF AtServer
<1>2. CASE /\ IsPhase(k) /\ rows[captures[k].phase].state = "done"
           /\ rows[captures[k].phase].by = captures[k].by
  BY <1>2 DEF AtServer, IsPhase
<1>3. QED BY <1>1, <1>2 DEF Received

(* The phase screen forgets a draft for the answer to its own capture.     *)
LEMMA RecordedLeavesNothing ==
  ASSUME Inv, Inv', KeptInv, NEW k \in DOMAIN captures, SubmissionRecorded(k)
  PROVE  NothingLeaves
<1>1. /\ UNCHANGED <<rows, logged, receipts, captures, queue, retained>>
      /\ k \in Keys
  BY CaptureType DEF SubmissionRecorded, serverVars, Inv
<1>2. ASSUME SameCapture(k) PROVE Received(k)
  <2>1. Delivered(k) /\ ~MovedOn(k)
    BY <1>1, <1>2, CaptureType, QueueAssumption
       DEF SubmissionRecorded, Outcome, Delivered, SameCapture, Loaded,
           MovedOn, Inv, Items, Periods
  <2>2. QED BY <1>1, <2>1 DEF KeptInv, AnswersAreTrue
<1>3. ASSUME NEW p \in Phases, NEW item, drafts[p] = item
      PROVE  drafts'[p] = item \/ AtServer(item)'
  <2>1. CASE drafts' = drafts
    BY <1>3, <2>1
  <2>2. CASE SameCapture(k) /\ ClearDraft(k)
    <3>1. drafts'[p] = drafts[p] \/ drafts[p] = captures[k]
      BY <2>2 DEF ClearDraft, Inv, TypeInv, TypeOK
    <3>2. QED BY <1>1, <1>2, <1>3, <2>2, <3>1, ReceivedIsAtServer
  <2>3. QED BY <2>1, <2>2 DEF SubmissionRecorded
<1>4. QED BY <1>1, <1>3, StorageGrows

(* It forgets one for the queue only once the queue has been written.      *)
LEMMA UnrecordedLeavesNothing ==
  ASSUME Inv, Inv', NEW k \in DOMAIN captures, NEW persisted \in BOOLEAN,
         SubmissionRetained(k, persisted) \/ SubmissionUnanswered(k, persisted)
  PROVE  NothingLeaves
<1>1. UNCHANGED <<captures, retained>>
  BY DEF SubmissionRetained, SubmissionUnanswered
<1>2. PICK entry \in Entry : entry.key = k /\ Enqueue(entry, persisted)
  <2>1. k \in Keys /\ captures[k].by \in Drivers
    BY CaptureType DEF Inv, Items
  <2>2. Pending(k, captures[k].by) \in Entry
    BY <2>1, PendingType
  <2>3. Pending(k, captures[k].by).key = k
    BY DEF Pending
  <2>4. \A c : Refused(Pending(k, captures[k].by), c).key = k
    BY <2>2, <2>3 DEF Refused, Entry
  <2>5. CASE SubmissionUnanswered(k, persisted)
    BY <2>2, <2>3, <2>5 DEF SubmissionUnanswered
  <2>6. CASE SubmissionRetained(k, persisted)
    <3>1. Outcome(k) # "account_changed" => Outcome(k) \in Refusals
      BY <2>6 DEF SubmissionRetained, Refusals
    <3>2. QED
      BY <2>2, <2>3, <2>4, <2>6, <3>1, RefusedType DEF SubmissionRetained
  <2>7. QED BY <2>5, <2>6
<1>3. queue \subseteq queue'
  BY <1>2, EnqueueAdds
<1>4. persisted => \E e \in queue' : e.key = k
  <2>1. ASSUME persisted PROVE \E e \in queue' : e.key = k
    <3>1. PICK n \in Keys : queue' = queue \cup {[entry EXCEPT !.place = n]}
      BY <1>2, <2>1 DEF Enqueue
    <3>2. PICK e : e = [entry EXCEPT !.place = n]
      OBVIOUS
    <3>3. e.key = k
      BY <1>2, <3>2 DEF Entry
    <3>4. QED BY <3>1, <3>2, <3>3, Zenon
  <2>2. QED BY <2>1
<1>5. ASSUME NEW p \in Phases, NEW item, drafts[p] = item
      PROVE  drafts'[p] = item \/ \E e \in queue' : captures'[e.key] = item
  <2>1. CASE drafts' = drafts
    BY <1>5, <2>1
  <2>2. CASE persisted /\ ClearDraft(k)
    <3>1. drafts'[p] = drafts[p] \/ drafts[p] = captures[k]
      BY <2>2 DEF ClearDraft, Inv, TypeInv, TypeOK
    <3>2. QED BY <1>1, <1>4, <1>5, <2>2, <3>1
  <2>3. QED BY <2>1, <2>2 DEF SubmissionRetained, SubmissionUnanswered
<1>6. QED BY <1>1, <1>3, <1>5, StorageGrows

(* The flush drops what the server has received, and keeps the rest.       *)
LEMMA FlushLeavesNothing ==
  ASSUME Inv, Inv', KeptInv, EndFlush
  PROVE  NothingLeaves
<1>1. /\ UNCHANGED <<rows, logged, receipts, captures, drafts, retained>>
      /\ queue' = UNION {Answered(e) : e \in Without(flush.sent)}
  BY DEF EndFlush, serverVars
<1>2. ASSUME NEW e \in queue, NEW item, captures[e.key] = item
      PROVE  (\E f \in queue' : f.key = e.key) \/ AtServer(item)'
  <2>1. CASE e.key \in flush.sent
    <3>1. e.key \in DOMAIN captures /\ Received(e.key)
      BY <2>1 DEF KeptInv, AnswersAreTrue
    <3>2. QED BY <1>1, <1>2, <3>1, ReceivedIsAtServer
  <2>2. CASE e.key \notin flush.sent
    <3>1. \E f : f \in Answered(e)
      BY DEF Answered
    <3>2. PICK f : f \in Answered(e)
      BY <3>1
    <3>3. e \in Without(flush.sent)
      BY <2>2 DEF Without
    <3>4. f \in queue' /\ f.key = e.key
      BY <1>1, <3>2, <3>3, AnsweredEntries
    <3>5. QED BY <3>4
  <2>3. QED BY <2>1, <2>2
<1>3. QED BY <1>1, <1>2, StorageGrows

(* A retry and a refusal of late evidence change an entry where it stands; *)
(* a receipt lets it go.                                                   *)
LEMMA ReviewLeavesNothing ==
  ASSUME Inv, Inv', KeptInv, RetryAttention \/ EndLate
  PROVE  NothingLeaves
<1>1. UNCHANGED <<rows, logged, receipts, captures, drafts, retained>>
  BY DEF RetryAttention, EndLate, serverVars, memoryVars
<1>2. \A e \in queue : Again(e).key = e.key /\ LateRefused(e).key = e.key
  BY DEF Again, LateRefused, Inv, TypeInv, TypeOK, Entry
<1>3. ASSUME NEW e \in queue, NEW item, captures[e.key] = item
      PROVE  (\E f \in queue' : f.key = e.key) \/ AtServer(item)'
  <2>1. CASE RetryAttention
    BY <1>2, <2>1 DEF RetryAttention
  <2>2. CASE EndLate /\ late.ans = "receipt" /\ queue' = Without({late.key})
    <3>1. CASE e.key = late.key
      <4>1. late.key \in receipts' /\ item = captures'[late.key]
        BY <1>1, <1>3, <2>2, <3>1 DEF KeptInv, AnswersAreTrue
      <4>2. QED BY <4>1 DEF AtServer
    <3>2. CASE e.key # late.key
      BY <2>2, <3>2 DEF Without
    <3>3. QED BY <3>1, <3>2
  <2>3. CASE EndLate /\ queue' = {LateRefused(f) : f \in queue}
    BY <1>2, <2>3
  <2>4. CASE queue' = queue
    BY <2>4
  <2>5. QED BY <2>1, <2>2, <2>3, <2>4 DEF EndLate
<1>4. QED BY <1>1, <1>3, StorageGrows

(* A draft that is not the capture on screen is moved before its slot is   *)
(* written.                                                                *)
LEMMA WriteDraftLeavesNothing ==
  ASSUME Inv, Inv', NEW p \in Phases, WriteDraft(p)
  PROVE  NothingLeaves
<1>1. /\ UNCHANGED <<captures, queue>> /\ retained \subseteq retained'
      /\ drafts' = [drafts EXCEPT ![p] = Stamp(p)]
      /\ drafts[p] # NoItem => drafts[p] \in retained'
  BY DEF WriteDraft, Displaced, memoryVars
<1>2. ASSUME NEW q \in Phases, NEW item, drafts[q] = item, item # NoItem
      PROVE  drafts'[q] = item \/ item \in retained'
  BY <1>1, <1>2 DEF Inv, TypeInv, TypeOK
<1>3. QED BY <1>1, <1>2, StorageGrows

LEMMA StepLeavesNothing ==
  ASSUME Inv, Inv', KeptInv, [Next]_vars
  PROVE  NothingLeaves \/ DriverDiscards
<1>1. ASSUME NEW k \in DOMAIN captures, NEW persisted \in BOOLEAN,
             \/ SubmissionRecorded(k)
             \/ SubmissionRetained(k, persisted)
             \/ SubmissionUnanswered(k, persisted)
      PROVE  NothingLeaves
  BY <1>1, RecordedLeavesNothing, UnrecordedLeavesNothing
<1>2. CASE EndFlush \/ RetryAttention \/ EndLate
  BY <1>2, FlushLeavesNothing, ReviewLeavesNothing
<1>3. ASSUME NEW p \in Phases, WriteDraft(p) PROVE NothingLeaves
  BY <1>3, WriteDraftLeavesNothing
<1>4. ASSUME NEW p \in Phases, Swipe(p) PROVE NothingLeaves
  <2>1. UNCHANGED <<drafts, queue, retained>>
    BY <1>4 DEF Swipe, storageVars
  <2>2. captures' = Append(captures, Stamp(p)) /\ Stamp(p) \in Items
    BY <1>4, StampType DEF Swipe, StartCapture, OnScreen, Inv
  <2>3. \A k \in DOMAIN captures : captures'[k] = captures[k]
    BY <2>2, CapturesGrow DEF Inv
  <2>4. QED BY <2>1, <2>3, StorageGrows
<1>5. CASE UNCHANGED <<drafts, queue, retained, captures>>
  BY <1>5, StorageGrows
<1>6. QED
  BY <1>1, <1>2, <1>3, <1>4, <1>5
     DEF Next, vars, HandOver, Override, CompleteElsewhere, Decide, Attempt,
         Post, Lose, Land, SubmissionConflict, DriverStep, LoadTrip, SendLate,
         Trigger, FlushStep, SendEntry, TakeAnswer, ChangeSession, Reload,
         storageVars, memoryVars
-----------------------------------------------------------------------------
(* No draft, retained draft or queued capture leaves the phone but for a   *)
(* completion, checkpoint or receipt the server has of it, or because its  *)
(* driver discards it (useOfflineQueue.ts, phase-submitter.ts, the draft   *)
(* stores): whatever is lost, refused, restarted or handed over meanwhile. *)
THEOREM NothingIsLost == Spec => NothingLost
<1>1. Inv /\ Inv' /\ KeptInv /\ [Next]_vars => NothingLeaves \/ DriverDiscards
  BY StepLeavesNothing
<1>2. QED
  BY <1>1, AlwaysKept, PTL DEF Spec, NothingLost, NothingLeaves
-----------------------------------------------------------------------------
(***************************************************************************)
(* One capture is one record.  The argument: a capture the server refused  *)
(* for custody is of a former period and was not held, and from then on no *)
(* live write can take it, so that what is offered as late evidence is     *)
(* never a completion as well, however often it is tried again.            *)
(***************************************************************************)

\* the server's records, and the requests under way to it, name the capturer
RecordsAreTheirCapturers ==
  /\ \A r \in stray \cup logged :
       r.key \in DOMAIN captures /\ r.by = captures[r.key].by
  /\ \A p \in Phases : rows[p].key # 0 =>
       /\ rows[p].key \in DOMAIN captures
       /\ rows[p].by = captures[rows[p].key].by

(* No live write will take the capture: its period is over, and nobody's   *)
(* completion or checkpoint is it.                                         *)
Barred(k) ==
  /\ k \in DOMAIN captures
  /\ captures[k].seq < period
  /\ \A d \in Drivers : ~Held(k, d)

(* A custody refusal bars its capture, from the answer through the flush   *)
(* and the queue to the late report and the receipt.                       *)
RefusalsBar ==
  /\ \A k \in Keys : wire[k].ans \in ConflictCodes => Barred(k)
  /\ \A r \in flush.refused : r.code \in ConflictCodes => Barred(r.key)
  /\ \A e \in queue : e.late => Barred(e.key)
  /\ late.key # 0 => Barred(late.key)
  /\ \A k \in receipts : Barred(k)

\* what Receive adds is of the capture and the driver it was called for
LEMMA ReceiveAdds ==
  ASSUME TypeInv, NEW k, NEW d, Receive(k, d)
  PROVE  /\ \A r \in logged' : r \in logged \/ (r.key = k /\ r.by = d)
         /\ \A p \in Phases : rows'[p] = rows[p] \/ rows'[p] = DoneBy(d, k)
         /\ rows' # rows \/ logged' # logged => Takes(k, d)
BY DEF Receive, TypeInv, TypeOK, IsPhase

LEMMA RecordsReceive ==
  ASSUME TypeInv, RecordsAreTheirCapturers, NEW k \in DOMAIN captures, NEW d,
         d = captures[k].by, Receive(k, d), captures' = captures,
         \A r \in stray' : r \in stray
  PROVE  RecordsAreTheirCapturers'
<1>1. DoneBy(d, k).key = k /\ DoneBy(d, k).by = d
  BY DEF DoneBy
<1>2. QED BY <1>1, ReceiveAdds DEF RecordsAreTheirCapturers

LEMMA RecordsStep ==
  ASSUME Inv, RecordsAreTheirCapturers, [Next]_vars
  PROVE  RecordsAreTheirCapturers'
<1>1. ASSUME NEW row, Decide(row), row.key = 0
      PROVE  RecordsAreTheirCapturers'
  <2>1. /\ \A p \in Phases : rows'[p] = rows[p] \/ rows'[p] = row
        /\ UNCHANGED <<stray, logged, captures>>
    BY <1>1 DEF Decide, memoryVars, Inv, TypeInv, TypeOK
  <2>2. QED BY <1>1, <2>1 DEF RecordsAreTheirCapturers
<1>2. ASSUME NEW k \in DOMAIN captures, Post(k)
      PROVE  RecordsAreTheirCapturers'
  <2>1. CASE Current(k)
    <3>1. k \in Keys /\ captures[k].by = subject
      BY <1>2, <2>1, CaptureType
         DEF Post, Current, Inv, OwnerInv, RequestsAreTheirCapturers
    <3>2. Receive(k, subject) /\ UNCHANGED <<captures, stray>>
      BY <1>2, <2>1 DEF Post
    <3>3. QED BY <3>1, <3>2, RecordsReceive DEF Inv
  <2>2. CASE ~Current(k)
    BY <1>2, <2>2 DEF Post, serverVars, RecordsAreTheirCapturers
  <2>3. QED BY <2>1, <2>2
<1>3. ASSUME NEW k \in DOMAIN captures, Lose(k)
      PROVE  RecordsAreTheirCapturers'
  <2>1. captures[k].by = subject
    BY <1>3, CaptureType
       DEF Lose, Current, Inv, OwnerInv, RequestsAreTheirCapturers
  <2>2. QED BY <1>3, <2>1 DEF Lose, serverVars, RecordsAreTheirCapturers
<1>4. ASSUME NEW r \in stray, Land(r)
      PROVE  RecordsAreTheirCapturers'
  <2>1. r.key \in DOMAIN captures /\ r.by = captures[r.key].by
    BY DEF RecordsAreTheirCapturers
  <2>2. QED BY <1>4, <2>1, RecordsReceive DEF Land, memoryVars, Inv
<1>5. ASSUME NEW p \in Phases, Swipe(p)
      PROVE  RecordsAreTheirCapturers'
  <2>1. UNCHANGED <<rows, logged, stray>>
    BY <1>5 DEF Swipe, serverVars
  <2>2. captures' = Append(captures, Stamp(p)) /\ Stamp(p) \in Items
    BY <1>5, StampType DEF Swipe, StartCapture, OnScreen, Inv
  <2>3. /\ DOMAIN captures \subseteq DOMAIN captures'
        /\ \A k \in DOMAIN captures : captures'[k] = captures[k]
    BY <2>2, CapturesGrow DEF Inv
  <2>4. QED BY <2>1, <2>3 DEF RecordsAreTheirCapturers
<1>6. CASE UNCHANGED <<rows, logged, stray, captures>>
  BY <1>6 DEF RecordsAreTheirCapturers
<1>7. Overridden.key = 0 /\ DoneBy(Holder, 0).key = 0
  BY DEF Overridden, DoneBy
<1>8. QED
  BY <1>1, <1>2, <1>3, <1>4, <1>5, <1>6, <1>7
     DEF Next, vars, HandOver, Override, CompleteElsewhere, Attempt,
         SubmissionRecorded, SubmissionConflict, SubmissionRetained,
         SubmissionUnanswered, DriverStep, LoadTrip, WriteDraft, SendLate,
         RetryAttention, DriverDiscards, DiscardEntry, DiscardDraft, Trigger,
         FlushStep, SendEntry, TakeAnswer, EndFlush, EndLate, ChangeSession,
         Reload, serverVars, memoryVars

\* only a live write of the current period adds a record
LEMMA ReceiveHolds ==
  ASSUME TypeInv, NEW k, NEW d, Receive(k, d), captures' = captures,
         NEW j \in Keys, NEW c \in Drivers, Held(j, c)', ~Held(j, c)
  PROVE  captures[j].seq = period
<1>1. Takes(k, d) /\ j = k
  <2>1. CASE IsPhase(j)
    <3>1. rows'[captures[j].phase] = DoneBy(c, j) /\ captures[j].phase \in Phases
      BY <2>1 DEF Held, IsPhase
    <3>2. rows'[captures[j].phase] = DoneBy(d, k) /\ rows' # rows
      BY <2>1, <3>1, ReceiveAdds DEF Held
    <3>3. QED BY <3>1, <3>2, ReceiveAdds DEF DoneBy
  <2>2. CASE ~IsPhase(j)
    <3>1. [key |-> j, by |-> c] \in logged' \ logged
      BY <2>2 DEF Held, IsPhase
    <3>2. QED BY <3>1, ReceiveAdds
  <2>3. QED BY <2>1, <2>2
<1>2. Answer(j, d) = "recorded" /\ ~Held(j, d)
  BY <1>1 DEF Takes
<1>3. QED BY <1>2 DEF Answer, FormerAnswer

LEMMA BarredStays ==
  ASSUME Inv, [Next]_vars, NEW k, Barred(k)
  PROVE  Barred(k)'
<1>1. period <= period' /\ period \in Nat /\ period' \in Nat
  BY NextIsServerStep, PeriodsGrow
<1>2. k \in Keys /\ captures[k] \in Items
  BY CaptureType DEF Inv, Barred
<1>3. ASSUME captures' = captures, \A d \in Drivers : Held(k, d)' => Held(k, d)
      PROVE  Barred(k)'
  BY <1>1, <1>2, <1>3 DEF Barred, Items, Periods
<1>4. ASSUME NEW row, Decide(row), row.key = 0
      PROVE  Barred(k)'
  <2>1. /\ \A p \in Phases : rows'[p] = rows[p] \/ rows'[p].key = 0
        /\ UNCHANGED <<logged, captures>>
    BY <1>4 DEF Decide, memoryVars, Inv, TypeInv, TypeOK
  <2>2. \A d \in Drivers : DoneBy(d, k).key # 0
    BY <1>2 DEF DoneBy, Keys
  <2>3. \A d \in Drivers : Held(k, d)' => Held(k, d)
    BY <2>1, <2>2 DEF Held, IsPhase
  <2>4. QED BY <1>3, <2>1, <2>3
<1>5. ASSUME NEW j, NEW d, Receive(j, d), captures' = captures
      PROVE  Barred(k)'
  BY <1>1, <1>2, <1>3, <1>5, ReceiveHolds DEF Inv, Barred
<1>6. ASSUME NEW p \in Phases, Swipe(p)
      PROVE  Barred(k)'
  <2>1. UNCHANGED <<rows, logged, period>>
    BY <1>6 DEF Swipe, serverVars
  <2>2. captures' = Append(captures, Stamp(p)) /\ Stamp(p) \in Items
    BY <1>6, StampType DEF Swipe, StartCapture, OnScreen, Inv
  <2>3. k \in DOMAIN captures' /\ captures'[k] = captures[k]
    BY <2>2, CapturesGrow DEF Inv, Barred
  <2>4. QED BY <2>1, <2>3 DEF Barred, Held, IsPhase
<1>7. CASE UNCHANGED <<rows, logged, captures>>
  BY <1>3, <1>7 DEF Held, IsPhase
<1>8. Overridden.key = 0 /\ DoneBy(Holder, 0).key = 0
  BY DEF Overridden, DoneBy
<1>9. QED
  BY <1>4, <1>5, <1>6, <1>7, <1>8
     DEF Next, vars, HandOver, Override, CompleteElsewhere, Attempt, Post, Lose,
         Land, SubmissionRecorded, SubmissionConflict, SubmissionRetained,
         SubmissionUnanswered, DriverStep, LoadTrip, WriteDraft, SendLate,
         RetryAttention, DriverDiscards, DiscardEntry, DiscardDraft, Trigger,
         FlushStep, SendEntry, TakeAnswer, EndFlush, EndLate, ChangeSession,
         Reload, serverVars, memoryVars
-----------------------------------------------------------------------------
(* Each place a refusal goes to, after any step.                           *)

\* the server refuses for custody only what it will not take any more
LEMMA RefusalBars ==
  ASSUME Inv, PeriodsFitDrivers, RecordsAreTheirCapturers,
         NEW k \in DOMAIN captures, captures[k].by = subject,
         Answer(k, subject) \in ConflictCodes
  PROVE  Barred(k)
<1>1. /\ period \in Periods /\ captures[k] \in Items /\ k \in Keys
      /\ captures[k].seq <= period /\ subject = HolderOf(captures[k].seq)
  BY CaptureType DEF PeriodsFitDrivers, Inv, TypeInv, TypeOK
<1>2. ~Held(k, subject) /\ (subject # Holder \/ captures[k].seq # period)
  BY DEF Answer, FormerAnswer, ConflictCodes
<1>3. captures[k].seq < period
  BY <1>1, <1>2 DEF Holder, Items, Periods
<1>4. ASSUME NEW d \in Drivers, Held(k, d) PROVE d = subject
  <2>1. CASE IsPhase(k)
    <3>1. captures[k].phase \in Phases /\ rows[captures[k].phase] = DoneBy(d, k)
      BY <1>4, <2>1 DEF Held, IsPhase
    <3>2. /\ rows[captures[k].phase].key = k /\ k # 0
          /\ rows[captures[k].phase].by = d
      BY <1>1, <3>1 DEF DoneBy, Keys
    <3>3. QED BY <3>1, <3>2 DEF RecordsAreTheirCapturers
  <2>2. CASE ~IsPhase(k)
    BY <1>4, <2>2 DEF Held, RecordsAreTheirCapturers
  <2>3. QED BY <2>1, <2>2
<1>5. QED BY <1>2, <1>3, <1>4 DEF Barred

\* only the answer to a request sent by its own driver is new
LEMMA AnswersBar ==
  ASSUME Inv, PeriodsFitDrivers, RecordsAreTheirCapturers, RefusalsBar,
         [Next]_vars, NEW k \in Keys, wire'[k].ans \in ConflictCodes
  PROVE  Barred(k)
<1>1. CASE wire'[k].ans = wire[k].ans
  BY <1>1 DEF RefusalsBar
<1>2. \A s, g : At(s, g).ans = "none"
  BY DEF At
<1>3. "none" \notin ConflictCodes /\ "lost" \notin ConflictCodes
      /\ "recorded" \notin ConflictCodes /\ "overridden" \notin ConflictCodes
  BY DEF ConflictCodes
<1>4. ASSUME NEW j \in DOMAIN captures, Post(j)
      PROVE  Barred(k)
  <2>1. j \in Keys
    BY CaptureType DEF Inv
  <2>2. CASE k # j \/ ~Current(j)
    BY <1>1, <1>4, <2>1, <2>2 DEF Post, Ask, Reply, Inv, TypeInv, TypeOK
  <2>3. CASE k = j /\ Current(j)
    <3>1. captures[k].by = subject
      BY <1>4, <2>1, <2>3
         DEF Post, Current, Inv, OwnerInv, RequestsAreTheirCapturers
    <3>2. wire'[k].ans = Answer(k, subject)
      BY <1>4, <2>1, <2>3 DEF Post, Ask, Reply, Inv, TypeInv, TypeOK
    <3>3. QED BY <2>3, <3>1, <3>2, RefusalBars
  <2>4. QED BY <2>2, <2>3
<1>5. ASSUME NEW j \in DOMAIN captures,
             \E by, ans, done : /\ Reply(j, by, ans, done)
                                /\ ans \notin ConflictCodes
      PROVE  Barred(k)
  <2>1. j \in Keys
    BY CaptureType DEF Inv
  <2>2. k # j
    BY <1>5, <2>1 DEF Reply, Inv, TypeInv, TypeOK
  <2>3. wire'[k] = wire[k]
    BY <1>5, <2>1, <2>2 DEF Reply, Inv, TypeInv, TypeOK
  <2>4. QED BY <1>1, <2>3
<1>6. ASSUME NEW j \in Keys,
             \E s, g : wire' = [wire EXCEPT ![j] = At(s, g)]
      PROVE  Barred(k)
  BY <1>1, <1>2, <1>3, <1>6 DEF Inv, TypeInv, TypeOK
<1>7. ASSUME NEW j \in Keys, Settle(j) PROVE Barred(k)
  BY <1>6, <1>7 DEF Settle, Idle
<1>8. CASE wire' = [j \in Keys |-> Idle]
  BY <1>2, <1>3, <1>8 DEF Idle
<1>9. CASE wire' = wire
  BY <1>1, <1>9
<1>10. ASSUME NEW j \in DOMAIN captures, Lose(j) PROVE Barred(k)
  BY <1>3, <1>5, <1>10, Zenon DEF Lose, Ask
<1>11. ASSUME NEW j \in DOMAIN captures, SubmissionConflict(j)
       PROVE  Barred(k)
  <2>1. j \in Keys
    BY CaptureType DEF Inv
  <2>2. \/ Settle(j)
        \/ \E done : Reply(j, wire[j].by, "overridden", done)
        \/ \E done : Reply(j, wire[j].by, "recorded", done)
    BY <1>11, Zenon DEF SubmissionConflict
  <2>3. QED BY <1>3, <1>5, <1>7, <2>1, <2>2, Zenon
<1>12. ASSUME NEW p \in Phases, Swipe(p) PROVE Barred(k)
  BY <1>6, <1>12 DEF Swipe, StartCapture
<1>13. ASSUME NEW e \in flush.todo, SendEntry(e) PROVE Barred(k)
  <2>1. e.key \in Keys
    BY CaptureType DEF Inv, OwnerInv, EntriesAreTheirCapturers
  <2>2. QED BY <1>6, <1>9, <1>13, <2>1 DEF SendEntry
<1>14. CASE TakeAnswer
  <2>1. flush.key \in Keys
    BY <1>14 DEF TakeAnswer, Inv, TypeInv, MemoryType, Flushes
  <2>2. QED BY <1>7, <1>14, <2>1 DEF TakeAnswer
<1>15. ASSUME NEW j \in DOMAIN captures, NEW persisted \in BOOLEAN,
              \/ SubmissionRecorded(j) \/ SubmissionRetained(j, persisted)
              \/ SubmissionUnanswered(j, persisted)
       PROVE  Barred(k)
  <2>1. j \in Keys
    BY CaptureType DEF Inv
  <2>2. QED BY <1>7, <1>15, <2>1
            DEF SubmissionRecorded, SubmissionRetained, SubmissionUnanswered
<1>16. QED
  BY <1>4, <1>8, <1>9, <1>10, <1>11, <1>12, <1>13, <1>14, <1>15
     DEF Next, vars, HandOver, Override, CompleteElsewhere, Decide, Attempt,
         Land, DriverStep, LoadTrip, WriteDraft, SendLate,
         RetryAttention, DriverDiscards, DiscardEntry, DiscardDraft, Trigger,
         FlushStep, EndFlush, EndLate, ChangeSession, Reload, memoryVars

\* what the flush keeps as refused, it was answered
LEMMA RefusedBar ==
  ASSUME Inv, RefusalsBar, [Next]_vars,
         NEW r \in flush'.refused, r.code \in ConflictCodes
  PROVE  Barred(r.key)
<1>1. CASE r \in flush.refused
  BY <1>1 DEF RefusalsBar
<1>2. CASE TakeAnswer
  <2>1. /\ \/ r \in flush.refused
           \/ r = [key |-> flush.key, code |-> Outcome(flush.key)]
        /\ flush.key \in Keys
    BY <1>2 DEF TakeAnswer, Inv, TypeInv, MemoryType, Flushes
  <2>2. Outcome(flush.key) \in ConflictCodes
          => wire[flush.key].ans \in ConflictCodes
    BY DEF Outcome, ConflictCodes
  <2>3. CASE r = [key |-> flush.key, code |-> Outcome(flush.key)]
    <3>1. r.key = flush.key /\ wire[flush.key].ans \in ConflictCodes
      BY <2>2, <2>3
    <3>2. QED BY <2>1, <3>1 DEF RefusalsBar
  <2>4. QED BY <1>1, <2>1, <2>3
<1>3. CASE flush' = NoFlush \/ Trigger
  <2>1. ASSUME NEW l, NEW es
        PROVE  [NoFlush EXCEPT !.on = TRUE, !.lease = l, !.todo = es].refused
                 = {}
    BY DEF NoFlush
  <2>2. NoFlush.refused = {}
    BY DEF NoFlush
  <2>3. flush'.refused = {}
    BY <1>3, <2>1, <2>2, Zenon DEF Trigger
  <2>4. QED BY <2>3
<1>4. ASSUME NEW e, SendEntry(e) PROVE Barred(r.key)
  BY <1>1, <1>4 DEF SendEntry, Inv, TypeInv, MemoryType, Flushes
<1>5. CASE flush' = flush
  BY <1>1, <1>5
<1>6. QED
  BY <1>2, <1>3, <1>4, <1>5
     DEF Next, vars, HandOver, Override, CompleteElsewhere, Decide, Attempt,
         Post, Lose, Land, SubmissionRecorded, SubmissionConflict,
         SubmissionRetained, SubmissionUnanswered, DriverStep, LoadTrip,
         WriteDraft, Swipe, SendLate, RetryAttention, DriverDiscards,
         DiscardEntry, DiscardDraft, FlushStep, EndFlush, EndLate,
         ChangeSession, Reload, memoryVars

LEMMA PendingEntry ==
  ASSUME Inv, NEW k \in DOMAIN captures
  PROVE  LET entry == Pending(k, captures[k].by)
         IN /\ k \in Keys /\ entry \in Entry
            /\ entry.key = k /\ entry.late = FALSE
<1>1. k \in Keys /\ captures[k].by \in Drivers
  BY CaptureType DEF Inv, Items
<1>2. Pending(k, captures[k].by) \in Entry
  BY <1>1, PendingType
<1>3. QED BY <1>1, <1>2 DEF Pending

LEMMA RefusedIsLate ==
  ASSUME NEW entry, NEW code, entry \in Entry
  PROVE  /\ Refused(entry, code).key = entry.key
         /\ Refused(entry, code).late => code \in ConflictCodes
BY DEF Refused, Entry

\* what the queue offers as late evidence, it was refused for custody
LEMMA QueueBars ==
  ASSUME Inv, RefusalsBar, [Next]_vars, NEW e \in queue', e.late
  PROVE  Barred(e.key)
<1>1. ASSUME NEW f \in queue, f.key = e.key, f.late PROVE Barred(e.key)
  BY <1>1 DEF RefusalsBar
<1>2. queue \subseteq Entry
  BY DEF Inv, TypeInv, TypeOK
<1>3. ASSUME NEW k \in DOMAIN captures, NEW entry \in Entry,
             NEW persisted \in BOOLEAN, Enqueue(entry, persisted),
             entry.late => Barred(entry.key)
      PROVE  Barred(e.key)
  BY <1>1, <1>3, EnqueueAdds
<1>4. ASSUME NEW k \in DOMAIN captures, NEW persisted \in BOOLEAN,
             SubmissionUnanswered(k, persisted)
      PROVE  Barred(e.key)
  <2>1. Enqueue(Pending(k, captures[k].by), persisted)
    BY <1>4 DEF SubmissionUnanswered
  <2>2. QED BY <1>3, <2>1, PendingEntry
<1>5. ASSUME NEW k \in DOMAIN captures, NEW persisted \in BOOLEAN,
             SubmissionRetained(k, persisted)
      PROVE  Barred(e.key)
  <2>1. /\ Pending(k, captures[k].by) \in Entry /\ k \in Keys
        /\ Pending(k, captures[k].by).key = k
        /\ Pending(k, captures[k].by).late = FALSE
    BY PendingEntry
  <2>2. PICK kept \in Entry :
          /\ Enqueue(kept, persisted)
          /\ kept.key = k
          /\ kept.late => wire[k].ans \in ConflictCodes
    <3>1. CASE Outcome(k) = "account_changed"
      BY <1>5, <2>1, <3>1 DEF SubmissionRetained
    <3>2. CASE Outcome(k) # "account_changed"
      <4>1. Outcome(k) = wire[k].ans
        BY <3>2 DEF Outcome
      <4>2. Enqueue(Refused(Pending(k, captures[k].by), Outcome(k)), persisted)
            /\ Outcome(k) \in Refusals
        BY <1>5, <3>2 DEF SubmissionRetained, Refusals
      <4>3. QED BY <2>1, <4>1, <4>2, RefusedType, RefusedIsLate
    <3>3. QED BY <3>1, <3>2
  <2>3. QED BY <1>3, <2>1, <2>2 DEF RefusalsBar
<1>6. CASE EndFlush
  <2>1. PICK f \in queue : e \in Answered(f)
    BY <1>6 DEF EndFlush, Without
  <2>2. \/ e = f
        \/ \E r \in flush.refused : r.key = f.key /\ e = Refused(f, r.code)
    BY <2>1 DEF Answered
  <2>3. QED BY <1>1, <1>2, <2>2, RefusedIsLate DEF RefusalsBar
<1>7. CASE RetryAttention
  <2>1. PICK f \in queue : e = Again(f)
    BY <1>7 DEF RetryAttention
  <2>2. e.key = f.key /\ f.late
    BY <1>2, <2>1 DEF Again, Entry
  <2>3. QED BY <1>1, <2>2
<1>8. CASE EndLate
  <2>1. PICK f \in queue : e = f \/ e = LateRefused(f)
    BY <1>8 DEF EndLate, Without
  <2>2. e.key = f.key /\ (f.late \/ f.key = late.key)
    BY <1>2, <2>1 DEF LateRefused, Entry
  <2>3. late.key # 0 => Barred(late.key)
    BY DEF RefusalsBar
  <2>4. f.key # 0
    BY <1>2 DEF Entry, Keys
  <2>5. QED BY <1>1, <2>2, <2>3, <2>4
<1>9. CASE queue' \subseteq queue
  BY <1>1, <1>9
<1>10. QED
  BY <1>4, <1>5, <1>6, <1>7, <1>8, <1>9
     DEF Next, vars, HandOver, Override, CompleteElsewhere, Decide, Attempt,
         Post, Lose, Land, SubmissionRecorded, SubmissionConflict, DriverStep,
         LoadTrip, WriteDraft, Swipe, SendLate, DriverDiscards, DiscardEntry,
         DiscardDraft, Trigger, FlushStep, SendEntry, TakeAnswer,
         ChangeSession, Reload, storageVars

\* only what the queue offers is reported late
LEMMA ReportsBar ==
  ASSUME Inv, RefusalsBar, [Next]_vars
  PROVE  /\ late'.key # 0 => Barred(late'.key)
         /\ \A k \in receipts' : Barred(k)
<1>1. ASSUME NEW e \in queue, NEW taken, NEW lost, SendLate(e, taken, lost)
      PROVE  Barred(e.key) /\ receipts' \subseteq receipts \cup {e.key}
             /\ late'.key = e.key
  BY <1>1 DEF SendLate, MaySendLate, RefusalsBar
<1>2. CASE late' = LateIdle /\ receipts' = receipts
  BY <1>2 DEF LateIdle, RefusalsBar
<1>3. CASE UNCHANGED <<late, receipts>>
  BY <1>3 DEF RefusalsBar
<1>4. QED
  BY <1>1, <1>2, <1>3
     DEF Next, vars, HandOver, Override, CompleteElsewhere, Decide, Attempt,
         Post, Receive, Lose, Land, SubmissionRecorded, SubmissionConflict,
         SubmissionRetained, SubmissionUnanswered, DriverStep, LoadTrip,
         WriteDraft, Swipe, RetryAttention, DriverDiscards, DiscardEntry,
         DiscardDraft, Trigger, FlushStep, SendEntry, TakeAnswer, EndFlush,
         EndLate, ChangeSession, Reload, serverVars, memoryVars, RefusalsBar

LEMMA RefusalsBarStep ==
  ASSUME Inv, PeriodsFitDrivers, RecordsAreTheirCapturers, RefusalsBar,
         [Next]_vars
  PROVE  RefusalsBar'
<1>1. \A k : Barred(k) => Barred(k)'
  BY BarredStays
<1>2. \A k \in Keys : wire'[k].ans \in ConflictCodes => Barred(k)
  BY AnswersBar
<1>3. \A r \in flush'.refused : r.code \in ConflictCodes => Barred(r.key)
  BY RefusedBar
<1>4. \A e \in queue' : e.late => Barred(e.key)
  BY QueueBars
<1>5. /\ late'.key # 0 => Barred(late'.key)
      /\ \A k \in receipts' : Barred(k)
  BY ReportsBar
<1>6. QED BY <1>1, <1>2, <1>3, <1>4, <1>5 DEF RefusalsBar

LEMMA AlwaysBarred == Spec => [](RecordsAreTheirCapturers /\ RefusalsBar)
<1>1. Init => RecordsAreTheirCapturers /\ RefusalsBar
  BY DEF Init, RecordsAreTheirCapturers, RefusalsBar, ConflictCodes, Open,
         Idle, At, NoFlush, LateIdle
<1>2. /\ Inv /\ KeptInv /\ RecordsAreTheirCapturers /\ RefusalsBar
      /\ [Next]_vars
      => RecordsAreTheirCapturers' /\ RefusalsBar'
  BY RecordsStep, RefusalsBarStep DEF KeptInv
<1>3. QED BY <1>1, <1>2, AlwaysKept, PTL DEF Spec

(* One capture is one record, live or late: what the server keeps as late  *)
(* evidence (late_evidence.py) is not also its driver's completion or      *)
(* checkpoint (access.py), though a late report that is refused lets the   *)
(* capture be sent live again (late-evidence-sync.ts noteRefusal and       *)
(* useOfflineQueue.ts retryAttention), the driver may hold the trip again, *)
(* and abandoned requests land whenever they like.                         *)
THEOREM NeverBoth == Spec => []LiveOrLate
<1>1. RefusalsBar => LiveOrLate
  BY DEF RefusalsBar, Barred, LiveOrLate
<1>2. QED BY <1>1, AlwaysBarred, PTL
=============================================================================
