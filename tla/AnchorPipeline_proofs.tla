------------------------ MODULE AnchorPipeline_proofs ------------------------
(***************************************************************************)
(* Proofs about AnchorPipeline, for every set of rows and of workers, every *)
(* number of retries and of faults and every size of a sweep's batch.      *)
(***************************************************************************)
EXTENDS AnchorPipeline, SequenceTheorems, FiniteSetTheorems, TLAPS

Attempting == {"submitting", "landed"}

(* What a slot says of its attempt is true: it names a row exactly while   *)
(* the row is locked, its message is in the topic and is that row's, and a *)
(* sweep that attempts a row has not used up its batch.                    *)
SlotsConsistent == \A w \in Workers :
  /\ worker[w].at \in Attempting <=> worker[w].row # NoRow
  /\ worker[w].at = "landed" =>
       worker[w].message \in DOMAIN topic /\ topic[worker[w].message] = worker[w].row
  /\ worker[w].at # "idle" /\ worker[w].at # "sweeping" /\ worker[w].job = "sweep" =>
       worker[w].left > 0

(* Nothing is under way for a row whose hash was changed.                  *)
AlteredUntouched == \A r \in Altered :
  /\ late[r] = 0
  /\ \A w \in Workers : worker[w].row # r
  /\ \A m \in DOMAIN topic : topic[m] # r

(* The inductive invariant.                                                *)
Inv == TypeOK /\ ReceiptIsReal /\ AttemptsSerialised /\ SlotsConsistent /\ AlteredUntouched
-----------------------------------------------------------------------------
LEMMA IdleType == Idle \in Slot
  BY PipelineAssumption DEF Idle, Slot, NoMessage

LEMMA RotatedType ==
  ASSUME TypeOK, NEW r \in Rows
  PROVE  Rotated(r) \subseteq Rows \X Rows
  BY DEF Rotated, Committed, TypeOK

LEMMA RequeuedType ==
  ASSUME NEW t \in Task
  PROVE  Requeued(t) \subseteq Task
  <1>1. t.tries \in 0 .. MaxRetries /\ MaxRetries \in Nat
    BY PipelineAssumption DEF Task
  <1>2. CASE t.tries < MaxRetries
    BY <1>1, <1>2 DEF Requeued, Task
  <1>3. CASE ~(t.tries < MaxRetries)
    BY <1>3 DEF Requeued
  <1> QED
    BY <1>2, <1>3

LEMMA AfterTaskType ==
  ASSUME TypeOK, NEW w \in Workers, worker[w].row \in Rows, NEW retried \in BOOLEAN
  PROVE  AfterTask(w, retried) \subseteq Task
  <1> DEFINE t == [row |-> worker[w].row, tries |-> worker[w].tries]
  <1>1. t \in Task
    BY DEF TypeOK, Slot, Task
  <1>2. Requeued(t) \subseteq Task
    BY <1>1, RequeuedType
  <1> QED
    BY <1>2 DEF AfterTask, TypeOK

(* Taking a row off the sweeps' lists changes nothing else in a slot.      *)
LEMMA NoLongerDueType ==
  ASSUME NEW r, NEW slots \in [Workers -> Slot]
  PROVE  /\ NoLongerDue(r, slots) \in [Workers -> Slot]
         /\ \A v \in Workers :
              /\ NoLongerDue(r, slots)[v].at = slots[v].at
              /\ NoLongerDue(r, slots)[v].row = slots[v].row
              /\ NoLongerDue(r, slots)[v].job = slots[v].job
              /\ NoLongerDue(r, slots)[v].message = slots[v].message
              /\ NoLongerDue(r, slots)[v].left = slots[v].left
  BY DEF NoLongerDue, Slot

(* A slot whose attempt is over is well formed and names no row.           *)
LEMMA ReleasedType ==
  ASSUME TypeOK, NEW w \in Workers,
         worker[w].job = "sweep" => worker[w].left > 0
  PROVE  /\ Released(w) \in Slot
         /\ Released(w).at \in {"idle", "sweeping"}
         /\ Released(w).row = NoRow
  <1>1. worker[w] \in Slot
    BY DEF TypeOK
  <1>2. CASE worker[w].job = "sweep"
    <2> DEFINE left == worker[w].left - 1
    <2>1. worker[w].left \in 0 .. Batch /\ worker[w].left > 0 /\ Batch \in Nat
      BY <1>1, <1>2, PipelineAssumption DEF Slot
    <2>2. left \in 0 .. Batch
      BY <2>1
    <2>3. Released(w) = [worker[w] EXCEPT !.at = "sweeping", !.row = NoRow,
                                          !.message = NoMessage, !.left = left]
      BY <1>2 DEF Released
    <2> HIDE DEF left
    <2>4. [worker[w] EXCEPT !.left = left] \in Slot
      BY <1>1, <2>2 DEF Slot
    <2>5. \A s \in Slot : [s EXCEPT !.at = "sweeping", !.row = NoRow, !.message = NoMessage] \in Slot
      BY DEF Slot, NoMessage
    <2>6. Released(w) = [[worker[w] EXCEPT !.left = left] EXCEPT
                           !.at = "sweeping", !.row = NoRow, !.message = NoMessage]
      BY <1>1, <2>3 DEF Slot
    <2>7. Released(w) \in Slot
      BY <2>4, <2>5, <2>6
    <2> QED
      BY <1>1, <2>3, <2>7 DEF Slot
  <1>3. CASE worker[w].job # "sweep"
    BY <1>3, IdleType DEF Released, Idle
  <1> QED
    BY <1>2, <1>3
-----------------------------------------------------------------------------
(* The two ways a step changes the topic and the slots.                    *)

(* Slot w lets go of its row and nothing else about attempts changes.      *)
SlotReleased(w) ==
  /\ worker' \in [Workers -> Slot]
  /\ worker'[w].at \in {"idle", "sweeping"} /\ worker'[w].row = NoRow
  /\ \A v \in Workers \ {w} :
       /\ worker'[v].at = worker[v].at /\ worker'[v].row = worker[v].row
       /\ worker'[v].job = worker[v].job /\ worker'[v].message = worker[v].message
       /\ worker'[v].left = worker[v].left

LEMMA ReleaseKeeps ==
  ASSUME Inv, NEW w \in Workers, SlotReleased(w),
         UNCHANGED topic,
         \A r \in Rows : receipt'[r] # receipt[r] => r = worker[w].row,
         late' \in [Rows -> Nat],
         \A r \in Altered : late'[r] = 0
  PROVE  AttemptsSerialised' /\ SlotsConsistent' /\ AlteredUntouched'
  <1> USE DEF Inv, SlotReleased
  <1>1. \A v \in Workers : v # w /\ worker[v].row = worker[w].row => worker[v].at \notin Attempting
    BY DEF AttemptsSerialised, SlotsConsistent, Attempting
  <1>2. SlotsConsistent'
    BY DEF SlotsConsistent, Attempting
  <1>3. AlteredUntouched'
    BY PipelineAssumption DEF AlteredUntouched
  <1>4. AttemptsSerialised'
    <2> SUFFICES ASSUME NEW v \in Workers, worker'[v].at \in Attempting
                 PROVE  /\ receipt'[worker'[v].row] = NoMessage
                        /\ \A u \in Workers : worker'[u].row = worker'[v].row => u = v
      BY DEF AttemptsSerialised, Attempting
    <2>1. v # w /\ worker[v].at \in Attempting /\ worker'[v].row = worker[v].row
      BY DEF Attempting
    <2>2. worker[v].row \in Rows /\ worker[v].row # worker[w].row
      BY <2>1, <1>1 DEF TypeOK, Slot, SlotsConsistent
    <2>3. receipt'[worker'[v].row] = NoMessage
      BY <2>1, <2>2 DEF AttemptsSerialised, Attempting
    <2>4. ASSUME NEW u \in Workers, worker'[u].row = worker'[v].row PROVE u = v
      BY <2>1, <2>2, <2>4, PipelineAssumption DEF AttemptsSerialised, Attempting
    <2> QED
      BY <2>3, <2>4
  <1> QED
    BY <1>2, <1>3, <1>4

(* Slot w takes the row r, which nobody else attempts.                     *)
SlotTaken(w, r) ==
  /\ worker' \in [Workers -> Slot]
  /\ worker'[w].at = "submitting" /\ worker'[w].row = r
  /\ worker'[w].job = "sweep" => worker'[w].left > 0
  /\ \A v \in Workers \ {w} : worker'[v] = worker[v]

LEMMA TakeKeeps ==
  ASSUME Inv, NEW w \in Workers, NEW r \in Rows, SlotTaken(w, r),
         ~Locked(r), receipt[r] = NoMessage, r \notin Altered,
         UNCHANGED <<topic, receipt, late>>
  PROVE  AttemptsSerialised' /\ SlotsConsistent' /\ AlteredUntouched'
  <1> USE DEF Inv, SlotTaken
  <1>1. \A v \in Workers : worker[v].row # r
    BY PipelineAssumption DEF Locked, SlotsConsistent, Attempting
  <1>2. SlotsConsistent'
    BY PipelineAssumption DEF SlotsConsistent, Attempting
  <1>3. AlteredUntouched'
    BY PipelineAssumption DEF AlteredUntouched
  <1>4. AttemptsSerialised'
    BY <1>1 DEF AttemptsSerialised
  <1> QED
    BY <1>2, <1>3, <1>4

(* A message of an intact row joins the topic; the others keep their place. *)
LEMMA AppendKeeps ==
  ASSUME Inv, NEW r \in Rows, r \notin Altered, topic' = Append(topic, r)
  PROVE  /\ topic' \in Seq(Rows)
         /\ Len(topic) \in Nat /\ DOMAIN topic = 1 .. Len(topic)
         /\ DOMAIN topic' = 1 .. Len(topic) + 1
         /\ topic'[Len(topic) + 1] = r
         /\ \A m \in DOMAIN topic : m \in DOMAIN topic' /\ topic'[m] = topic[m]
         /\ \A m \in DOMAIN topic' : topic'[m] \notin Altered
  <1>1. topic \in Seq(Rows) /\ Len(topic) \in Nat /\ DOMAIN topic = 1 .. Len(topic)
    BY LenProperties DEF Inv, TypeOK
  <1>2. /\ topic' \in Seq(Rows) /\ Len(topic') = Len(topic) + 1
        /\ DOMAIN topic' = 1 .. Len(topic) + 1
        /\ topic'[Len(topic) + 1] = r
        /\ \A m \in 1 .. Len(topic) : topic'[m] = topic[m]
    BY <1>1, AppendProperties
  <1>3. \A m \in 1 .. Len(topic) + 1 : m \in 1 .. Len(topic) \/ m = Len(topic) + 1
    BY <1>1
  <1>4. \A m \in DOMAIN topic : topic[m] \notin Altered
    BY DEF Inv, AlteredUntouched
  <1> QED
    BY <1>1, <1>2, <1>3, <1>4

(* An attempt that ends with a message of its own row, or without one,     *)
(* leaves every receipt real.                                              *)
LEMMA ReceiptKept ==
  ASSUME Inv, NEW r \in Rows, UNCHANGED topic,
         NEW s \in {"pending", "failed", "anchored"}, NEW m \in Nat,
         anchor' = [anchor EXCEPT ![r] = s],
         receipt' = [receipt EXCEPT ![r] = m],
         s = "anchored" <=> m # NoMessage,
         m # NoMessage => m \in DOMAIN topic /\ topic[m] = r
  PROVE  /\ ReceiptIsReal'
         /\ anchor' \in [Rows -> {"open", "pending", "failed", "anchored"}]
         /\ receipt' \in [Rows -> Nat]
  BY DEF Inv, ReceiptIsReal, TypeOK

(* A slot that is idle or sweeping attempts no row.                        *)
LEMMA FreeSlot ==
  ASSUME Inv, NEW w \in Workers, worker[w].at \notin Attempting
  PROVE  worker[w] \in Slot /\ worker[w].at \in {"idle", "sweeping"} /\ worker[w].row = NoRow
  BY DEF Inv, TypeOK, Slot, SlotsConsistent, Attempting

LEMMA BusySlot ==
  ASSUME Inv, NEW w \in Workers, worker[w].at \in Attempting
  PROVE  /\ worker[w] \in Slot
         /\ worker[w].row \in Rows \ Altered
         /\ receipt[worker[w].row] = NoMessage
         /\ worker[w].job = "sweep" => worker[w].left > 0
         /\ worker[w].at = "landed" =>
              /\ worker[w].message \in Nat \ {NoMessage}
              /\ worker[w].message \in DOMAIN topic
              /\ topic[worker[w].message] = worker[w].row
  <1>1. worker[w] \in Slot /\ worker[w].row # NoRow
    BY DEF Inv, TypeOK, SlotsConsistent
  <1>2. worker[w].row \in Rows \ Altered
    BY <1>1 DEF Inv, Slot, AlteredUntouched
  <1>3. receipt[worker[w].row] = NoMessage
    BY DEF Inv, AttemptsSerialised, Attempting
  <1>4. worker[w].job = "sweep" => worker[w].left > 0
    BY DEF Inv, SlotsConsistent, Attempting
  <1>5. ASSUME worker[w].at = "landed"
        PROVE  /\ worker[w].message \in Nat \ {NoMessage}
               /\ worker[w].message \in DOMAIN topic
               /\ topic[worker[w].message] = worker[w].row
    <2>1. worker[w].message \in DOMAIN topic /\ topic[worker[w].message] = worker[w].row
      BY <1>5 DEF Inv, SlotsConsistent
    <2>2. topic \in Seq(Rows) /\ DOMAIN topic = 1 .. Len(topic) /\ Len(topic) \in Nat
      BY LenProperties DEF Inv, TypeOK
    <2> QED
      BY <2>1, <2>2 DEF NoMessage
  <1> QED
    BY <1>1, <1>2, <1>3, <1>4, <1>5

(* Slots that differ from the present ones only in w, which is over.       *)
LEMMA OthersKept ==
  ASSUME NEW w \in Workers, NEW r, NEW slots \in [Workers -> Slot],
         slots[w].at \in {"idle", "sweeping"}, slots[w].row = NoRow,
         \A v \in Workers \ {w} : slots[v] = worker[v],
         worker' = NoLongerDue(r, slots)
  PROVE  SlotReleased(w)
  <1>1. /\ worker' \in [Workers -> Slot]
        /\ \A v \in Workers :
             /\ worker'[v].at = slots[v].at /\ worker'[v].row = slots[v].row
             /\ worker'[v].job = slots[v].job /\ worker'[v].message = slots[v].message
             /\ worker'[v].left = slots[v].left
    BY NoLongerDueType
  <1> QED
    BY <1>1 DEF SlotReleased

(* Refusing a row touches no attempt.                                      *)
LEMMA RefuseReleases ==
  ASSUME Inv, NEW w \in Workers, worker[w].at = "idle", NEW r \in Rows,
         worker' = NoLongerDue(r, worker)
  PROVE  SlotReleased(w)
  <1>1. worker \in [Workers -> Slot]
    BY DEF Inv, TypeOK
  <1>2. worker[w].at \in {"idle", "sweeping"} /\ worker[w].row = NoRow
    BY FreeSlot DEF Attempting
  <1> QED
    BY <1>1, <1>2, OthersKept

(* The slot of a finished attempt is free, or goes on with its sweep.      *)
LEMMA ReleaseReleases ==
  ASSUME Inv, NEW w \in Workers, NEW r \in Rows,
         worker[w].job = "sweep" => worker[w].left > 0,
         worker' = NoLongerDue(r, [worker EXCEPT ![w] = Released(w)])
  PROVE  SlotReleased(w)
  <1> DEFINE slots == [worker EXCEPT ![w] = Released(w)]
  <1>1. /\ Released(w) \in Slot
        /\ Released(w).at \in {"idle", "sweeping"}
        /\ Released(w).row = NoRow
    BY ReleasedType DEF Inv
  <1>2. slots \in [Workers -> Slot] /\ slots[w] = Released(w)
        /\ \A v \in Workers \ {w} : slots[v] = worker[v]
    BY <1>1 DEF Inv, TypeOK
  <1>3. worker' = NoLongerDue(r, slots)
    OBVIOUS
  <1> QED
    BY <1>1, <1>2, <1>3, OthersKept

(* Putting an idle slot in place of w ends its attempt.                    *)
LEMMA IdleReleases ==
  ASSUME Inv, NEW w \in Workers, worker' = [worker EXCEPT ![w] = Idle]
  PROVE  SlotReleased(w)
  BY IdleType DEF Inv, TypeOK, SlotReleased, Idle

(* The end of an attempt that commits.                                     *)
LEMMA CommitKeeps ==
  ASSUME Inv, NEW w \in Workers, worker[w].at \in Attempting,
         NEW s \in {"failed", "anchored"}, NEW m \in Nat,
         CommitAttempt(w, s, m),
         s = "anchored" <=> m # NoMessage,
         m # NoMessage => m \in DOMAIN topic /\ topic[m] = worker[w].row,
         UNCHANGED <<topic, unsent, fallbacks>>,
         late' \in [Rows -> Nat], \A r \in Altered : late'[r] = 0,
         faults' \in 0 .. MaxFaults
  PROVE  Inv'
  <1> DEFINE r == worker[w].row
  <1>1. r \in Rows \ Altered /\ (worker[w].job = "sweep" => worker[w].left > 0)
    BY BusySlot
  <1>2. SlotReleased(w)
    BY <1>1, ReleaseReleases DEF CommitAttempt
  <1>3. receipt' = [receipt EXCEPT ![r] = m] /\ anchor' = [anchor EXCEPT ![r] = s]
    BY DEF CommitAttempt
  <1>4. /\ ReceiptIsReal'
        /\ anchor' \in [Rows -> {"open", "pending", "failed", "anchored"}]
        /\ receipt' \in [Rows -> Nat]
    BY <1>1, <1>3, ReceiptKept
  <1>5. AttemptsSerialised' /\ SlotsConsistent' /\ AlteredUntouched'
    <2>1. \A q \in Rows : receipt'[q] # receipt[q] => q = worker[w].row
      BY <1>3 DEF Inv, TypeOK
    <2> QED
      BY <1>2, <2>1, ReleaseKeeps
  <1>6. broker' \subseteq Task
    BY <1>1, AfterTaskType DEF Inv, CommitAttempt
  <1>7. older' \subseteq Rows \X Rows
    BY <1>1, RotatedType DEF Inv, CommitAttempt
  <1>8. TypeOK'
    BY <1>2, <1>4, <1>6, <1>7 DEF Inv, TypeOK, SlotReleased
  <1> QED
    BY <1>4, <1>5, <1>8 DEF Inv
-----------------------------------------------------------------------------
(* Every step of the pipeline keeps the invariant.                         *)

(* Steps that touch no slot, no receipt, no message and no submission.     *)
LEMMA QuietKeeps ==
  ASSUME Inv, UNCHANGED <<worker, receipt, topic, late>>
  PROVE  AttemptsSerialised' /\ SlotsConsistent' /\ AlteredUntouched'
  BY DEF Inv, AttemptsSerialised, SlotsConsistent, AlteredUntouched

LEMMA InitEstablishes == Init => Inv
  <1> SUFFICES ASSUME Init PROVE Inv
    OBVIOUS
  <1>1. TypeOK
    BY IdleType, EmptySeq, PipelineAssumption DEF Init, TypeOK, NoMessage
  <1>2. ReceiptIsReal
    BY DEF Init, ReceiptIsReal
  <1>3. AttemptsSerialised
    BY DEF Init, AttemptsSerialised, Idle
  <1>4. SlotsConsistent
    BY DEF Init, SlotsConsistent, Attempting, Idle
  <1>5. AlteredUntouched
    <2>1. DOMAIN topic = {}
      BY DEF Init
    <2> QED
      BY <2>1, PipelineAssumption DEF Init, AlteredUntouched, Idle
  <1> QED
    BY <1>1, <1>2, <1>3, <1>4, <1>5 DEF Inv

LEMMA DecideKeeps == ASSUME Inv, NEW r \in Rows, Decide(r) PROVE Inv'
  <1>1. AttemptsSerialised' /\ SlotsConsistent' /\ AlteredUntouched'
    BY QuietKeeps DEF Decide
  <1>2. ReceiptIsReal'
    BY DEF Inv, TypeOK, Decide, ReceiptIsReal
  <1>3. older' \subseteq Rows \X Rows
    BY RotatedType DEF Inv, Decide
  <1>4. TypeOK'
    BY <1>3 DEF Inv, TypeOK, Decide
  <1> QED
    BY <1>1, <1>2, <1>4 DEF Inv

(* The API process publishes, falls back or restarts; the broker forgets.  *)
LEMMA QueuesKeep ==
  ASSUME Inv,
         \/ \E r \in Rows : Publish(r) \/ ScheduleFallback(r)
         \/ ApiRestarts
         \/ \E t \in broker : LoseTask(t)
  PROVE  Inv'
  <1>1. UNCHANGED <<rowVars, worker, topic, late, faults>>
    BY DEF Publish, ScheduleFallback, ApiRestarts, LoseTask
  <1>2. AttemptsSerialised' /\ SlotsConsistent' /\ AlteredUntouched'
    BY <1>1, QuietKeeps DEF rowVars
  <1>3. ReceiptIsReal'
    BY <1>1 DEF Inv, ReceiptIsReal, rowVars
  <1>4. unsent' \subseteq Rows /\ fallbacks' \subseteq Rows
    BY DEF Inv, TypeOK, Publish, ScheduleFallback, ApiRestarts, LoseTask
  <1>5. broker' \subseteq Task
    BY PipelineAssumption DEF Inv, TypeOK, Task, Publish, ScheduleFallback, ApiRestarts, LoseTask
  <1>6. TypeOK'
    BY <1>1, <1>4, <1>5 DEF Inv, TypeOK, rowVars
  <1> QED
    BY <1>2, <1>3, <1>6 DEF Inv

LEMMA TakeTaskKeeps ==
  ASSUME Inv, NEW w \in Workers, NEW t \in broker, TakeTask(w, t)
  PROVE  Inv'
  <1> DEFINE taken == [Idle EXCEPT !.at = "submitting", !.job = "task",
                                   !.row = t.row, !.tries = t.tries]
  <1>1. t \in Task
    BY DEF Inv, TypeOK
  <1>2. t.row \in Rows /\ t.tries \in 0 .. MaxRetries
    BY <1>1 DEF Task
  <1>3. taken \in Slot
    BY <1>2, IdleType DEF Slot
  <1>4. taken.at = "submitting" /\ taken.row = t.row /\ taken.job = "task"
    BY DEF Idle
  <1>5. worker' = [worker EXCEPT ![w] = taken]
    BY DEF TakeTask
  <1> HIDE DEF taken
  <1>6. SlotTaken(w, t.row)
    BY <1>3, <1>4, <1>5 DEF Inv, TypeOK, SlotTaken
  <1>7. ~Locked(t.row) /\ receipt[t.row] = NoMessage /\ t.row \notin Altered
    BY DEF TakeTask, Submittable, HasReceipt
  <1>8. AttemptsSerialised' /\ SlotsConsistent' /\ AlteredUntouched'
    BY <1>2, <1>6, <1>7, TakeKeeps DEF TakeTask, rowVars
  <1>9. TypeOK' /\ ReceiptIsReal'
    BY <1>6 DEF Inv, TypeOK, ReceiptIsReal, SlotTaken, TakeTask, rowVars, queues
  <1> QED
    BY <1>8, <1>9 DEF Inv

(* A refused row keeps its receipt, or keeps having none.                  *)
LEMMA RefuseKeeps ==
  ASSUME Inv, NEW w \in Workers, worker[w].at = "idle",
         NEW r \in Rows, Refuse(r), UNCHANGED <<receipt, topic, late>>
  PROVE  /\ ReceiptIsReal' /\ AttemptsSerialised' /\ SlotsConsistent' /\ AlteredUntouched'
         /\ worker' \in [Workers -> Slot]
         /\ anchor' \in [Rows -> {"open", "pending", "failed", "anchored"}]
         /\ older' \subseteq Rows \X Rows
  <1>1. SlotReleased(w)
    BY RefuseReleases DEF Refuse
  <1>2. AttemptsSerialised' /\ SlotsConsistent' /\ AlteredUntouched'
    BY <1>1, ReleaseKeeps DEF Inv, TypeOK, AlteredUntouched
  <1>3. anchor' = [anchor EXCEPT ![r] = IF receipt[r] # NoMessage THEN "anchored" ELSE "failed"]
    BY DEF Refuse, HasReceipt, Unanswered
  <1>4. ReceiptIsReal' /\ anchor' \in [Rows -> {"open", "pending", "failed", "anchored"}]
    BY <1>3 DEF Inv, TypeOK, ReceiptIsReal
  <1>5. older' \subseteq Rows \X Rows
    BY RotatedType DEF Inv, Refuse
  <1> QED
    BY <1>1, <1>2, <1>4, <1>5 DEF SlotReleased

LEMMA RefuseTaskKeeps ==
  ASSUME Inv, NEW w \in Workers, NEW t \in broker, RefuseTask(w, t)
  PROVE  Inv'
  <1>1. t \in Task
    BY DEF Inv, TypeOK
  <1>2. t.row \in Rows
    BY <1>1 DEF Task
  <1>3. /\ ReceiptIsReal' /\ AttemptsSerialised' /\ SlotsConsistent' /\ AlteredUntouched'
        /\ worker' \in [Workers -> Slot]
        /\ anchor' \in [Rows -> {"open", "pending", "failed", "anchored"}]
        /\ older' \subseteq Rows \X Rows
    BY <1>2, RefuseKeeps DEF RefuseTask
  <1>4. broker' \subseteq Task
    BY <1>1, RequeuedType DEF Inv, TypeOK, RefuseTask
  <1>5. TypeOK'
    BY <1>3, <1>4 DEF Inv, TypeOK, RefuseTask
  <1> QED
    BY <1>3, <1>5 DEF Inv

LEMMA TakeFallbackKeeps ==
  ASSUME Inv, NEW w \in Workers, NEW r \in fallbacks, TakeFallback(w, r)
  PROVE  Inv'
  <1>1. r \in Rows /\ fallbacks' \subseteq Rows
    BY DEF Inv, TypeOK, TakeFallback
  <1>2. CASE Submittable(r)
    <2> DEFINE taken == [Idle EXCEPT !.at = "submitting", !.job = "local", !.row = r]
    <2>1. taken \in Slot
      BY <1>1, IdleType DEF Slot
    <2>2. taken.at = "submitting" /\ taken.row = r /\ taken.job = "local"
      BY DEF Idle
    <2>3. worker' = [worker EXCEPT ![w] = taken] /\ UNCHANGED <<anchor, older>>
      BY <1>2 DEF TakeFallback
    <2> HIDE DEF taken
    <2>4. SlotTaken(w, r)
      BY <2>1, <2>2, <2>3 DEF Inv, TypeOK, SlotTaken
    <2>5. ~Locked(r) /\ receipt[r] = NoMessage /\ r \notin Altered
      BY <1>2 DEF TakeFallback, Submittable, HasReceipt
    <2>6. AttemptsSerialised' /\ SlotsConsistent' /\ AlteredUntouched'
      BY <1>1, <2>4, <2>5, TakeKeeps DEF TakeFallback
    <2>7. TypeOK' /\ ReceiptIsReal'
      BY <1>1, <2>3, <2>4 DEF Inv, TypeOK, ReceiptIsReal, SlotTaken, TakeFallback
    <2> QED
      BY <2>6, <2>7 DEF Inv
  <1>3. CASE ~Submittable(r)
    <2>1. Refuse(r)
      BY <1>3 DEF TakeFallback
    <2>2. /\ ReceiptIsReal' /\ AttemptsSerialised' /\ SlotsConsistent' /\ AlteredUntouched'
          /\ worker' \in [Workers -> Slot]
          /\ anchor' \in [Rows -> {"open", "pending", "failed", "anchored"}]
          /\ older' \subseteq Rows \X Rows
      BY <1>1, <2>1, RefuseKeeps DEF TakeFallback
    <2>3. TypeOK'
      BY <1>1, <2>2 DEF Inv, TypeOK, TakeFallback
    <2> QED
      BY <2>2, <2>3 DEF Inv
  <1> QED
    BY <1>2, <1>3

(* A sweep begins or ends: no attempt is touched.                          *)
LEMMA SweepBoundsKeep ==
  ASSUME Inv, NEW w \in Workers,
         SweepEnds(w) \/ \E due \in SUBSET Rows : BeginSweep(w, due)
  PROVE  Inv'
  <1>1. UNCHANGED <<rowVars, queues, topic, late, faults>>
    BY DEF SweepEnds, BeginSweep
  <1>2. SlotReleased(w)
    <2>1. CASE SweepEnds(w)
      BY <2>1, IdleReleases DEF SweepEnds
    <2>2. ASSUME NEW due \in SUBSET Rows, BeginSweep(w, due) PROVE SlotReleased(w)
      <3> DEFINE begun == [Idle EXCEPT !.at = "sweeping", !.job = "sweep",
                                       !.due = due, !.left = Batch]
      <3>1. begun \in Slot
        <4>1. Batch \in 0 .. Batch
          BY PipelineAssumption
        <4>2. \A s \in Slot, b \in 0 .. Batch :
                [s EXCEPT !.at = "sweeping", !.job = "sweep", !.due = due, !.left = b] \in Slot
          BY DEF Slot
        <4> QED
          BY <4>1, <4>2, IdleType
      <3>2. begun.at = "sweeping" /\ begun.row = NoRow
        BY DEF Idle
      <3>3. worker' = [worker EXCEPT ![w] = begun]
        BY <2>2 DEF BeginSweep
      <3> HIDE DEF begun
      <3> QED
        BY <3>1, <3>2, <3>3 DEF Inv, TypeOK, SlotReleased
    <2> QED
      BY <2>1, <2>2
  <1>3. AttemptsSerialised' /\ SlotsConsistent' /\ AlteredUntouched'
    BY <1>1, <1>2, ReleaseKeeps DEF Inv, TypeOK, AlteredUntouched, rowVars
  <1>4. TypeOK' /\ ReceiptIsReal'
    BY <1>1, <1>2 DEF Inv, TypeOK, ReceiptIsReal, SlotReleased, rowVars, queues
  <1> QED
    BY <1>3, <1>4 DEF Inv

LEMMA SweepTakesKeeps ==
  ASSUME Inv, NEW w \in Workers, NEW r \in Rows, SweepTakes(w, r)
  PROVE  Inv'
  <1>1. /\ worker[w].at = "sweeping" /\ worker[w].left > 0
        /\ ~Locked(r) /\ receipt[r] = NoMessage /\ anchor[r] # "anchored"
        /\ UNCHANGED <<receipt, queues, topic, late, faults>>
    BY DEF SweepTakes, Overdue, HasReceipt
  <1>2. CASE r \in Unrebuildable
    <2>1. /\ anchor' = [anchor EXCEPT ![r] = "failed"]
          /\ older' = Rotated(r)
          /\ worker' = NoLongerDue(r, [worker EXCEPT ![w] = Released(w)])
      BY <1>2 DEF SweepTakes, Unanswered
    <2>2. SlotReleased(w)
      BY <1>1, <2>1, ReleaseReleases
    <2>3. AttemptsSerialised' /\ SlotsConsistent' /\ AlteredUntouched'
      BY <1>1, <2>2, ReleaseKeeps DEF Inv, TypeOK, AlteredUntouched
    <2>4. ReceiptIsReal' /\ anchor' \in [Rows -> {"open", "pending", "failed", "anchored"}]
      BY <1>1, <2>1 DEF Inv, TypeOK, ReceiptIsReal
    <2>5. older' \subseteq Rows \X Rows
      BY <2>1, RotatedType DEF Inv
    <2>6. TypeOK'
      BY <1>1, <2>2, <2>4, <2>5 DEF Inv, TypeOK, SlotReleased, queues
    <2> QED
      BY <2>3, <2>4, <2>6 DEF Inv
  <1>3. CASE r \notin Unrebuildable
    <2>1. /\ worker' = [worker EXCEPT ![w].at = "submitting", ![w].row = r]
          /\ UNCHANGED <<anchor, older>>
      BY <1>3 DEF SweepTakes
    <2>2. SlotTaken(w, r)
      <3> DEFINE taken == [worker[w] EXCEPT !.at = "submitting", !.row = r]
      <3>1. worker \in [Workers -> Slot] /\ worker[w] \in Slot
        BY DEF Inv, TypeOK
      <3>2. taken \in Slot
        BY <3>1 DEF Slot
      <3>3. taken.at = "submitting" /\ taken.row = r /\ taken.left = worker[w].left
        BY <3>1 DEF Slot
      <3>4. worker' = [worker EXCEPT ![w] = taken]
        BY <2>1
      <3> HIDE DEF taken
      <3> QED
        BY <1>1, <3>1, <3>2, <3>3, <3>4 DEF SlotTaken
    <2>3. r \notin Altered
      BY <1>3, PipelineAssumption
    <2>4. AttemptsSerialised' /\ SlotsConsistent' /\ AlteredUntouched'
      BY <1>1, <2>2, <2>3, TakeKeeps
    <2>5. TypeOK' /\ ReceiptIsReal'
      BY <1>1, <2>1, <2>2 DEF Inv, TypeOK, ReceiptIsReal, SlotTaken, queues
    <2> QED
      BY <2>4, <2>5 DEF Inv
  <1> QED
    BY <1>2, <1>3

LEMMA LandKeeps ==
  ASSUME Inv, NEW w \in Workers, Land(w)
  PROVE  Inv'
  <1> DEFINE r == worker[w].row
             n == Len(topic) + 1
  <1>1. worker[w].at \in Attempting
    BY DEF Land, Attempting
  <1>2. /\ r \in Rows \ Altered /\ receipt[r] = NoMessage
        /\ worker[w] \in Slot /\ (worker[w].job = "sweep" => worker[w].left > 0)
    BY <1>1, BusySlot
  <1>3. topic' = Append(topic, r) /\ UNCHANGED <<rowVars, queues, late, faults>>
    BY DEF Land
  <1>4. /\ topic' \in Seq(Rows)
        /\ Len(topic) \in Nat /\ DOMAIN topic' = 1 .. n
        /\ topic'[n] = r
        /\ \A m \in DOMAIN topic : m \in DOMAIN topic' /\ topic'[m] = topic[m]
        /\ \A m \in DOMAIN topic' : topic'[m] \notin Altered
    BY <1>2, <1>3, AppendKeeps
  <1>5. n \in Nat /\ n \in DOMAIN topic'
    BY <1>4
  <1>6. worker' = [worker EXCEPT ![w].at = "landed", ![w].message = n]
    BY DEF Land
  <1> HIDE DEF n
  <1>7. /\ worker' \in [Workers -> Slot]
        /\ worker'[w].at = "landed" /\ worker'[w].row = r /\ worker'[w].message = n
        /\ worker'[w].job = worker[w].job /\ worker'[w].left = worker[w].left
        /\ \A v \in Workers \ {w} : worker'[v] = worker[v]
    BY <1>2, <1>5, <1>6 DEF Inv, TypeOK, Slot
  <1>8. SlotsConsistent'
    <2> SUFFICES ASSUME NEW v \in Workers
                 PROVE  /\ worker'[v].at \in Attempting <=> worker'[v].row # NoRow
                        /\ worker'[v].at = "landed" =>
                             /\ worker'[v].message \in DOMAIN topic'
                             /\ topic'[worker'[v].message] = worker'[v].row
                        /\ worker'[v].at # "idle" /\ worker'[v].at # "sweeping" /\
                             worker'[v].job = "sweep" => worker'[v].left > 0
      BY DEF SlotsConsistent, Attempting
    <2>1. CASE v = w
      BY <1>2, <1>4, <1>5, <1>7, <2>1, PipelineAssumption DEF Attempting
    <2>2. CASE v # w
      BY <1>4, <1>7, <2>2 DEF Inv, SlotsConsistent
    <2> QED
      BY <2>1, <2>2
  <1>9. AttemptsSerialised'
    <2> SUFFICES ASSUME NEW v \in Workers, worker'[v].at \in Attempting
                 PROVE  /\ receipt[worker'[v].row] = NoMessage
                        /\ \A u \in Workers : worker'[u].row = worker'[v].row => u = v
      BY <1>3 DEF AttemptsSerialised, Attempting, rowVars
    <2>1. worker[v].at \in Attempting /\ \A u \in Workers : worker'[u].row = worker[u].row
      BY <1>1, <1>7
    <2> QED
      BY <2>1 DEF Inv, AttemptsSerialised, Attempting
  <1>10. AlteredUntouched'
    <2>1. \A u \in Workers : worker'[u].row = worker[u].row
      BY <1>7
    <2> QED
      BY <1>3, <1>4, <2>1 DEF Inv, AlteredUntouched
  <1>11. ReceiptIsReal'
    BY <1>3, <1>4 DEF Inv, ReceiptIsReal, rowVars
  <1>12. TypeOK'
    BY <1>3, <1>4, <1>7 DEF Inv, TypeOK, rowVars, queues
  <1> QED
    BY <1>8, <1>9, <1>10, <1>11, <1>12 DEF Inv

LEMMA LandLateKeeps ==
  ASSUME Inv, NEW r \in Rows, LandLate(r)
  PROVE  Inv'
  <1>1. /\ late[r] > 0 /\ late' = [late EXCEPT ![r] = @ - 1]
        /\ topic' = Append(topic, r)
        /\ UNCHANGED <<rowVars, queues, worker, faults>>
    BY DEF LandLate
  <1>2. r \notin Altered
    BY <1>1 DEF Inv, AlteredUntouched
  <1>3. /\ topic' \in Seq(Rows)
        /\ \A m \in DOMAIN topic : m \in DOMAIN topic' /\ topic'[m] = topic[m]
        /\ \A m \in DOMAIN topic' : topic'[m] \notin Altered
    BY <1>1, <1>2, AppendKeeps
  <1>4. late' \in [Rows -> Nat] /\ \A q \in Rows \ {r} : late'[q] = late[q]
    BY <1>1 DEF Inv, TypeOK
  <1>5. SlotsConsistent'
    BY <1>1, <1>3 DEF Inv, SlotsConsistent
  <1>6. AttemptsSerialised' /\ ReceiptIsReal'
    BY <1>1, <1>3 DEF Inv, AttemptsSerialised, ReceiptIsReal, rowVars
  <1>7. AlteredUntouched'
    BY <1>1, <1>2, <1>3, <1>4, PipelineAssumption DEF Inv, AlteredUntouched
  <1>8. TypeOK'
    BY <1>1, <1>3, <1>4 DEF Inv, TypeOK, rowVars, queues
  <1> QED
    BY <1>5, <1>6, <1>7, <1>8 DEF Inv

(* What a fault leaves behind: one fault more, and at most one submission  *)
(* more that nobody waits for, of the row the slot was submitting.         *)
LEMMA FaultType ==
  ASSUME Inv, NEW w \in Workers, NEW abandoned \in BOOLEAN, Fault,
         abandoned => worker[w].at = "submitting",
         late' = IF abandoned THEN [late EXCEPT ![worker[w].row] = @ + 1] ELSE late
  PROVE  /\ faults' \in 0 .. MaxFaults
         /\ late' \in [Rows -> Nat]
         /\ \A r \in Altered : late'[r] = 0
  <1>1. faults' \in 0 .. MaxFaults
    BY PipelineAssumption DEF Fault, Inv, TypeOK
  <1>2. CASE ~abandoned
    BY <1>1, <1>2 DEF Inv, TypeOK, AlteredUntouched
  <1>3. CASE abandoned
    <2>1. worker[w].row \in Rows \ Altered
      BY <1>3, BusySlot DEF Attempting
    <2>2. late' = [late EXCEPT ![worker[w].row] = late[worker[w].row] + 1]
      BY <1>3
    <2> QED
      BY <1>1, <2>1, <2>2, PipelineAssumption DEF Inv, TypeOK, AlteredUntouched
  <1> QED
    BY <1>2, <1>3

LEMMA LinkReceiptKeeps ==
  ASSUME Inv, NEW w \in Workers, LinkReceipt(w)
  PROVE  Inv'
  <1>1. /\ worker[w].at = "landed"
        /\ CommitAttempt(w, "anchored", worker[w].message)
        /\ UNCHANGED <<unsent, fallbacks, topic, late, faults>>
    BY DEF LinkReceipt
  <1>2. /\ worker[w].message \in Nat \ {NoMessage}
        /\ worker[w].message \in DOMAIN topic
        /\ topic[worker[w].message] = worker[w].row
    BY <1>1, BusySlot DEF Attempting
  <1>3. late' \in [Rows -> Nat] /\ (\A r \in Altered : late'[r] = 0) /\ faults' \in 0 .. MaxFaults
    BY <1>1 DEF Inv, TypeOK, AlteredUntouched
  <1> QED
    BY <1>1, <1>2, <1>3, CommitKeeps DEF Attempting

LEMMA FailOpenKeeps ==
  ASSUME Inv, NEW w \in Workers, NEW abandoned \in BOOLEAN, FailOpen(w, abandoned)
  PROVE  Inv'
  <1>1. /\ worker[w].at \in Attempting
        /\ CommitAttempt(w, "failed", NoMessage)
        /\ UNCHANGED <<unsent, fallbacks, topic>>
    BY DEF FailOpen, Attempting, Unanswered
  <1>2. late' \in [Rows -> Nat] /\ (\A r \in Altered : late'[r] = 0) /\ faults' \in 0 .. MaxFaults
    BY FaultType DEF FailOpen
  <1>3. NoMessage \in Nat
    BY DEF NoMessage
  <1> QED
    BY <1>1, <1>2, <1>3, CommitKeeps

(* An attempt that rolls back, and a process that ends.                    *)
LEMMA RollbackKeeps ==
  ASSUME Inv, NEW w \in Workers,
         AbortCommit(w) \/ \E abandoned \in BOOLEAN : Crash(w, abandoned)
  PROVE  Inv'
  <1>1. /\ worker' = [worker EXCEPT ![w] = Idle]
        /\ UNCHANGED <<rowVars, unsent, fallbacks, topic>>
    BY DEF AbortCommit, Crash, queues
  <1>2. /\ late' \in [Rows -> Nat] /\ \A r \in Altered : late'[r] = 0
        /\ faults' \in 0 .. MaxFaults
    <2>1. CASE AbortCommit(w)
      BY <2>1, PipelineAssumption DEF AbortCommit, Fault, Inv, TypeOK, AlteredUntouched
    <2>2. CASE \E abandoned \in BOOLEAN : Crash(w, abandoned)
      BY <2>2, FaultType DEF Crash
    <2> QED
      BY <2>1, <2>2
  <1>3. broker' \subseteq Task
    <2>1. CASE AbortCommit(w)
      <3>1. worker[w].row \in Rows
        BY <2>1, BusySlot DEF AbortCommit, Attempting
      <3> QED
        BY <2>1, <3>1, AfterTaskType DEF AbortCommit, Inv
    <2>2. CASE \E abandoned \in BOOLEAN : Crash(w, abandoned)
      BY <2>2 DEF Crash, queues, Inv, TypeOK
    <2> QED
      BY <2>1, <2>2
  <1>4. SlotReleased(w)
    BY <1>1, IdleReleases
  <1>5. AttemptsSerialised' /\ SlotsConsistent' /\ AlteredUntouched'
    BY <1>1, <1>2, <1>4, ReleaseKeeps DEF rowVars
  <1>6. TypeOK' /\ ReceiptIsReal'
    BY <1>1, <1>2, <1>3, <1>4 DEF Inv, TypeOK, ReceiptIsReal, SlotReleased, rowVars
  <1> QED
    BY <1>5, <1>6 DEF Inv

(* No step breaks the invariant, whoever takes it.                         *)
LEMMA InvIsInductive == Inv /\ [Next]_vars => Inv'
  <1> SUFFICES ASSUME Inv, [Next]_vars PROVE Inv'
    OBVIOUS
  <1>1. CASE RequestStep
    BY <1>1, DecideKeeps, QueuesKeep DEF RequestStep
  <1>2. ASSUME NEW w \in Workers, Attempt(w) PROVE Inv'
    BY <1>2, LandKeeps, LinkReceiptKeeps, SweepBoundsKeep, SweepTakesKeeps DEF Attempt
  <1>3. ASSUME NEW w \in Workers, NEW t \in broker, TakeTask(w, t) \/ RefuseTask(w, t)
        PROVE  Inv'
    BY <1>3, TakeTaskKeeps, RefuseTaskKeeps
  <1>4. ASSUME NEW w \in Workers, NEW r \in fallbacks, TakeFallback(w, r) PROVE Inv'
    BY <1>4, TakeFallbackKeeps
  <1>5. ASSUME NEW w \in Workers, NEW due \in SUBSET Rows, BeginSweep(w, due) PROVE Inv'
    BY <1>5, SweepBoundsKeep
  <1>6. CASE Mishap
    <2>1. CASE ApiRestarts \/ \E t \in broker : LoseTask(t)
      BY <2>1, QueuesKeep
    <2>2. ASSUME NEW r \in Rows, LandLate(r) PROVE Inv'
      BY <2>2, LandLateKeeps
    <2>3. ASSUME NEW w \in Workers, AbortCommit(w) PROVE Inv'
      BY <2>3, RollbackKeeps
    <2>4. ASSUME NEW w \in Workers, NEW abandoned \in BOOLEAN,
                 FailOpen(w, abandoned) \/ Crash(w, abandoned)
          PROVE  Inv'
      BY <2>4, FailOpenKeeps, RollbackKeeps
    <2> QED
      BY <1>6, <2>1, <2>2, <2>3, <2>4 DEF Mishap
  <1>7. CASE UNCHANGED vars
    <2>1. UNCHANGED <<anchor, receipt, older, unsent, fallbacks, broker,
                      worker, topic, late, faults>>
      BY <1>7 DEF vars, rowVars, queues
    <2> QED
      BY <2>1 DEF Inv, TypeOK, ReceiptIsReal, AttemptsSerialised,
                  SlotsConsistent, AlteredUntouched
  <1> QED
    BY <1>1, <1>2, <1>3, <1>4, <1>5, <1>6, <1>7 DEF Next

(* The inductive invariant holds in every reachable state.                 *)
THEOREM InvHolds == Spec => []Inv
  BY InitEstablishes, InvIsInductive, PTL DEF Spec
-----------------------------------------------------------------------------
(* Rows, queued tasks, slots and the topic stay well formed.               *)
THEOREM TypeCorrect == Spec => []TypeOK
  <1>1. Inv => TypeOK
    BY DEF Inv
  <1> QED
    BY <1>1, InvHolds, PTL

(* A row is "anchored" exactly when it is linked to a message of the topic *)
(* that is the hash of that very row, whatever is lost, delivered again,   *)
(* timed out or cut short.                                                 *)
THEOREM ReceiptsAreReal == Spec => []ReceiptIsReal
  <1>1. Inv => ReceiptIsReal
    BY DEF Inv
  <1> QED
    BY <1>1, InvHolds, PTL

(* At most one slot attempts a row at a time, and only while the row has   *)
(* no receipt, for any number of workers, redeliveries and sweeps.         *)
THEOREM OneAttemptAtATime == Spec => []AttemptsSerialised
  <1>1. Inv => AttemptsSerialised
    BY DEF Inv
  <1> QED
    BY <1>1, InvHolds, PTL

(* A row whose hash was changed gets no receipt and sends no message.      *)
THEOREM AlteredIsOwed == Spec => []AlteredStaysOwed
  <1>1. Inv => AlteredStaysOwed
    BY PipelineAssumption DEF Inv, AlteredStaysOwed, AlteredUntouched, ReceiptIsReal
  <1> QED
    BY <1>1, InvHolds, PTL
-----------------------------------------------------------------------------
(* The price of a surplus message.  A submission that nobody waits for is  *)
(* counted as if it had landed: as a set, so that its size moves by one.   *)
Anchored == {r \in Rows : receipt[r] # NoMessage}
Landed == {w \in Workers : worker[w].at = "landed"}
UnderWay == {p \in Rows \X Nat : 0 < p[2] /\ p[2] <= late[p[1]]}

CostInv ==
  /\ IsFiniteSet(Anchored) /\ IsFiniteSet(Landed) /\ IsFiniteSet(UnderWay)
  /\ Len(topic) + Cardinality(UnderWay)
       <= Cardinality(Anchored) + Cardinality(Landed) + faults

\* one element more, or one less
LEMMA OneMore ==
  ASSUME NEW S, IsFiniteSet(S), NEW x, x \notin S
  PROVE  /\ IsFiniteSet(S \union {x})
         /\ Cardinality(S) \in Nat
         /\ Cardinality(S \union {x}) = Cardinality(S) + 1
  <1>1. Cardinality(S) \in Nat
    BY FS_CardinalityType
  <1>2. /\ IsFiniteSet(S \union {x})
        /\ Cardinality(S \union {x})
             = IF x \in S THEN Cardinality(S) ELSE Cardinality(S) + 1
    BY FS_AddElement, Zenon
  <1> QED
    BY <1>1, <1>2

LEMMA OneLess ==
  ASSUME NEW S, IsFiniteSet(S), NEW x
  PROVE  /\ IsFiniteSet(S \ {x})
         /\ Cardinality(S) \in Nat
         /\ Cardinality(S \ {x})
              = IF x \in S THEN Cardinality(S) - 1 ELSE Cardinality(S)
  <1>1. Cardinality(S) \in Nat
    BY FS_CardinalityType
  <1>2. /\ IsFiniteSet(S \ {x})
        /\ Cardinality(S \ {x})
             = IF x \in S THEN Cardinality(S) - 1 ELSE Cardinality(S)
    BY FS_RemoveElement, Zenon
  <1> QED
    BY <1>1, <1>2

\* the sizes are numbers
LEMMA CostTypes ==
  ASSUME Inv, CostInv
  PROVE  /\ Cardinality(Anchored) \in Nat /\ Cardinality(Landed) \in Nat
         /\ Cardinality(UnderWay) \in Nat
         /\ Len(topic) \in Nat /\ faults \in Nat
  <1>1. Len(topic) \in Nat /\ faults \in Nat
    BY LenProperties, PipelineAssumption DEF Inv, TypeOK
  <1> QED
    BY <1>1, FS_CardinalityType DEF CostInv

(* Most steps move no message, receipt or abandoned submission.            *)
SameLanded == \A v \in Workers :
  worker'[v].at = "landed" <=> worker[v].at = "landed"

LEMMA QuietCost ==
  ASSUME CostInv, UNCHANGED <<receipt, topic, late, faults>>, SameLanded
  PROVE  CostInv'
  <1>1. Anchored' = Anchored /\ UnderWay' = UnderWay
    BY DEF Anchored, UnderWay
  <1>2. Landed' = Landed
    BY DEF Landed, SameLanded
  <1> QED
    BY <1>1, <1>2 DEF CostInv

\* an attempt that is over, or a slot that had none
LEMMA ReleasedLanded ==
  ASSUME NEW w \in Workers, SlotReleased(w)
  PROVE  Landed' = Landed \ {w}
  BY DEF SlotReleased, Landed

LEMMA TakeCost ==
  ASSUME Inv, CostInv, NEW w \in Workers,
         \/ \E t \in broker : TakeTask(w, t) \/ RefuseTask(w, t)
         \/ \E r \in fallbacks : TakeFallback(w, r)
  PROVE  CostInv'
  <1>1. UNCHANGED <<receipt, topic, late, faults>> /\ worker[w].at = "idle"
    BY DEF TakeTask, RefuseTask, TakeFallback, rowVars
  <1>2. worker \in [Workers -> Slot]
    BY DEF Inv, TypeOK
  <1>3. CASE \E r : worker' = NoLongerDue(r, worker)
    BY <1>1, <1>2, <1>3, NoLongerDueType, QuietCost DEF SameLanded
  <1>4. CASE \E s : worker' = [worker EXCEPT ![w] = s] /\ s.at = "submitting"
    BY <1>1, <1>2, <1>4, QuietCost DEF SameLanded
  <1>5. ASSUME NEW t \in broker, TakeTask(w, t)
        PROVE  \E s : worker' = [worker EXCEPT ![w] = s] /\ s.at = "submitting"
    <2> DEFINE taken == [Idle EXCEPT !.at = "submitting", !.job = "task",
                                     !.row = t.row, !.tries = t.tries]
    <2>1. worker' = [worker EXCEPT ![w] = taken] /\ taken.at = "submitting"
      BY <1>5 DEF TakeTask, Idle
    <2> HIDE DEF taken
    <2> QED
      BY <2>1
  <1>6. ASSUME NEW r \in fallbacks, TakeFallback(w, r), Submittable(r)
        PROVE  \E s : worker' = [worker EXCEPT ![w] = s] /\ s.at = "submitting"
    <2> DEFINE taken == [Idle EXCEPT !.at = "submitting", !.job = "local", !.row = r]
    <2>1. worker' = [worker EXCEPT ![w] = taken] /\ taken.at = "submitting"
      BY <1>6 DEF TakeFallback, Idle
    <2> HIDE DEF taken
    <2> QED
      BY <2>1
  <1>7. ASSUME NEW r \in fallbacks, TakeFallback(w, r), ~Submittable(r)
        PROVE  \E q : worker' = NoLongerDue(q, worker)
    BY <1>7 DEF TakeFallback, Refuse
  <1>8. ASSUME NEW t \in broker, RefuseTask(w, t)
        PROVE  \E q : worker' = NoLongerDue(q, worker)
    BY <1>8 DEF RefuseTask, Refuse
  <1> QED
    BY <1>3, <1>4, <1>5, <1>6, <1>7, <1>8

LEMMA SweepCost ==
  ASSUME Inv, CostInv, NEW w \in Workers,
         \/ SweepEnds(w)
         \/ \E due \in SUBSET Rows : BeginSweep(w, due)
         \/ \E r \in Rows : SweepTakes(w, r)
  PROVE  CostInv'
  <1>1. /\ UNCHANGED <<receipt, topic, late, faults>>
        /\ worker[w].at # "landed"
    BY DEF SweepEnds, BeginSweep, SweepTakes, rowVars
  <1>2. worker \in [Workers -> Slot]
    BY DEF Inv, TypeOK
  <1>3. CASE SweepEnds(w)
    BY <1>1, <1>2, <1>3, QuietCost DEF SweepEnds, SameLanded, Idle
  <1>4. ASSUME NEW due \in SUBSET Rows, BeginSweep(w, due) PROVE CostInv'
    <2> DEFINE begun == [Idle EXCEPT !.at = "sweeping", !.job = "sweep",
                                     !.due = due, !.left = Batch]
    <2>1. worker' = [worker EXCEPT ![w] = begun] /\ begun.at = "sweeping"
      BY <1>4 DEF BeginSweep, Idle
    <2> HIDE DEF begun
    <2> QED
      BY <1>1, <1>2, <2>1, QuietCost DEF SameLanded
  <1>5. ASSUME NEW r \in Rows, SweepTakes(w, r) PROVE CostInv'
    <2>1. CASE r \in Unrebuildable
      <3>1. SlotReleased(w)
        BY <1>5, <2>1, ReleaseReleases DEF SweepTakes
      <3> QED
        BY <1>1, <3>1, QuietCost DEF SlotReleased, SameLanded
    <2>2. CASE r \notin Unrebuildable
      <3> DEFINE taken == [worker[w] EXCEPT !.at = "submitting", !.row = r]
      <3>1. worker' = [worker EXCEPT ![w] = taken]
        BY <1>5, <2>2 DEF SweepTakes
      <3>2. taken.at = "submitting"
        BY <1>2 DEF Slot
      <3> HIDE DEF taken
      <3> QED
        BY <1>1, <1>2, <3>1, <3>2, QuietCost DEF SameLanded
    <2> QED
      BY <2>1, <2>2
  <1> QED
    BY <1>3, <1>4, <1>5

(* A message lands for an attempt that waits, or for one given up before.  *)
LEMMA LandCost ==
  ASSUME Inv, CostInv, NEW w \in Workers, Land(w)
  PROVE  CostInv'
  <1>1. /\ worker[w].at = "submitting" /\ UNCHANGED <<receipt, late, faults>>
        /\ topic' = Append(topic, worker[w].row)
        /\ worker' = [worker EXCEPT ![w].at = "landed",
                                    ![w].message = Len(topic) + 1]
    BY DEF Land, rowVars
  <1>2. worker[w].row \in Rows /\ topic \in Seq(Rows) /\ worker \in [Workers -> Slot]
    BY <1>1, BusySlot DEF Attempting, Inv, TypeOK
  <1>3. Len(topic') = Len(topic) + 1
    BY <1>1, <1>2, AppendProperties
  <1>4. w \notin Landed
    BY <1>1 DEF Landed
  <1>5. Landed' = Landed \union {w}
    BY <1>1, <1>2 DEF Landed, Slot
  <1>6. /\ IsFiniteSet(Landed')
        /\ Cardinality(Landed') = Cardinality(Landed) + 1
    BY <1>4, <1>5, OneMore DEF CostInv
  <1>7. Anchored' = Anchored /\ UnderWay' = UnderWay
    BY <1>1 DEF Anchored, UnderWay
  <1> QED
    BY <1>1, <1>3, <1>6, <1>7, CostTypes DEF CostInv

LEMMA LandLateCost ==
  ASSUME Inv, CostInv, NEW r \in Rows, LandLate(r)
  PROVE  CostInv'
  <1>1. /\ late[r] > 0 /\ late' = [late EXCEPT ![r] = @ - 1]
        /\ topic' = Append(topic, r)
        /\ UNCHANGED <<receipt, worker, faults>>
    BY DEF LandLate, rowVars
  <1>2. late \in [Rows -> Nat] /\ topic \in Seq(Rows)
    BY DEF Inv, TypeOK
  <1>3. Len(topic') = Len(topic) + 1
    BY <1>1, <1>2, AppendProperties
  <1>4. \A q \in Rows : late'[q] = IF q = r THEN late[r] - 1 ELSE late[q]
    BY <1>1, <1>2
  <1>5. <<r, late[r]>> \in UnderWay
    BY <1>1, <1>2 DEF UnderWay
  <1>6. UnderWay' = UnderWay \ {<<r, late[r]>>}
    <2>1. ASSUME NEW q \in Rows, NEW n \in Nat
          PROVE  <<q, n>> \in UnderWay' <=>
                   <<q, n>> \in UnderWay /\ ~(q = r /\ n = late[r])
      BY <1>2, <1>4 DEF UnderWay
    <2> QED
      BY <2>1 DEF UnderWay
  <1>7. /\ IsFiniteSet(UnderWay')
        /\ Cardinality(UnderWay') = Cardinality(UnderWay) - 1
    BY <1>5, <1>6, OneLess DEF CostInv
  <1>8. Anchored' = Anchored /\ Landed' = Landed
    BY <1>1 DEF Anchored, Landed
  <1> QED
    BY <1>1, <1>3, <1>7, <1>8, CostTypes DEF CostInv

(* The message about to commit becomes the receipt's.                      *)
LEMMA LinkCost ==
  ASSUME Inv, CostInv, NEW w \in Workers, LinkReceipt(w)
  PROVE  CostInv'
  <1> DEFINE r == worker[w].row
  <1>1. /\ worker[w].at = "landed"
        /\ CommitAttempt(w, "anchored", worker[w].message)
        /\ UNCHANGED <<topic, late, faults>>
    BY DEF LinkReceipt
  <1>2. /\ r \in Rows /\ receipt[r] = NoMessage
        /\ (worker[w].job = "sweep" => worker[w].left > 0)
        /\ worker[w].message # NoMessage
    BY <1>1, BusySlot DEF Attempting
  <1>3. receipt' = [receipt EXCEPT ![r] = worker[w].message]
        /\ receipt \in [Rows -> Nat]
    BY <1>1 DEF CommitAttempt, Inv, TypeOK
  <1>4. SlotReleased(w)
    BY <1>1, <1>2, ReleaseReleases DEF CommitAttempt
  <1>5. /\ IsFiniteSet(Landed') /\ Cardinality(Landed') = Cardinality(Landed) - 1
    <2>1. w \in Landed /\ Landed' = Landed \ {w}
      BY <1>1, <1>4, ReleasedLanded DEF Landed
    <2> QED
      BY <2>1, OneLess DEF CostInv
  <1>6. r \notin Anchored /\ Anchored' = Anchored \union {r}
    BY <1>2, <1>3 DEF Anchored
  <1>7. /\ IsFiniteSet(Anchored')
        /\ Cardinality(Anchored') = Cardinality(Anchored) + 1
    <2> HIDE DEF r
    <2> QED
      BY <1>6, OneMore DEF CostInv
  <1>8. UnderWay' = UnderWay
    BY <1>1 DEF UnderWay
  <1> QED
    BY <1>1, <1>5, <1>7, <1>8, CostTypes DEF CostInv

(* A fault pays for the message its attempt may leave: the one in the      *)
(* topic, or the one that a submission nobody waits for will still send.   *)
LEMMA FaultCost ==
  ASSUME Inv, CostInv, NEW w \in Workers, NEW abandoned \in BOOLEAN,
         SlotReleased(w), faults' = faults + 1, UNCHANGED topic,
         Anchored' = Anchored,
         abandoned => worker[w].at = "submitting",
         late' = IF abandoned THEN [late EXCEPT ![worker[w].row] = @ + 1] ELSE late
  PROVE  CostInv'
  <1> DEFINE r == worker[w].row
  <1>1. Landed' = Landed \ {w} /\ late \in [Rows -> Nat]
    BY ReleasedLanded DEF Inv, TypeOK
  <1>2. CASE ~abandoned
    <2>1. UnderWay' = UnderWay
      BY <1>2 DEF UnderWay
    <2>2. /\ IsFiniteSet(Landed')
          /\ Cardinality(Landed') \in {Cardinality(Landed), Cardinality(Landed) - 1}
      BY <1>1, OneLess DEF CostInv
    <2> QED
      BY <2>1, <2>2, CostTypes DEF CostInv
  <1>3. CASE abandoned
    <2>1. r \in Rows /\ w \notin Landed
      BY <1>3, BusySlot DEF Attempting, Landed
    <2>2. \A q \in Rows : late'[q] = IF q = r THEN late[r] + 1 ELSE late[q]
      BY <1>1, <1>3
    <2> HIDE DEF r
    <2>3. <<r, late[r] + 1>> \notin UnderWay
      BY <1>1, <2>1 DEF UnderWay
    <2>4. UnderWay' = UnderWay \union {<<r, late[r] + 1>>}
      <3>1. ASSUME NEW q \in Rows, NEW n \in Nat
            PROVE  <<q, n>> \in UnderWay' <=>
                     <<q, n>> \in UnderWay \/ (q = r /\ n = late[r] + 1)
        BY <1>1, <2>2 DEF UnderWay
      <3>2. <<r, late[r] + 1>> \in Rows \X Nat
        BY <1>1, <2>1
      <3> QED
        BY <3>1, <3>2 DEF UnderWay
    <2>5. /\ IsFiniteSet(UnderWay')
          /\ Cardinality(UnderWay') = Cardinality(UnderWay) + 1
      BY <2>3, <2>4, OneMore DEF CostInv
    <2>6. Landed' = Landed
      BY <1>1, <2>1
    <2> QED
      BY <2>5, <2>6, CostTypes DEF CostInv
  <1> QED
    BY <1>2, <1>3

LEMMA MishapCost ==
  ASSUME Inv, CostInv, NEW w \in Workers, NEW abandoned \in BOOLEAN,
         AbortCommit(w) \/ FailOpen(w, abandoned) \/ Crash(w, abandoned)
  PROVE  CostInv'
  <1>1. CASE AbortCommit(w)
    <2>1. SlotReleased(w)
      BY <1>1, IdleReleases DEF AbortCommit
    <2>2. /\ faults' = faults + 1 /\ UNCHANGED <<topic, late>>
          /\ Anchored' = Anchored
      BY <1>1 DEF AbortCommit, Fault, rowVars, Anchored
    <2> QED
      BY <2>1, <2>2, FaultCost
  <1>2. CASE FailOpen(w, abandoned)
    <2>1. /\ CommitAttempt(w, "failed", NoMessage) /\ worker[w].at \in Attempting
          /\ faults' = faults + 1 /\ UNCHANGED topic
          /\ abandoned => worker[w].at = "submitting"
          /\ late' = IF abandoned THEN [late EXCEPT ![worker[w].row] = @ + 1]
                     ELSE late
      BY <1>2 DEF FailOpen, Fault, Unanswered, Attempting
    <2>2. /\ worker[w].row \in Rows /\ receipt[worker[w].row] = NoMessage
          /\ (worker[w].job = "sweep" => worker[w].left > 0)
      BY <2>1, BusySlot
    <2>3. SlotReleased(w)
      BY <2>1, <2>2, ReleaseReleases DEF CommitAttempt
    <2>4. Anchored' = Anchored
      BY <2>1, <2>2 DEF CommitAttempt, Anchored, Inv, TypeOK
    <2> QED
      BY <2>1, <2>3, <2>4, FaultCost
  <1>3. CASE Crash(w, abandoned)
    <2>1. SlotReleased(w)
      BY <1>3, IdleReleases DEF Crash
    <2>2. /\ faults' = faults + 1 /\ UNCHANGED topic
          /\ abandoned => worker[w].at = "submitting"
          /\ late' = IF abandoned THEN [late EXCEPT ![worker[w].row] = @ + 1]
                     ELSE late
          /\ Anchored' = Anchored
      BY <1>3 DEF Crash, Fault, rowVars, Anchored
    <2> QED
      BY <2>1, <2>2, FaultCost
  <1> QED
    BY <1>1, <1>2, <1>3

LEMMA InitCost == Init => CostInv
  <1> SUFFICES ASSUME Init PROVE CostInv
    OBVIOUS
  <1>1. Anchored = {} /\ Landed = {}
    BY DEF Init, Anchored, Landed, Idle
  <1>2. UnderWay = {}
    BY DEF Init, UnderWay
  <1>3. Len(topic) = 0 /\ faults = 0
    BY DEF Init
  <1> QED
    BY <1>1, <1>2, <1>3, FS_EmptySet DEF CostInv

LEMMA NextCost == Inv /\ CostInv /\ [Next]_vars => CostInv'
  <1> SUFFICES ASSUME Inv, CostInv, [Next]_vars PROVE CostInv'
    OBVIOUS
  <1>1. CASE UNCHANGED <<worker, receipt, topic, late, faults>>
    BY <1>1, QuietCost DEF SameLanded
  <1>2. RequestStep \/ ApiRestarts \/ (\E t \in broker : LoseTask(t))
          \/ UNCHANGED vars
        => UNCHANGED <<worker, receipt, topic, late, faults>>
    BY DEF RequestStep, Decide, Publish, ScheduleFallback, ApiRestarts,
           LoseTask, vars, rowVars
  <1>3. ASSUME NEW w \in Workers, Attempt(w) PROVE CostInv'
    BY <1>3, LandCost, LinkCost, SweepCost DEF Attempt
  <1>4. CASE Mishap
    <2>1. ASSUME NEW w \in Workers, AbortCommit(w) PROVE CostInv'
      BY <2>1, MishapCost
    <2>2. ASSUME NEW w \in Workers, NEW abandoned \in BOOLEAN,
                 FailOpen(w, abandoned) \/ Crash(w, abandoned)
          PROVE  CostInv'
      BY <2>2, MishapCost
    <2> QED
      BY <1>1, <1>2, <1>4, <2>1, <2>2, LandLateCost DEF Mishap
  <1> QED
    BY <1>1, <1>2, <1>3, <1>4, TakeCost, SweepCost DEF Next

(* Every message beyond one per receipt and one per attempt about to       *)
(* commit was paid for by a crash, a timeout or an error, for any number   *)
(* of rows, workers, redeliveries and sweeps.                              *)
THEOREM SurplusIsPaidFor == Spec => []SurplusCostsAFault
  <1>1. Init => Inv /\ CostInv
    BY InitEstablishes, InitCost
  <1>2. Inv /\ CostInv /\ [Next]_vars => (Inv /\ CostInv)'
    BY InvIsInductive, NextCost
  <1>3. Inv /\ CostInv => SurplusCostsAFault
    <2>1. ASSUME Inv, CostInv PROVE SurplusCostsAFault
      <3>1. Len(topic) <= Cardinality(Anchored) + Cardinality(Landed) + faults
        BY <2>1, CostTypes DEF CostInv
      <3> QED
        BY <3>1 DEF SurplusCostsAFault, Anchored, Landed
    <2> QED
      BY <2>1
  <1> QED
    BY <1>1, <1>2, <1>3, PTL DEF Spec
=============================================================================
