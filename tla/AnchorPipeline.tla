--------------------------- MODULE AnchorPipeline ---------------------------
(***************************************************************************)
(* How a decided phase gets its receipt (orchestration/phases/anchor_*.py, *)
(* blockchain/anchor_service.py, tasks/blockchain.py).  A request commits  *)
(* the row with its hash and then tries to publish a task; a worker locks  *)
(* the row, submits the hash to the topic and links the receipt in the     *)
(* same transaction; a sweep takes up whatever is still owed.              *)
(*                                                                         *)
(* Messages to the broker are lost or delivered again, processes end at    *)
(* any moment, and a submission that timed out may still reach the topic.  *)
(* One step is one database transaction, except that an attempt keeps its  *)
(* row locked from Take to its end, because it waits for the topic.        *)
(***************************************************************************)
EXTENDS Integers, Sequences, FiniteSets

CONSTANTS
  Rows,           \* phase_events to be anchored
  Unrebuildable,  \* rows whose evidence is gone: the sweep cannot rebuild them
  Altered,        \* of these, rows whose event_hash itself was changed
  Workers,        \* transaction slots: Celery workers, in-process fallbacks
  NoRow,
  MaxRetries,     \* max_retries of the task
  Batch,          \* _RECOVERY_BATCH_SIZE
  MaxFaults       \* bound: crashes, timeouts and errors of a behaviour

ASSUME PipelineAssumption ==
  /\ Unrebuildable \subseteq Rows /\ Altered \subseteq Unrebuildable
  /\ NoRow \notin Rows
  /\ MaxRetries \in Nat /\ MaxFaults \in Nat /\ Batch \in Nat \ {0}

VARIABLES
  anchor,     \* anchor_status, per row; "open" while the row has no hash
  receipt,    \* blockchain_receipt_id: the message it stands for, or 0
  older,      \* pairs of rows <<q, r>> with q.updated_at < r.updated_at
  unsent,     \* rows committed whose publication still runs in the API process
  fallbacks,  \* rows whose in-process anchor was scheduled
  broker,     \* queued tasks; one stays until it is acknowledged
  worker,     \* what each slot is doing
  topic,      \* external: the messages of the topic, each the hash of a row
  late,       \* submissions per row that nobody waits for any more
  faults

rowVars == <<anchor, receipt, older>>
queues == <<unsent, fallbacks, broker>>
vars == <<rowVars, queues, worker, topic, late, faults>>

NoMessage == 0

Task == [row : Rows, tries : 0 .. MaxRetries]

(* A slot is idle, between two attempts of a sweep, waiting for the topic  *)
(* with its row locked, or about to commit with the message in the topic.  *)
Slot == [at : {"idle", "sweeping", "submitting", "landed"},
         job : {"none", "task", "local", "sweep"},
         row : Rows \union {NoRow}, tries : 0 .. MaxRetries,
         message : Nat, due : SUBSET Rows, left : 0 .. Batch]

Idle == [at |-> "idle", job |-> "none", row |-> NoRow, tries |-> 0,
         message |-> NoMessage, due |-> {}, left |-> 0]
-----------------------------------------------------------------------------
(* Plausible slips, for the mutation check of the runs.                    *)

NeverLocked(r) == FALSE
HashNotChecked(r) == receipt[r] = 0
LinkNotChecked(r) == FALSE
RotatedOnce(r) == IF anchor[r] # "open" THEN older
  ELSE older \union ({q \in Rows : anchor[q] # "open"} \X {r})
OneRetryMore(t) == IF t.tries <= MaxRetries THEN {[t EXCEPT !.tries = @ + 1]} ELSE {}
AssumedAnchored == "anchored"
-----------------------------------------------------------------------------
Committed == {r \in Rows : anchor[r] # "open"}

\* FOR UPDATE on the row, held until the attempt commits or rolls back
Locked(r) == \E w \in Workers :
  worker[w].row = r /\ worker[w].at \in {"submitting", "landed"}

\* anchor_phase_event, the redelivery guard
HasReceipt(r) == receipt[r] # NoMessage

\* updated_at is set to now: the row goes to the back of the sweep's queue
Rotated(r) ==
  {p \in older : r \notin {p[1], p[2]}} \union ((Committed \ {r}) \X {r})

\* ... and is no longer overdue for a sweep that is under way
NoLongerDue(r, slots) == [w \in Workers |-> [slots[w] EXCEPT !.due = @ \ {r}]]

\* the task's bounded retries
Requeued(t) == IF t.tries < MaxRetries THEN {[t EXCEPT !.tries = @ + 1]} ELSE {}

\* what an attempt that got no receipt leaves on the row
Unanswered == "failed"

(* The slot after an attempt: a sweep goes on to its next row, any other   *)
(* job is over.                                                            *)
Released(w) ==
  IF worker[w].job = "sweep"
  THEN [worker[w] EXCEPT !.at = "sweeping", !.row = NoRow,
                         !.message = NoMessage, !.left = @ - 1]
  ELSE Idle

(* A task is acknowledged when its attempt is over (acks_late): for good   *)
(* when the receipt is there, otherwise after its retry was queued.        *)
AfterTask(w, retried) ==
  LET t == [row |-> worker[w].row, tries |-> worker[w].tries]
  IN IF worker[w].job = "task"
     THEN (broker \ {t}) \union (IF retried THEN Requeued(t) ELSE {})
     ELSE broker

(* The attempt of slot w commits and leaves its row in the given state.    *)
CommitAttempt(w, state, message) ==
  LET r == worker[w].row IN
  /\ anchor' = [anchor EXCEPT ![r] = state]
  /\ receipt' = [receipt EXCEPT ![r] = message]
  /\ older' = Rotated(r)
  /\ worker' = NoLongerDue(r, [worker EXCEPT ![w] = Released(w)])
  /\ broker' = AfterTask(w, state # "anchored")

Fault == faults < MaxFaults /\ faults' = faults + 1
-----------------------------------------------------------------------------
Init ==
  /\ anchor = [r \in Rows |-> "open"]
  /\ receipt = [r \in Rows |-> NoMessage]
  /\ older = {}
  /\ unsent = {} /\ fallbacks = {} /\ broker = {}
  /\ worker = [w \in Workers |-> Idle]
  /\ topic = <<>>
  /\ late = [r \in Rows |-> 0]
  /\ faults = 0

(* A request decides the row: hash, status and publication, on its commit. *)
Decide(r) ==
  /\ anchor[r] = "open"
  /\ anchor' = [anchor EXCEPT ![r] = "pending"]
  /\ older' = Rotated(r)
  /\ unsent' = unsent \union {r}
  /\ UNCHANGED <<receipt, fallbacks, broker, worker, topic, late, faults>>

Publish(r) ==
  /\ r \in unsent
  /\ unsent' = unsent \ {r}
  /\ broker' = broker \union {[row |-> r, tries |-> 0]}
  /\ UNCHANGED <<rowVars, fallbacks, worker, topic, late, faults>>

\* the broker is unreachable
ScheduleFallback(r) ==
  /\ r \in unsent
  /\ unsent' = unsent \ {r}
  /\ fallbacks' = fallbacks \union {r}
  /\ UNCHANGED <<rowVars, broker, worker, topic, late, faults>>

\* the API process ends, and with it everything it had only scheduled
ApiRestarts ==
  /\ unsent \union fallbacks # {}
  /\ unsent' = {} /\ fallbacks' = {}
  /\ UNCHANGED <<rowVars, broker, worker, topic, late, faults>>

\* the broker loses a task
LoseTask(t) ==
  /\ t \in broker
  /\ broker' = broker \ {t}
  /\ UNCHANGED <<rowVars, unsent, fallbacks, worker, topic, late, faults>>

(* A task is delivered, perhaps while another worker has it already: then  *)
(* the lock makes it wait.  With a receipt there, or with a payload that   *)
(* is not what the row committed to, nothing is submitted.                 *)
Submittable(r) == ~HasReceipt(r) /\ r \notin Altered

Refuse(r) ==
  /\ anchor' = [anchor EXCEPT ![r] = IF HasReceipt(r) THEN "anchored" ELSE Unanswered]
  /\ older' = Rotated(r)
  /\ worker' = NoLongerDue(r, worker)

TakeTask(w, t) ==
  /\ worker[w].at = "idle"
  /\ t \in broker
  /\ ~Locked(t.row)
  /\ Submittable(t.row)
  /\ worker' = [worker EXCEPT ![w] =
       [Idle EXCEPT !.at = "submitting", !.job = "task", !.row = t.row, !.tries = t.tries]]
  /\ UNCHANGED <<rowVars, queues, topic, late, faults>>

RefuseTask(w, t) ==
  /\ worker[w].at = "idle"
  /\ t \in broker
  /\ ~Locked(t.row)
  /\ ~Submittable(t.row)
  /\ Refuse(t.row)
  /\ broker' = (broker \ {t}) \union
       (IF HasReceipt(t.row) THEN {} ELSE Requeued(t))
  /\ UNCHANGED <<receipt, unsent, fallbacks, topic, late, faults>>

\* the in-process fallback: the same attempt, with nobody to retry it
TakeFallback(w, r) ==
  /\ worker[w].at = "idle"
  /\ r \in fallbacks
  /\ ~Locked(r)
  /\ fallbacks' = fallbacks \ {r}
  /\ IF Submittable(r)
     THEN /\ worker' = [worker EXCEPT ![w] =
               [Idle EXCEPT !.at = "submitting", !.job = "local", !.row = r]]
          /\ UNCHANGED <<anchor, older>>
     ELSE Refuse(r)
  /\ UNCHANGED <<receipt, unsent, broker, topic, late, faults>>

\* the beat starts a sweep over the rows untouched for long enough
BeginSweep(w, due) ==
  /\ worker[w].at = "idle"
  /\ due \subseteq Committed
  /\ \A r \in due, q \in Committed : <<q, r>> \in older => q \in due
  /\ worker' = [worker EXCEPT ![w] =
       [Idle EXCEPT !.at = "sweeping", !.job = "sweep", !.due = due, !.left = Batch]]
  /\ UNCHANGED <<rowVars, queues, topic, late, faults>>

\* recover_phase_anchor's query, SKIP LOCKED, before ORDER BY ... LIMIT 1
Overdue(w) == {r \in worker[w].due :
  anchor[r] \in {"pending", "failed"} /\ ~HasReceipt(r) /\ ~Locked(r)}

SweepTakes(w, r) ==
  /\ worker[w].at = "sweeping" /\ worker[w].left > 0
  /\ r \in Overdue(w)
  /\ \A q \in Overdue(w) : <<q, r>> \notin older
  /\ IF r \in Unrebuildable
     THEN /\ anchor' = [anchor EXCEPT ![r] = Unanswered]
          /\ older' = Rotated(r)
          /\ worker' = NoLongerDue(r, [worker EXCEPT ![w] = Released(w)])
     ELSE /\ worker' = [worker EXCEPT ![w].at = "submitting", ![w].row = r]
          /\ UNCHANGED <<anchor, older>>
  /\ UNCHANGED <<receipt, queues, topic, late, faults>>

SweepEnds(w) ==
  /\ worker[w].at = "sweeping"
  /\ worker[w].left = 0 \/ Overdue(w) = {}
  /\ worker' = [worker EXCEPT ![w] = Idle]
  /\ UNCHANGED <<rowVars, queues, topic, late, faults>>

\* the message reaches the topic
Land(w) ==
  /\ worker[w].at = "submitting"
  /\ topic' = Append(topic, worker[w].row)
  /\ worker' = [worker EXCEPT ![w].at = "landed", ![w].message = Len(topic) + 1]
  /\ UNCHANGED <<rowVars, queues, late, faults>>

\* its answer comes back in time, and the receipt is committed with the link
LinkReceipt(w) ==
  /\ worker[w].at = "landed"
  /\ CommitAttempt(w, "anchored", worker[w].message)
  /\ UNCHANGED <<unsent, fallbacks, topic, late, faults>>

(* HederaServiceError or HederaTimeoutError: committed as a debt.  Before  *)
(* or after the message reached the topic; a submission that timed out     *)
(* before it goes on in its thread.                                        *)
FailOpen(w, abandoned) ==
  /\ worker[w].at \in {"submitting", "landed"}
  /\ abandoned => worker[w].at = "submitting"
  /\ Fault
  /\ CommitAttempt(w, Unanswered, NoMessage)
  /\ late' = IF abandoned THEN [late EXCEPT ![worker[w].row] = @ + 1] ELSE late
  /\ UNCHANGED <<unsent, fallbacks, topic>>

LandLate(r) ==
  /\ late[r] > 0
  /\ late' = [late EXCEPT ![r] = @ - 1]
  /\ topic' = Append(topic, r)
  /\ UNCHANGED <<rowVars, queues, worker, faults>>

\* the transaction fails: everything rolls back, a task is retried, a sweep ends
AbortCommit(w) ==
  /\ worker[w].at \in {"submitting", "landed"}
  /\ Fault
  /\ worker' = [worker EXCEPT ![w] = Idle]
  /\ broker' = AfterTask(w, TRUE)
  /\ UNCHANGED <<rowVars, unsent, fallbacks, topic, late>>

\* the process ends: everything rolls back, a task stays in the broker
Crash(w, abandoned) ==
  /\ worker[w].at # "idle"
  /\ abandoned => worker[w].at = "submitting"
  /\ Fault
  /\ worker' = [worker EXCEPT ![w] = Idle]
  /\ late' = IF abandoned THEN [late EXCEPT ![worker[w].row] = @ + 1] ELSE late
  /\ UNCHANGED <<rowVars, queues, topic>>

RequestStep == \E r \in Rows :
  Decide(r) \/ Publish(r) \/ ScheduleFallback(r)

Attempt(w) == Land(w) \/ LinkReceipt(w) \/ SweepEnds(w)
              \/ \E r \in Rows : SweepTakes(w, r)

Mishap ==
  \/ ApiRestarts
  \/ \E t \in broker : LoseTask(t)
  \/ \E r \in Rows : LandLate(r)
  \/ \E w \in Workers :
       \/ AbortCommit(w)
       \/ \E abandoned \in BOOLEAN : FailOpen(w, abandoned) \/ Crash(w, abandoned)

Next ==
  \/ RequestStep
  \/ \E w \in Workers :
       \/ Attempt(w)
       \/ \E t \in broker : TakeTask(w, t) \/ RefuseTask(w, t)
       \/ \E r \in fallbacks : TakeFallback(w, r)
       \/ \E due \in SUBSET Rows : BeginSweep(w, due)
  \/ Mishap

Spec == Init /\ [][Next]_vars
-----------------------------------------------------------------------------
TypeOK ==
  /\ anchor \in [Rows -> {"open", "pending", "failed", "anchored"}]
  /\ receipt \in [Rows -> Nat]
  /\ older \subseteq Rows \X Rows
  /\ unsent \subseteq Rows /\ fallbacks \subseteq Rows
  /\ broker \subseteq Task
  /\ worker \in [Workers -> Slot]
  /\ topic \in Seq(Rows)
  /\ late \in [Rows -> Nat]
  /\ faults \in 0 .. MaxFaults

(* A row says it is anchored exactly when it is linked to a receipt, and   *)
(* the receipt's message is in the topic and is the hash of that very row: *)
(* no timeout, crash or redelivery leaves a claim nobody can verify.       *)
ReceiptIsReal ==
  \A r \in Rows :
    /\ anchor[r] = "anchored" <=> receipt[r] # NoMessage
    /\ receipt[r] # NoMessage =>
         receipt[r] \in DOMAIN topic /\ topic[receipt[r]] = r

(* Redeliveries, fallbacks and sweeps serialise on the row: one attempt at *)
(* a time, and only while the row has no receipt.                          *)
AttemptsSerialised ==
  \A w \in Workers : worker[w].at \in {"submitting", "landed"} =>
    /\ receipt[worker[w].row] = NoMessage
    /\ \A v \in Workers : worker[v].row = worker[w].row => v = w

(* A message without a receipt costs a fault: the topic holds one message  *)
(* per anchored row, one per attempt about to commit, and otherwise at     *)
(* most one, landed or still under way, for each crash, timeout or error.  *)
SurplusCostsAFault ==
  LET anchored == {r \in Rows : receipt[r] # NoMessage}
      landed == {w \in Workers : worker[w].at = "landed"}
  IN Len(topic) <= Cardinality(anchored) + Cardinality(landed) + faults

(* Altered evidence never acquires a receipt: a row whose hash no longer   *)
(* matches its payload stays an open debt, on the task's path, on the      *)
(* fallback's and on the sweep's.                                          *)
AlteredStaysOwed == \A r \in Altered :
  receipt[r] = NoMessage /\ \A m \in DOMAIN topic : topic[m] # r
-----------------------------------------------------------------------------
(* Fairness.  A slot goes on with what it does, and the topic answers once *)
(* the faults are used up; the beat starts sweeps again and again, so a    *)
(* row left alone is overdue for one of them.  Nothing is assumed of the   *)
(* broker, of tasks or of the API process: any of them may never deliver.  *)
SweepOver(r) == \E w \in Workers, due \in SUBSET Rows :
  r \in due /\ BeginSweep(w, due)

FairSpec ==
  /\ Spec
  /\ \A w \in Workers : WF_vars(Attempt(w))
  /\ \A r \in Rows : SF_vars(SweepOver(r))

(* Every debt is paid: a decided row whose evidence is intact gets its     *)
(* receipt, even when its task was never published, was lost or used up    *)
(* its retries, and rows that can never be anchored do not stand before it *)
(* in the sweep's queue for ever.                                          *)
DebtsArePaid == \A r \in Rows \ Unrebuildable :
  anchor[r] = "pending" ~> anchor[r] = "anchored"
=============================================================================
