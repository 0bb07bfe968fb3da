# FreightProof: a TLA+ model of the custody ledger

FreightProof records who held a road-freight load, when, and on what evidence,
so that the record can be read after a dispute. A dispatcher creates a trip; a
plan of phases is generated from its route; drivers complete the phases from a
phone that may be offline for hours; a trip can be handed from one driver to
another on the way; every decided phase is anchored on a public ledger
(Hedera); a receiver confirms delivery through a QR code. This directory holds
TLA+ models of that system, model-checked with TLC and, for the core, proved
with TLAPS.

`backend/` below is `src/backend/app/`, `orchestration/` is
`src/backend/app/orchestration/` and `driver-pwa/` is `src/frontend/driver-pwa/`.

## 1. Inventory

| Part | State | Operations | What is hard | What makes it correct |
|---|---|---|---|---|
| Phase plan (`phases/plan.py`, `seals.py`) | none: a list of rows made from a route | `build_phase_plan`, lookup of the leg's departure | the corner routes: empty legs, cross-docks, the last stop | every stop has its phases; each arrival is compared with the departure of its own leg |
| Phase ledger (`phases/`) | `phase_events` rows, `trips.status`, `trips.current_phase/stop` | complete, replay, override, derive the position | captures are queued on phones and arrive late, twice, out of order, after a handover or a cancellation | no gap; the position follows from the rows; a recorded capture may always be resent; nothing decided is rewritten |
| Driver handover (`substitutions/`) | requests, completed links, confirmations, record versions, operation keys | arrange, replace, cancel, confirm, complete, correct | two phones and several dispatchers; a blocked incoming driver; requests that outlive what they were made for | one unbroken chain; every capture belongs to the driver who held the trip |
| Trip administration (`trips/administration.py`, `incidents/creation.py`) | `trips.status` | cancel, stop from an incident | races with everything a phone has queued | an ended trip stays as it ended, and nothing outlives it |
| Crew claims (`phases/scheduling.py`, `trips/availability.py`, `trips/creation.py`, `substitutions/eligibility.py`) | row locks on drivers and vehicles; the other trips' status, plan, holder and pending handover | claim a crew at booking, activation, arranging and completing a handover | claims that race, each having read the others' trips; lock order; plans that time overtakes | one trip under way per driver and per vehicle, none committed twice, no circle of waits |
| Anchor pipeline (`phases/anchor_*.py`, `tasks/blockchain.py`, `backend/blockchain/`) | `anchor_status`, receipts, the broker's queue, the topic | publish after commit, submit, time out, retry, recover | at-least-once delivery, crashes between the ledger and the database, submissions that answer after they timed out | a receipt is never claimed without a message; every debt is paid in the end |
| Evidence anchor debts (`evidence_anchors/`) | evidence events, their frozen hash | record, dispatch after the outermost commit, sweep | savepoints that roll back under a request that goes on | an event is dispatched exactly when its row was committed |
| Receiver handover (`handover/`) | capability tokens, confirmations, verifications, the monthly quota | issue, open, rotate, redeem, expire, verify identity, webhook, sweep | the driver rotates the code while the receiver uses it; a vendor answer that is late | one redeemable code at a time; one confirmation per delivery |
| Exceptions and incidents (`exceptions/`, `incidents/`) | exceptions, their review, the incident's ledger and its cache | report, review, claim, open, update, close, link | rows locked in different orders; a cached state | reviews are not lost; the cache is what the ledger says |
| Driver's phone (`driver-pwa/lib`: `session/`, `submission/`, `hooks/useOfflineQueue.ts`, `offline/`, `context/TripContext.tsx`) | the signed-in account and its generation; queued captures, drafts, retained drafts; the requests under way; the copy of the trip | sign in and out, capture, submit, queue, flush, retry, discard, send late evidence | a request or a flush overtaken by sign-out, another driver or a handover; lost answers; a full storage; a reload | nothing is sent under another driver's session; nothing disappears; one capture is one record at the server |
| Exception reports on the phone (`offline/exception-sync.ts`, `exception-store.ts`) | saved envelopes and their photos' ids, the report's lock | submit, revise, flush, try again, discard | the page and the flush send the same report; a revision during a send; each photo is a request of its own | one report, whole, in its driver's name; a newer revision is not deleted |
| Audit packs (`audit_packs/`) | issued packs, their versions, viewer grants | issue, seal, open, revoke | two issues at once | versions are dense and unique |
| Sessions and limits (`backend/auth/sessions.py`, `core/rate_limit.py`) | the driver's one device, window counters | claim, supersede, expire, count | an unlocked read before a conditional write | the newest sign-in wins |

The hazards this leads to, each with the line where it bites, are in
`PROJECT.json`, with the properties that cover them.

## 2. Modules

| Module | Models | Kind |
|---|---|---|
| `PlanShape` | one stop of the loop of `build_phase_plan`, and the whole plan of a route | operators |
| `PhasePlan` | the loop, for every route up to a bound, and the lookup of a leg's departure | specification |
| `TripLedger` | one trip: ledger, position, custody chain, handover requests, cancellation | specification |
| `CustodyRecord` | what a trip promises to the people who read it later | abstract specification |
| `MCTripLedger` | small instances of `TripLedger` | instance |
| `TripLedger_proofs` | the theorems about `TripLedger` and their proofs | proofs |
| `AnchorPipeline` | publication, delivery, attempts, timeouts and recovery of the anchors of decided rows | specification |
| `AnchorPipeline_proofs` | the theorems about `AnchorPipeline` and their proofs | proofs |
| `HandoverGrant` | the series of QR codes of one delivery: rotation, opening, redemption | specification |
| `ReceiverVerification` | the identity check beside a code: consent, quota, the three paths of a decision | specification |
| `ActorLease` | who is signed in on the phone, and the generations a session goes through | component of the next three |
| `OfflineQueue` | a phase capture from the swipe to the server's answer, on a phone that drivers share | specification |
| `CheckpointQueue` | `OfflineQueue` with the checkpoint screen | specification |
| `MCOfflineQueue` | the small instance of both | instance |
| `ExceptionReports` | one exception report with its photos, its page and the background flush | specification |
| `CrewClaims` | who may use a driver and the vehicles, and when: bookings, starts and handovers of several trips, lock by lock | specification |
| `MCCrewClaims` | its small instance | instance |
| `CrewClaims_proofs` | the theorems about `CrewClaims` and their proofs | proofs |
| `PhasePlan_proofs`, `HandoverGrant_proofs`, `ReceiverVerification_proofs`, `OfflineQueue_proofs`, `ExceptionReports_proofs` | the theorems about the module each is named for, and their proofs | proofs |

`CrewClaims` is what `TripLedger` leaves out: several trips at once. Its
`CommitActivation`, `CommitOffer` and `CommitHandover` are the activation,
`Arrange` or `Replace`, and the completing `Confirm` or `CompleteAttested` of the
ledger, with the claims they make before they commit; `blocked` there is the
outcome of `Grantable` here.

`PhasePlan` and `TripLedger` share `PlanShape`, so a run of the ledger starts
from a plan the generator makes. `AnchorPipeline` begins where a `CompletePhase`
or `OverridePhase` of `TripLedger` commits a row (its `Decide`). `HandoverGrant`
and `ReceiverVerification` meet in one update: the vendor's answer extends the
token's expiry (`FinishVerify` there, `SessionCreated` here). `OfflineQueue` and
`ExceptionReports` extend `ActorLease`, whose steps are steps of theirs. The
server of `OfflineQueue` is `TripLedger` seen from one phone: its answer to a
write, and nothing else (`Answer`).

### TripLedger

Every write handler takes the trip's row lock first and commits or rolls back as
one transaction, so each handler is one action. A refusal changes nothing and is
not an action. A phone may send any capture at any moment, any number of times:
the action `CompletePhase` takes every capture (`Captures`), and the answers
that leave the state alone (an idempotent replay, "already recorded") are the
predicate `Acknowledged`, in the order in which the code evaluates them.

| Code | Model |
|---|---|
| `complete_phase`, `_gate_and_load`, `_finish_phase` | `Acknowledged`, `Accepts`, `CompletePhase` |
| `override_phase` | `OverridePhase` |
| `recompute_position` | `RecomputePosition` |
| `cancel_trip`, `terminate_trip`, an incident that stops its trip | `TerminateTrip` |
| `arrange_substitution`, `cancel_substitution`, `replace_substitution` | `Arrange`, `CancelRequest`, `Replace` |
| `confirm_substitution` | `Confirm`; its argument `blocked` is the outcome of `first_completion_blocker` |
| `complete_attested_substitution` | `CompleteAttested` |
| `derive_custody`, `custody_holders`, `check_custody_sequence`, `authorise_driver_write` | `CurrentDriver`, `Holder`, `ClaimFits`, `Admitted` |
| the warehouse's scan feed (not in this repository) | `CloseSession`, external |

A capture is identified with its idempotency key, and the model gives a driver
one key per row and custody claim. The crew and schedule gates of activation
read other trips; here they are the choice not to take the step, and
`CrewClaims` models them.

### CrewClaims

| Code | Model |
|---|---|
| `lock_trip_statement` under each handler, and its checks | `LockTrip`, `MayProceed` |
| `lock_crew_set` | `LockCrew`, one row at a time in the order of `Before` |
| `_claim_crew` of a booking | `Book`, `BookingRows`, `CommitBooking` |
| `_reject_if_not_due`, `_claim_crew_for_activation`, `advance_activation` | `MayProceed`, `Underway`, `EarlierToday`, `CommitActivation` |
| `_checked_incoming`, `require_arrangeable`, a replacement | `OffersFor`, `ReservedWindow`, `CommitOffer` |
| `first_completion_blocker`, `_complete` | `TakeoverWindow`, `CommitHandover` |
| `busy_crew_in_window` with `_occupied_window`, `_shared_resources` | `HeldWindow`, `HoldingDriver`, `ReservingDriver`, `HoldingVehicles` |
| the commit or rollback that ends a request's transaction | `Finish`, `Rollback` |

A transaction (`Workers`) goes from idle to locking its crew, to having decided,
to its commit, and other transactions and the clock run between any two of those
steps. A waiting request for a trip's lock is one that has not been made yet. The
handlers that lock the trip and no crew (override, the later phases, cancelling a
handover, the end of the trip) are single steps while nobody holds that lock.
Time is a number: the plan, the exchange times and the clock share it, and
`Forever` stands for an end nobody knows. The two readings of a trip's end are
kept apart: the availability rule falls back on the timed stops, the handover's
own windows look at `planned_arrival_at` alone (`OnStops`, `Arrival`). A handover
is timed by the moment the request read the clock, before it waited for the crew
(`seen`); a booking and a completion read it after. Every trip here has a planned
start, which both the wizard and activation require.

### PhasePlan

One behaviour per route: `Init` chooses the route, each step emits one stop, as
the loop does. The plan is judged when the loop ends.

### CustodyRecord

The reader's view: a list of holders, a record whose entries are made by the
present holder or openly by a dispatcher, a fate reached once. `TripLedger`
implements it through the mapping at its end; phones, keys, requests and gates
do not appear in it.

### AnchorPipeline

| Code | Model |
|---|---|
| `_finish_phase`, `override_phase` with `run_after_outer_commit` | `Decide`, then `Publish` or `ScheduleFallback` |
| delivery of `anchor_phase_event_task`, `acks_late`, its bounded retries | `TakeTask`, `RefuseTask`, `AfterTask`, `Requeued` |
| the in-process anchor when the broker is unreachable | `TakeFallback` |
| `recover_phase_anchor` and the sweep around it | `BeginSweep`, `SweepTakes`, `SweepEnds` |
| the submission, its timeout, the link of the receipt | `Land`, `FailOpen`, `LandLate`, `LinkReceipt` |
| processes that end, transactions that fail, a broker that forgets | `Crash`, `AbortCommit`, `ApiRestarts`, `LoseTask` |

An attempt holds its row's lock while it waits for the topic, so it is several
steps: taken, landed or not, committed or not. Everything else is one
transaction and one step. The topic is external: a sequence of the rows whose
hash was submitted. A submission that timed out goes on in its thread; `late`
counts those, and they may land at any later time. `updated_at` decides which
row the sweep takes first; the model keeps only its order (`older`).

### HandoverGrant

Rotations take the trip's lock, the public requests do not, and all run READ
COMMITTED; so a step is one statement wherever a request acts later on what it
has read: a browser reads the token (`Present`) and then opens it
(`MarkOpened`), redeems it (`Redeem`) or has it extended (`FinishVerify`). A
redemption keeps the token's row locked across the upload of the signature, and
`CanRetire` makes the others wait for it. Expiry may come at any time. The
columns of a token are reduced to whether it is live, who opened it, whether it
is redeemed, and whether a check was asked and extended it.

### ReceiverVerification

Every path takes the row's lock and is one step, except the start of a session,
which keeps the row and the month's quota locked while it asks the vendor
(`BeginVerification`, then `SessionCreated`, `VendorUnavailable` or
`VerificationLost`). A start may fail or be lost before the vendor has heard of
it or after it has opened a session (`reached`); `opened` counts what the vendor
opened and meters, `lost` the starts that ended before their commit. The vendor
is external: it decides, may change its decision on review, and a webhook may
carry any decision it ever gave, any number of times. An exception that cannot
be written is given up, as the code does (`written`).

### ActorLease

| Code | Model |
|---|---|
| `observeAuthSession`, the auth listener's `restore` | `Observe`, with the profile read it starts |
| `bindActorLease` in the answer to a profile read | `ProfileAnswer`, `MayBind` |
| `performSignOut` | `SignOut` |
| `captureActorLease`, `isActorLeaseCurrent`, `assertActorGeneration` | `Lease`, `LeaseIsCurrent`, and `Current` of `OfflineQueue` |
| an app that is killed and opened again | `ForgetLease` |

### OfflineQueue and CheckpointQueue

| Code | Model |
|---|---|
| `handOffSubmission`, `startPhaseSubmission` | `Swipe` |
| the uploads and the POST of one attempt | `Post`, `Lose`, `Land` |
| `runSubmission` and the screen's `handleOutcome` | `SubmissionRecorded`, `SubmissionRetained`, `SubmissionUnanswered`, `SubmissionConflict` |
| `readDraft`, `writeDraft`, `removeDraft`, retained drafts | `WriteDraft`, `Displaced`, `ClearDraft`, `DiscardDraft` |
| `flushQueue` | `Trigger`, `SendEntry`, `TakeAnswer`, `EndFlush` |
| `retryAttention`, `retryRetainedItem`, `discardRetainedItem` | `RetryAttention`, `DiscardEntry` |
| `sendLateEvidence` | `SendLate`, `EndLate` |
| `refetchTrip`, `selectTrip`, `refreshQuietly` | `LoadTrip` |
| the keyed remount of `TripContext` | `ChangeSession` |
| `CheckpointPageClient.handleSubmit`, `enqueueCheckpoint` | the actions of `CheckpointQueue` |

Everything between two awaits is one step, as it is in a browser. The server
decides in the step in which the POST leaves; the phone takes the answer up in a
later one, and only if the generation is still the same. A request without an
answer (`Lose`) may have arrived, and may arrive at any later time (`Land`).
Handovers, overrides and completions by the holder from another phone
(`CompleteElsewhere`) happen at any time. Storage may refuse an enqueue
(`persisted`). The queue is a set of entries with a place in line, taken in the
order of enqueueing; a place is unique among the entries present. A capture is
identified with its idempotency key, and what it carries is its driver, its
custody period and its row (0 for a checkpoint). Trying a checkpoint again from
its screen is another capture, with another key. The server keeps late evidence
under the same keys (`receipts`): it refuses a capture that is not of a former
period of its driver, and may refuse one that is, such as for a photo it cannot
place in that period (`SendLate`). A late refusal takes the place of the conflict
code, so the entry may be reported late again and tried again live
(`LateRefused`, `MayRetry`).

### ExceptionReports

| Code | Model |
|---|---|
| the report page's submit and `submitExceptionReport` | `Press`, `SaveAndSend` |
| `waitReportLock`, `tryReportLock`, `releaseReportLock` | `holder`, `AfterRelease` |
| `flushExceptionEnvelopes` | `FlushLists`, `FlushSkips`, `FlushTakes` |
| `run` | `SendPhoto`, `TakePhoto`, `Post`, `Acknowledged`, `Rejected`, `Unanswered`, `StopSending` |
| `saveExceptionEnvelope`, `mergePhotos`, `recordPhotoUploaded` | `Merged`, `TakePhoto` |
| `resetExceptionToPending`, `discardRetainedItem` | `TryAgain`, `DriverDiscards` |

One report, one tab: the lock is module state, so two tabs have two. A lost
answer to a post is that of a report that arrived or of one that never will. The
server answers a second post of the report with the first, whatever its body. A
saved report may fail to be read again (`saved` without `durable`), and is then
sent as it was in memory. The page's bounded wait for a position is part of
`Press`, so a change of account during that wait is not in the model. `copies`
counts the uploads of a photo until the report is filed.

## 3. Runs

Sizes are distinct states.

| Run | Instance | States | Shows |
|---|---|---|---|
| `phase_plan` | every route of 2 to 4 stops, each loading, delivering, both or neither | 1,584 | each stop gets its phases, each arrival its own leg's departure |
| `trip_handover` | the whole seven-row plan of an empty repositioning run (two stops, no consignments), three drivers, up to three requests, handovers at once (`immediate_v2`) | 297,611 | eight invariants and the refinement of `CustodyRecord`: an abstract record that only grows, by its present holder, until the trip ends |
| `trip_progress` | one consignment from the first stop to the last, scan gates at both, both request formats | 93,984 | the trip ends |
| `trip_override_last` | the empty run, one request | | a violation, see section 5 |
| `anchor_debts` | two rows, one altered and without its evidence, two slots, one retry, a batch of one, two faults | 177,330 | a receipt is never claimed without its own message; attempts at a row are serial; a message without a receipt costs a fault; the intact row is anchored in the end, the altered one never |
| `crew_race` | three trips (two follow each other on one driver's day, two share a vehicle, two plans overlap), two drivers, two vehicles, two transactions, the clock from 0 to 4 | 599,484 | no driver or vehicle on two started trips or committed twice; the day's trips started in order; no circle of waits |
| `grant_series` | three tokens, two browsers | 2.7 million | one confirmation, by the browser that opened its token; a redemption stands exactly with its confirmation; only an extension brings an older code back |
| `verification_paths` | two tokens, a quota of one, one lost start | 120,418 | every verdict and every accusation has its ground, the quota holds up to lost starts, verdicts stand, nobody waits for ever |
| `verification_early` | one token | | a violation, see section 5 |
| `phone_queue` | two drivers, one handover, two rows, two captures, two session changes, one fault | 3.6 million | a capture goes out only with its own driver's token; none is kept both as late evidence and live; no evidence leaves the phone unrecorded |
| `queue_checkpoint` | two drivers, one row, one checkpoint, one session change, one fault | | a violation, see section 5 |
| `phone_reports` | two photos, two revisions, one session change, one fault | 783,056 | the report is filed whole and in its driver's name; a photo is stored twice only for a cause; a newer revision is not deleted; the driver is answered |

The bounds. Three drivers are what it takes for a handover away and back and for
a bystander; three requests are what it takes for a replacement and a second
handover, so for a driver who returns in a later custody period. The plan is
long enough for rows before, between and after the handovers. A route of four
stops has two stops in the middle, which is all the loop can tell apart. Two
rows let one stand before the other in the sweep's queue, and two slots let a
redelivery or a sweep meet an attempt under way; two faults are a timeout that is
followed by a crash of its retry. Three tokens let a retirement meet a code
that an extension brought back while the next one is issued. Two tokens compete
for the last session of the month, and one lost start is enough for the vendor to
have opened more than were counted. One row of `anchor_debts` can be submitted
and one cannot, so that one debt is paid beside one that never is; two rows
under way at once are left to the proofs, which hold for any number.

Two transactions are enough for a circle of waits and for a check that another
commit overtakes. The three trips are the pairs the rules tell apart: the same
driver on one day, a shared vehicle, and plans that overlap. A handover can make
two drivers' trips one driver's. Day 0 ends at time 0, so the clock crosses into
the day of all the plans; up to time 4 a trip can be started early, overrun its
end, and have an exchange fall due before and after that. Any number of
transactions, trips and times is left to the proofs.

On the phone, two captures are enough for a queue with an order, for a flush
with an entry left when the account changes, and for two attempts at one row.
Two session changes are a sign-out with another driver's sign-in, and one with
the same driver's return. Two rows are the one a capture is for and the one
behind it that a stalled flush holds back. `phone_queue` takes no checkpoints
(`Spec`, not `CheckpointSpec`): their defect is the subject of
`queue_checkpoint`. The fault is a lost answer, a refused write, a reload, or a
late report of a former period that is refused, so that one capture comes to be
reported late, refused, tried again live and reported late once more. A driver
who takes the trip back needs a third custody period, which is left to the
proofs (`Custody` is any sequence of drivers). Two photos let a revision drop
one and keep the other; two revisions let one be saved while the other is being
sent.

Fairness, where a run needs it:

- `trip_progress`: the phone's queue resends until it is answered
  (`DriverCompletes` is weakly fair), and the warehouse closes the scan session
  of a stop once the truck is there, not earlier (`TruckAt`). Nothing is assumed
  of dispatchers. With this weak fairness no handover can starve the drivers,
  because requests are bounded by `MaxRequests`; the code has no such bound, but
  a dispatcher who replaces requests for ever is not a fault of the code.
- `anchor_debts`: a slot goes on with its attempt (weak, `Attempt`), since every
  wait in it has a timeout; and sweeps over a row left alone begin again and
  again (strong, `SweepOver`), since the beat runs on a period and other work
  may occupy the slot in between. Nothing is assumed of the broker, of tasks or
  of the API process. Faults are bounded by `MaxFaults`, so the topic answers in
  the end.
- `phone_reports`: a sender that has begun goes on (weak, `PageStep` and
  `FlushStep`), since every request is answered or times out. Nothing is assumed
  of the driver, the triggers of the flush or the session.
- `verification_paths`: the call to the vendor is bounded by
  `IDVS_SESSION_TIMEOUT_SECONDS` (weak), the beat runs the sweep (weak), and a
  token dies by the clock however often its receiver tries (strong, as each try
  holds it for a moment). Nothing is assumed of the receiver or the vendor.

Deadlock is checked in the runs of `PhasePlan` and `AnchorPipeline`. The others
may stop: a closed trip, a confirmed delivery, a decided verification and a phone
whose queue is empty, with no bound left to use, have nothing more to do. In
`crew_race` every trip is over when the clock stands still; that transactions do
not wait for each other is `NoWaitCycle`.

## 4. Proofs

Every safety property of the passing runs is a theorem, for every value of the
constants; what each rests on is an inductive invariant that TLC checked on the
run's instance first.

### The plan

`PhasePlan_proofs` proves both invariants of `phase_plan` for routes of any
length (`MaxStops` is any number of at least two). `PlanInv` is what the loop
keeps: the stops emitted so far have their phases (`StopsComplete`), every
arrival follows its departure and its drive, every drive but an open one is
followed by its arrival (`LegsMeet`), and a route under way ends with the drive
from the stop emitted last (`DriveIsOpen`), without which the next stop's arrival
would not be known to find it. `AtStopPlaced` says once, by places, which rows a
stop emits. `PlansFitTheLedger` then gives `PlanAssumption` of `TripLedger`, so
what is proved of the ledger holds of every plan the generator makes.

### The ledger

`TripLedger_proofs` proves, for every plan, any set of drivers and any number of
requests (the assumptions are those named in `TripLedger`), all eight
invariants of `trip_handover` and the refinement.

For the evidence the inductive invariant is `TypeOK /\ Frontier /\
AttributedToHolder`. `Frontier` says that the decided rows are exactly those
below `position`, or all rows of a closed trip: that is what makes a step at one
row visible to the others, since a driver or a dispatcher decides a row only when
no row below it is open, so only the row at the frontier ever changes.
`LedgerInOrder` and `PositionFollowsLedger` follow from it directly.
`AttributedToHolder` is inductive with it: the chain only grows, so a recorded
period keeps its holder, and the new row gets the newest period, so periods
cannot run backwards along the plan. The two properties about answers follow
from `AttributedToHolder` without induction: a recorded capture names its driver
and its key, and the code asks for both.

`ChainUnbroken` and `IncomingAccepted` are inductive together with `TypeOK`: a
step that adds no link keeps them when it writes no completed request and leaves
at most one request pending, the present holder's (`ChainKept`); a step that adds
one completes that pending request (`ChainExtended`).

`LedgerImplementsCustody` proves the refinement of `CustodyRecord` step by step,
from all of the above. The mapping's three parts are named (`Holders`,
`Entries`, `Fate`). A completion or an override moves the frontier by one row and
appends one entry (`Frontier` says which), a handover appends a holder
(`ChainUnbroken` says that it is another driver), the end of a trip sets its
fate, and every other action changes nothing the record shows. The transition
that closes the last row decides a row and the fate in one abstract step.

### The anchors

`AnchorPipeline_proofs` proves `TypeOK`, `ReceiptIsReal`, `AttemptsSerialised`,
`AlteredStaysOwed` and `SurplusCostsAFault` for any rows, any number of slots,
retries and faults and any batch, from `PipelineAssumption` alone.

None of the middle three is inductive by itself. A receipt is real because the
message a slot is about to link is already in the topic, at the place the slot
remembers, and belongs to the row the slot has locked; that is `SlotsConsistent`.
It also says that a slot names a row exactly while it attempts one, so that a
row nobody has locked is a row no slot names, which is what a slot needs to know
to take it. An altered row sends nothing because nothing is under way for it
either, in a slot or as a late submission; that is `AlteredUntouched`. The
invariant is the conjunction of the five. The proof has one lemma for each way a
step changes the slots (`ReleaseKeeps`, `TakeKeeps`, `AppendKeeps`,
`QuietKeeps`) and one for each action.

`SurplusCostsAFault` is a count. `CostInv` adds to the messages of the topic the
submissions that timed out and may still land (`UnderWay`, one element for each):
together they are no more than the receipts, the attempts that have landed and
not committed, and the faults. A timeout pays for its submission when it is
counted, so a late landing moves one element from `UnderWay` to the topic; a crash
or an aborted commit pays for the landed attempt it drops.

### The crew

`CrewClaims_proofs` proves `TypeOK`, `OneTripAtATime`, `NoDoubleBooking` and
`StartedInOrder` for any trips, crews, plans and exchange times, and any number
of transactions, from the assumptions named in `CrewClaims`.

The argument is that what a transaction found free stays free until it commits.
A trip gains a commitment to a driver or a vehicle, becomes live, or passes to a
driver only at the commit of a transaction that holds that row's lock
(`GainsOnlyLocked`, `MovesOnlyLocked`), and no row is locked twice
(`LocksExclusive`). So the inductive invariant says which rows an open claim
locks or will lock (`CrewLocked`), that what it found of its own trip still
stands (`ClaimsStand`, `Carried`, `OneBooking`), and what its check established
about the others (`ClearAsked`, `StartsFree`, `HandsFree`). Three lemmas carry
the arithmetic of the windows: a driver or vehicle that is free of every
overlapping window has no clashing commitment (`FreeDriverIsClear`,
`FreeVehicleIsClear`), and a takeover that meets nobody's window from now on
finds its driver on no live trip (`TakeoverFree`), which needs that a live trip
is held from now when it began early and without end when it has overrun. Time
passing only helps: `now` counts as a bound in `NoDoubleBooking`, and the clock
never goes back.

`NoWaitCycle` needs one more fact, `InLockOrder`: whatever a transaction holds
comes, in the order of `Before`, before everything it has yet to lock. In a circle
of waits each transaction waits for a row that another of them holds, and that
one waits for a row further on. The set of rows further on only shrinks along the
circle, so the transaction for which it is smallest would wait for one for which
it is smaller. This needs finitely many transactions (`WorkersAssumption`: the
database serves a bounded number of connections); an infinite chain of waits
would break no lock order.

### The receiver

`HandoverGrant_proofs` proves `TypeOK`, `RedeemedIsConfirmed` and
`OnlyExtensionRevives` for any number of codes and browsers. The redemption
stands with its confirmation because a secret is held only by the browser that
opened its token (`SecretsBound`) and every confirmation under way was let in by
that secret (`ConfirmersBound`). `OnlyExtensionRevives` is not inductive: it
would let an older unextended code live beside a newer one that has expired, and
an extension of the newer would then break it. What holds step by step is that
only the newest code lives without an extension (`OnlyNewestUnextended`), and
that an extended code's check was asked for (`ExtendedWasAsked`).

`ReceiverVerification_proofs` proves `TypeOK`, `QuotaHolds`, `VerdictIsGrounded`
and the action property `VerdictStands` for any tokens and limit. A session being
opened is a pending row's, so that its failure cannot touch a verdict, and its
slot of the quota is still free, because the start of a session keeps the month's
counter locked (`RowInv`, `QuotaInv`). A start that commits counts its slot,
whether or not the vendor was reached; one that is rolled back adds one to `lost`.
The vendor's present answer is one it gave,
so an approval that is read grounds what it verifies.

### The phone

`OfflineQueue_proofs` proves, for any drivers, any number of rows, custody
periods, captures and faults, `TypeOK`, `SentAsCapturer`, `NothingLost`,
`LiveOrLate`, and that a bound driver is always the account whose token requests
carry (`ActorIsTheSession`; the lemmas about the lease open the module, and that
of the reports).

The inductive invariant has four parts. `LeaseInv` says that a profile read of
the present generation is the present account's, so whatever binds is the
session's own driver. `TypeInv` is `TypeOK` with the types of the flush and the
late send. `OwnerInv` says that an attempt of the present generation belongs to
the account of that session, that an entry is stored under its own capturer's
name, and that what the running pass has in hand is its lease's own: this is what
carries `SentAsCapturer` across the awaits between reading the queue, asking the
lease and sending. `OneSender` says that a capture has one sender at a time (the
screen or one queue entry, which only the flush sends) and one answer in a pass;
without it a refused entry could have a second, pending copy.

The second part proves `NothingLost` from that invariant and a second one,
`KeptInv`, of four parts; the order of `Custody` is arbitrary, so a driver may
give the trip up and come back to it. Every step that empties a place on the
phone is shown to leave the item elsewhere on it, or to rest on an answer; the
work is to show that such an answer is true. `AnswersAreTrue` says so: an
attempt the phone takes for recorded is at the server, under its own key or as
the same driver's completion of that row. The hard case is the step screen's
uncoded refusal, where it reads the plan and takes a completed row for its own.
That is right in the capture's own custody period, and only because of
`CompletedSinceByHolder`: a row that was open when the present holder looked,
and is completed now, was completed by that holder. That rests on `RowsInOrder`
and `PeriodsFitDrivers` (captures and the trip on screen belong to the holder of
their period). For a capture of an earlier period the conclusion may be wrong,
and no draft is cleared for it: the plan just read has moved the screen on to
the later period, so `isCurrentCapture` fails.

The third part proves `LiveOrLate`. What the server refuses for custody is barred
(`Barred`): its period is over and nobody's record is it, since the server looks
for its driver's own record before it refuses, and no other driver's record can
name it (`RecordsAreTheirCapturers`). A barred capture stays barred, because a
live write takes only captures of the current period and periods do not return.
`RefusalsBar` follows the refusal through the answer, the flush, the queue, the
late report and the receipt; so nothing kept as late evidence is or becomes a
completion, though Try again may send it live.

### The exception reports

`ExceptionReports_proofs` proves `TypeOK`, `FiledAsSubmitted`,
`SecondCopyHasACause` and the action property `RemovesOnlyWhatItSent` for any
photos, revisions, session changes and faults. The report's lock is held by the
one sender that acts on it (`LockKept`), every envelope, stored or copied, is
one revision as it was submitted (`CopiesSubmitted`), and the sender that holds
the lock has copied the very revision that is stored and knows every id this
session was given (`HolderKnows`). So it posts a whole revision, deletes no
newer one, and uploads only photos whose id nobody holds. `CopiesCost` counts
those: a photo whose id is not held has at most as many copies as there were
faults and session changes, and one more at most once it is held. An id is held
also while the answer that brings it is on its way to a sender that will still
take it.

### Only model-checked

The liveness properties (`TripReachesAnEnd`, `DebtsArePaid`, `EventuallyDecided`,
`PressIsAnswered`) stay with TLC: liveness under fairness and `ENABLED` are out of
TLAPS's reach. So is what the recursively defined `PlanFor` is for every route,
which needs an induction over the route; the same loop, as a state machine, is
proved in `PhasePlan_proofs`.

## 5. Findings

`trip_override_last`: an override of the last open row closes the trip and
leaves its handover request pending, although `trips/administration.py:82` says
that a pending handover cannot outlive its trip, and the completion path cancels
it.

`verification_early`: a row that never got a session is resolved while its
status is still pending, although `handover/service.py:383` says that
`resolved_at` is set only once the verdict is final. A session started after
that is never cross-checked.

`queue_checkpoint`: a checkpoint is stored under the name of whoever is signed in
when it is queued, not of the driver who tapped. `handleSubmit` takes the custody
period at the tap, `enqueueCheckpoint` reads `currentActorId()` after the GPS
wait and the failed request and asks no lease, although
`session/custody-context.ts:2` says that the name is read at the moment of
capture, and `useOfflineQueue.ts:77` why. The next driver's flush sends the
checkpoint under that driver's token, and that driver may discard it. With nobody
signed in the entry has no name and is never sent. The panic page enqueues its
report in the same way.

Seen while modelling, and in the models, but without a run of their own:

- a trip whose activation was overridden stays created while its later phases are
  completed (only `advance_activation` makes it active), and the rule "One trip
  at a time, for the driver and for every vehicle" of `phases/scheduling.py:137`
  counts active trips only: it does not keep another trip from being started
  with that crew. `OneTripAtATime` holds of started trips, `NoDoubleBooking` of
  the plans of both kinds;
- two codes of one delivery can be redeemable at once, although
  `handover/capability.py:357` says that at most one is: a code is opened and its
  identity check requested, the driver's next code retires it, and the vendor's
  answer extends it beside the new one. `OnlyExtensionRevives` shows that nothing
  else makes two, `RedeemedIsConfirmed` that one confirmation stands all the same;
- a code can stay live after the confirmation when a rotation overlaps it; the
  unique constraint on the phase event still keeps one confirmation;
- an unforced rotation can retire a code that was opened after it looked for
  open codes;
- a cross-check recorded at an undecided session is kept, so a webhook's
  approval then gives `failed` unresolved, and a second return may verify;
- a vendor session opened by a request that ends before its commit is on no row
  and not counted in the quota, although the vendor meters it, and the next start
  opens another; `QuotaHolds` bounds such sessions by the lost starts (`opened`,
  `lost`), which the code does not bound;
- a refusal of late evidence replaces the conflict code of the entry, and Try
  again then sends it live (`noteRefusal`, `offline/late-evidence-sync.ts:196`),
  although `useOfflineQueue.ts:441` says that "Custody conflicts are NOT retried
  live". As that comment goes on, the server refuses it again: `LiveOrLate` shows
  that no second record comes of it;
- a flush asked for while a pass is running is ignored, also the one that follows
  a change of account, although `custody-context.ts:114` relies on it;
- the queue holds captures in the order in which their attempts failed, not in
  that of capture, although the stall at `useOfflineQueue.ts:377` is there to keep
  them in order;
- the marker of a queued phase stays when the flush is refused or the entry
  discarded, so the phase is shown as resolved until the app reloads;
- in period 0 a second key for a decided row is answered as recorded;
- an answer to an older load of the trip may replace a newer copy;
- the report's lock is per tab, so two tabs may upload a photo twice;
- a revision of a report saved after the server has filed an earlier one is
  answered as recorded, and its newer photos stay unfiled.

## 6. Plan

In this order:

1. `RowLocks`: the lock modes of all the handlers, incidents included.
2. `Outbox`: publication at nested commits (`run_after_outer_commit`).
3. `SubstitutionOps`: record versions and operation keys of the handover handlers.
4. The rest of the phone: location pings, the handover's own capture, two tabs.
5. The incident ledger and its cache; sessions; audit pack versions.

Theorems next: the safety of those modules, as they are written; that a chain of
custody periods in `OfflineQueue` is one `TripLedger` allows, so that the phone's
theorems and the ledger's speak of the same handovers.

## 7. Not modelled, and why

Uploads and geometric verdicts (`evidence/`) are storage I/O and floating-point
distances. Verification and audit packs read the record and rebuild documents
from it. Analytics, reporting, the assistants, the dispatcher's and the client's
pages change nothing the models speak of. On the phone, location pings, the
migration of entries written by older versions and their quarantine, the capture
of a handover and a trip on hold are left out; `exception_hold` is set by nothing
in the backend. Real-time events are notifications
nothing depends on.
