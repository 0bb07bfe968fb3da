--------------------------- MODULE CheckpointQueue --------------------------
(***************************************************************************)
(* The checkpoint screen, whose captures enter the queue of module         *)
(* OfflineQueue.                                                           *)
(* src/frontend/driver-pwa/app/(app)/trip/in-transit/checkpoint/           *)
(* CheckpointPageClient.tsx and useOfflineQueue's enqueueCheckpoint.       *)
(*                                                                         *)
(* Unlike a phase, a checkpoint takes only the custody period at the tap:  *)
(* the generation is first read when the request starts, after the GPS     *)
(* wait, and the name on a queued entry when it is queued.                 *)
(***************************************************************************)
EXTENDS OfflineQueue

TapCheckpoint ==
  /\ Loaded
  /\ trip.done < Rows
  /\ \A k \in DOMAIN captures : IsPhase(k) \/ wire[k].at = "idle"
  /\ StartCapture(Stamp(Checkpoint), "gps")
  /\ UNCHANGED <<leaseVars, serverVars, stray, storageVars, trip, syncing,
                 flush, late, faults>>

LocateCheckpoint(k) ==
  /\ wire[k].at = "gps"
  /\ wire' = [wire EXCEPT ![k] = At("upload", generation)]
  /\ UNCHANGED <<leaseVars, serverVars, stray, storageVars, trip, syncing,
                 captures, flush, late, faults>>

OnCheckpointPage(k) ==
  ~IsPhase(k) /\ wire[k].at = "answered" /\ ~Flushing(k)

\* a failed fetch or a 5xx, whoever is signed in by now
Retryable(k) == wire[k].ans = "lost"
CustodyMoved(k) == Current(k) /\ wire[k].ans \in ConflictCodes

(* enqueueCheckpoint: currentActorId() is read here.                       *)
CheckpointQueued(k, persisted) ==
  LET entry == Pending(k, actor)
  IN /\ OnCheckpointPage(k)
     /\ Settle(k)
     /\ \/ Retryable(k) /\ Enqueue(entry, persisted)
        \/ CustodyMoved(k) /\ Enqueue(Refused(entry, wire[k].ans), persisted)
     /\ UNCHANGED <<leaseVars, serverVars, stray, drafts, retained, trip,
                    syncing, captures, flush, late>>

(* Recorded, or an error on the screen: any other 4xx, an account change   *)
(* noticed by the client, or a timeout, which has no status.               *)
CheckpointSettled(k) ==
  /\ OnCheckpointPage(k)
  /\ ~CustodyMoved(k)
  /\ Settle(k)
  /\ UNCHANGED <<leaseVars, serverVars, stray, storageVars, trip, syncing,
                 captures, flush, late, faults>>

CheckpointStep ==
  \/ TapCheckpoint
  \/ \E k \in DOMAIN captures :
       \/ LocateCheckpoint(k)
       \/ CheckpointSettled(k)
       \/ \E persisted \in BOOLEAN : CheckpointQueued(k, persisted)

CheckpointSpec == Init /\ [][Next \/ CheckpointStep]_vars
-----------------------------------------------------------------------------
(* No entry is stored under a driver's name that is not the capturer's.    *)
(* custody-context.ts says of that name that it is read synchronously at   *)
(* the moment of capture, never again at send time.                        *)
NoneUnderAnotherName ==
  \A e \in queue : e.by # NoDriver => e.by = captures[e.key].by
=============================================================================
