-------------------------- MODULE SyncQueueProofs --------------------------
(***************************************************************************)
(* Proofs about the MoySklad inbound queue, for every set of tasks, every  *)
(* scope and every bound.                                                  *)
(***************************************************************************)
EXTENDS SyncQueue, TLAPS

(* A row update keeps the types of the table, whatever rows it selects.    *)
LEMMA SetStatusType ==
  ASSUME TypeOK, NEW S \in SUBSET Tasks, NEW value \in Statuses, SetStatus(S, value)
  PROVE  status' \in [Tasks -> Statuses] /\ older' \subseteq Tasks \X Tasks
  BY DEF TypeOK, SetStatus, Touched, Rows

(* What finishing a task leaves in sync_tasks is a set of typed rows.    *)
LEMMA FinishType ==
  ASSUME TypeOK, NEW t, NEW value \in Statuses, Finish(t, value)
  PROVE  status' \in [Tasks -> Statuses] /\ older' \subseteq Tasks \X Tasks
<1> DEFINE S == {t} \cap {u \in Tasks : status[u] = "processing"}
<1>1. S \in SUBSET Tasks /\ SetStatus(S, value)
  BY DEF Finish
<1> QED  BY <1>1, SetStatusType

(* Every variable keeps its type: in particular the worker never holds a   *)
(* row outside the table, and only stock reports expire.                   *)
THEOREM TypeCorrect == Spec => []TypeOK
<1> USE DEF TypeOK
<1>1. Init => TypeOK
  BY TasksAssumption DEF Init, Nothing, StartedWorker, WorkerType, ImportType, Statuses
<1>2. TypeOK /\ [Next]_vars => TypeOK'
  <2> SUFFICES ASSUME TypeOK, [Next]_vars PROVE TypeOK'
    OBVIOUS
  <2>0. ASSUME NEW t \in Tasks, Change(t) PROVE TypeOK'
    BY <2>0 DEF Change, queue, counters
  <2>1. ASSUME NEW t \in Tasks, Duplicate(t) PROVE TypeOK'
    BY <2>1 DEF Duplicate, queue
  <2>2. ASSUME NEW t \in Tasks, Receive(t) PROVE TypeOK'
    BY <2>2, SetStatusType DEF Receive, Upsert, counters, Statuses
  <2>3. ASSUME NEW t \in Tasks, Expire(t) PROVE TypeOK'
    BY <2>3 DEF Expire, queue, counters
  <2>4. CASE Recover
    <3>1. {t \in Tasks : status[t] = "processing"} \in SUBSET Tasks
      OBVIOUS
    <3> QED  BY <2>4, <3>1, SetStatusType
             DEF Recover, catalog, counters, WorkerType, Statuses
  <2>5. CASE DayPasses
    BY <2>5 DEF DayPasses, queue, catalog, counters, WorkerType
  <2>6. CASE ReconcileFetch
    BY <2>6 DEF ReconcileFetch, queue, catalog, counters, WorkerType
  <2>7. CASE ReconcileWrite
    BY <2>7 DEF ReconcileWrite, queue, catalog, counters, WorkerType, Nothing
  <2>8. CASE ReconcileFails
    BY <2>8 DEF ReconcileFails, queue, catalog, counters, WorkerType, Nothing
  <2>9. CASE Select
    <3>1. Overdue \in SUBSET Tasks /\ \A s : Batch(s) \in SUBSET Tasks
      BY DEF Overdue, Batch, Selectable
    <3>2. worker' \in WorkerType
      BY <2>9, <3>1 DEF Select, WorkerType
    <3> QED  BY <2>9, <3>1, <3>2, SetStatusType DEF Select, catalog, counters, Statuses
  <2>10. ASSUME NEW t \in Tasks, Claim(t) PROVE TypeOK'
    <3>1. worker' \in WorkerType
      <4>1. CASE status[t] = worker.mode
        <5>1. worker' = [worker EXCEPT !.pc = "fetch", !.task = t, !.batch = @ \ {t}]
          BY <2>10, <4>1 DEF Claim
        <5> QED  BY <5>1 DEF WorkerType
      <4>2. CASE status[t] # worker.mode
        <5>1. worker' = [worker EXCEPT !.batch = @ \ {t}]
          BY <2>10, <4>2 DEF Claim
        <5> QED  BY <5>1 DEF WorkerType
      <4> QED  BY <4>1, <4>2
    <3> QED  BY <2>10, <3>1, SetStatusType DEF Claim, catalog, queue, counters, Statuses
  <2>11. ASSUME NEW t \in Tasks, Fetch(t) PROVE TypeOK'
    BY <2>11 DEF Fetch, queue, catalog, counters, WorkerType
  <2>12. ASSUME NEW t \in Tasks, Write(t) PROVE TypeOK'
    <3>1. worker' \in WorkerType
      BY <2>12 DEF Write, WorkerType, Nothing
    <3>2. local' \in [Tasks -> Nat]
      BY <2>12 DEF Write, WorkerType
    <3> QED  BY <2>12, <3>1, <3>2, FinishType DEF Write, catalog, counters, Statuses
  <2>13. CASE BatchDone
    BY <2>13 DEF BatchDone, queue, catalog, counters, WorkerType
  <2>14. CASE FetchFails
    BY <2>14 DEF FetchFails, queue, catalog, counters, WorkerType
  <2>15. CASE WriteFails
    <3>1. worker' \in WorkerType
      BY <2>15 DEF WriteFails, WorkerType, Nothing
    <3> QED  BY <2>15, <3>1 DEF WriteFails, queue, catalog
  <2>16. CASE MarkFailed
    <3>1. worker' \in WorkerType
      BY <2>16 DEF MarkFailed, WorkerType
    <3> QED  BY <2>16, <3>1, FinishType DEF MarkFailed, catalog, counters, Statuses
  <2>17. CASE CycleFails
    <3>1. worker' \in WorkerType
      BY <2>17 DEF CycleFails, Aborted, WorkerType, Nothing
    <3> QED  BY <2>17, <3>1 DEF CycleFails, queue, catalog
  <2>18. CASE ImportFetch
    BY <2>18 DEF ImportFetch, queue, catalog, ImportType
  <2>19. CASE ImportWrite
    BY <2>19 DEF ImportWrite, queue, catalog, counters, ImportType, Nothing
  <2>20. CASE ImportFails
    BY <2>20 DEF ImportFails, queue, catalog, counters, ImportType, Nothing
  <2>21. CASE Crash
    BY <2>21 DEF Crash, StartedWorker, queue, catalog, WorkerType, ImportType, Nothing
  <2>22. CASE UNCHANGED vars
    BY <2>22 DEF vars
  <2> QED
    BY <2>0, <2>1, <2>2, <2>3, <2>4, <2>5, <2>6, <2>7, <2>8, <2>9, <2>10, <2>11,
       <2>12, <2>13, <2>14, <2>15, <2>16, <2>17, <2>18, <2>19, <2>20, <2>21, <2>22
    DEF Next, WorkerStep
<1> QED  BY <1>1, <1>2, PTL DEF Spec

-----------------------------------------------------------------------------
(* The worker holds a task exactly between its claim and its outcome.      *)
HoldsTask == worker.task = NoTask <=> worker.pc \notin {"fetch", "write", "fail"}

(* A row in processing is the worker's, or a recovery is due: the recovery *)
(* at start and after a failed cycle is enough for any number of crashes   *)
(* and database errors.                                                    *)
THEOREM NoOrphanHolds == Spec => []NoOrphan
<1> USE DEF HoldsTask, NoOrphan
<1>1. Init => HoldsTask /\ NoOrphan
  BY DEF Init, StartedWorker
<1>2. TypeOK /\ TypeOK' /\ HoldsTask /\ NoOrphan /\ [Next]_vars => HoldsTask' /\ NoOrphan'
  <2> SUFFICES ASSUME TypeOK, TypeOK', HoldsTask, NoOrphan, [Next]_vars
               PROVE  HoldsTask' /\ NoOrphan'
    OBVIOUS
  <2>t. worker \in WorkerType /\ status \in [Tasks -> Statuses] /\ NoTask \notin Tasks
    BY TasksAssumption DEF TypeOK
  <2>0. ASSUME NEW t \in Tasks, Change(t) \/ Duplicate(t) \/ Expire(t)
        PROVE  HoldsTask' /\ NoOrphan'
    BY <2>0 DEF Change, Duplicate, Expire, queue, counters
  <2>1. ASSUME NEW t \in Tasks, Receive(t) PROVE HoldsTask' /\ NoOrphan'
    BY <2>1 DEF Receive, Upsert, SetStatus
  <2>2. CASE Recover
    <3>1. \A t \in Tasks : status'[t] # "processing"
      BY <2>2, <2>t DEF Recover, SetStatus
    <3> QED  BY <2>2, <2>t, <3>1 DEF Recover, WorkerType
  <2>3. CASE DayPasses
    BY <2>3, <2>t DEF DayPasses, queue, WorkerType
  <2>4. CASE ReconcileFetch \/ ReconcileWrite \/ ReconcileFails
    BY <2>4, <2>t DEF ReconcileFetch, ReconcileWrite, ReconcileFails, At, queue, WorkerType
  <2>5. CASE Select
    <3>1. \A t \in Tasks : status'[t] = "processing" => status[t] = "processing"
      BY <2>5, <2>t DEF Select, SetStatus
    <3>2. worker'.task = worker.task /\ worker'.recovering = worker.recovering
      BY <2>5, <2>t DEF Select, WorkerType
    <3>3. worker.pc \in {"idle", "select"} /\ worker'.pc \in {"idle", "claim"}
      BY <2>5, <2>t DEF Select, WorkerType, At
    <3> QED  BY <3>1, <3>2, <3>3
  <2>6. ASSUME NEW t \in Tasks, Claim(t) PROVE HoldsTask' /\ NoOrphan'
    <3>1. CASE status[t] = worker.mode
      <4>1. SetStatus({t}, "processing") /\ worker.pc = "claim"
            /\ worker' = [worker EXCEPT !.pc = "fetch", !.task = t, !.batch = @ \ {t}]
        BY <2>6, <3>1 DEF Claim, At
      <4>2. worker'.task = t /\ worker'.pc = "fetch" /\ worker'.recovering = worker.recovering
        BY <4>1, <2>t DEF WorkerType
      <4>3. \A u \in Tasks \ {t} : status'[u] = status[u]
        BY <4>1 DEF SetStatus
      <4> QED  BY <4>1, <4>2, <4>3, <2>t
    <3>2. CASE status[t] # worker.mode
      <4>1. UNCHANGED status /\ worker' = [worker EXCEPT !.batch = @ \ {t}]
        BY <2>6, <3>2 DEF Claim, queue
      <4> QED  BY <4>1, <2>t DEF WorkerType
    <3> QED  BY <3>1, <3>2
  <2>7. ASSUME NEW t \in Tasks, Fetch(t) PROVE HoldsTask' /\ NoOrphan'
    BY <2>7, <2>t DEF Fetch, At, queue, WorkerType
  <2>8. ASSUME NEW t \in Tasks, Write(t) PROVE HoldsTask' /\ NoOrphan'
    <3>1. /\ worker.task = t /\ worker'.task = NoTask /\ worker'.pc = "claim"
          /\ worker'.recovering = worker.recovering
      BY <2>8, <2>t DEF Write, At, WorkerType
    <3>2. \A u \in Tasks : status'[u] = "processing" => status[u] = "processing" /\ u # t
      BY <2>8, <2>t DEF Write, Finish, SetStatus
    <3> QED  BY <3>1, <3>2
  <2>9. CASE BatchDone
    BY <2>9, <2>t DEF BatchDone, At, queue, WorkerType
  <2>10. CASE FetchFails \/ WriteFails
    BY <2>10, <2>t DEF FetchFails, WriteFails, At, queue, WorkerType
  <2>11. CASE MarkFailed
    <3>1. /\ worker'.task = NoTask /\ worker'.pc = "claim"
          /\ worker'.recovering = worker.recovering
      BY <2>11, <2>t DEF MarkFailed, At, WorkerType
    <3>2. \A u \in Tasks : status'[u] = "processing" => status[u] = "processing" /\ u # worker.task
      BY <2>11, <2>t DEF MarkFailed, Finish, SetStatus
    <3> QED  BY <3>1, <3>2
  <2>12. CASE CycleFails
    BY <2>12, <2>t DEF CycleFails, Aborted, queue, WorkerType
  <2>13. CASE ImportFetch \/ ImportWrite \/ ImportFails
    BY <2>13 DEF ImportFetch, ImportWrite, ImportFails, queue
  <2>14. CASE Crash
    BY <2>14 DEF Crash, StartedWorker
  <2>15. CASE UNCHANGED vars
    BY <2>15 DEF vars
  <2> QED
    BY <2>0, <2>1, <2>2, <2>3, <2>4, <2>5, <2>6, <2>7, <2>8, <2>9, <2>10, <2>11,
       <2>12, <2>13, <2>14, <2>15
    DEF Next, WorkerStep
<1> QED  BY <1>1, <1>2, TypeCorrect, PTL DEF Spec

-----------------------------------------------------------------------------
(* Without manual imports the worker is the only writer of the projection. *)
(* Versions is what every reader and writer keeps, Fetched what the worker *)
(* holds between an answer and its write, Served what makes the            *)
(* conditional update safe: a row that is still processing when the worker *)
(* writes has not been notified since the fetch.                           *)
NoImport == importer.running = FALSE /\ imports = 0

Versions ==
  \A t \in Tasks :
    /\ notified[t] <= remote[t] /\ local[t] <= remote[t] /\ worker.got[t] <= remote[t]
    /\ notes[t] = 0 => notified[t] = remote[t]

Fetched ==
  worker.pc \in {"write", "reconcile"} => \A t \in Tasks : local[t] <= worker.got[t]

Served ==
  \A t \in Tasks :
    worker.pc = "write" /\ worker.task = t /\ status[t] = "processing" => notified[t] <= worker.got[t]

Acted == \A t \in Tasks : status[t] = "synced" => notified[t] <= local[t]

FreshInv == NoImport /\ Versions /\ Fetched /\ Served /\ Acted

(* At the start nothing has been synchronized and nothing is stale.      *)
LEMMA FreshInit == Init => FreshInv
  BY DEF Init, FreshInv, NoImport, Versions, Fetched, Served, Acted, Nothing, StartedWorker

(* A step that leaves the table and the projection alone and does not move *)
(* the worker into a writing state keeps the invariant.                    *)
LEMMA FreshUntouched ==
  ASSUME TypeOK, FreshInv,
         UNCHANGED <<remote, local, notes, notified, status, imports, importer>>,
         worker'.pc \notin {"write", "reconcile"},
         worker'.got = worker.got \/ worker'.got = Nothing
  PROVE  FreshInv'
<1>1. \A t \in Tasks : Nothing[t] <= remote[t]
  BY DEF TypeOK, Nothing
<1> QED
  BY <1>1 DEF FreshInv, NoImport, Versions, Fetched, Served, Acted

(* Every step of a system without manual imports keeps FreshInv.         *)
LEMMA FreshStep ==
  ASSUME MaxImports = 0, TypeOK, TypeOK', FreshInv, [Next]_vars
  PROVE  FreshInv'
<1> USE DEF FreshInv, NoImport, Versions, Fetched, Served, Acted
<1>t. /\ worker \in WorkerType /\ status \in [Tasks -> Statuses]
      /\ remote \in [Tasks -> Nat] /\ local \in [Tasks -> Nat]
      /\ notes \in [Tasks -> Nat] /\ notified \in [Tasks -> Nat]
  BY DEF TypeOK
<1>0. ASSUME NEW t \in Tasks, Change(t) PROVE FreshInv'
  <2>1. remote' = [remote EXCEPT ![t] = @ + 1] /\ notes' = [notes EXCEPT ![t] = @ + 1]
        /\ UNCHANGED <<local, notified, status, worker, importer, imports>>
    BY <1>0 DEF Change, queue, counters
  <2>2. \A u \in Tasks : remote[u] <= remote'[u] /\ (notes'[u] = 0 => u # t /\ notes[u] = 0)
                        /\ (u # t => remote'[u] = remote[u])
    BY <2>1, <1>t
  <2>3. remote' \in [Tasks -> Nat] /\ worker.got \in [Tasks -> Nat]
    BY <1>t DEF TypeOK, WorkerType
  <2>4. \A u \in Tasks : /\ notified[u] \in Nat /\ local[u] \in Nat /\ worker.got[u] \in Nat
                          /\ remote[u] \in Nat /\ remote'[u] \in Nat
    BY <2>3, <1>t
  <2> QED  BY <2>1, <2>2, <2>4
<1>1. ASSUME NEW t \in Tasks, Duplicate(t) PROVE FreshInv'
  BY <1>1, <1>t DEF Duplicate, queue
<1>2. ASSUME NEW t \in Tasks, Receive(t) PROVE FreshInv'
  <2>1. status' = [u \in Tasks |-> IF u = t THEN "pending" ELSE status[u]]
        /\ notified' = [notified EXCEPT ![t] = remote[t]]
        /\ notes' = [notes EXCEPT ![t] = @ - 1]
        /\ UNCHANGED <<remote, local, worker, importer, imports>>
    BY <1>2 DEF Receive, Upsert, SetStatus, counters
  <2>2. \A u \in Tasks : u # t => status'[u] = status[u] /\ notified'[u] = notified[u] /\ notes'[u] = notes[u]
    BY <2>1, <1>t
  <2>3. status'[t] = "pending" /\ notified'[t] = remote[t] /\ remote[t] \in Nat
    BY <2>1, <1>t
  <2> QED  BY <2>1, <2>2, <2>3
<1>3. ASSUME NEW t \in Tasks, Expire(t) PROVE FreshInv'
  BY <1>3 DEF Expire, queue, counters
<1>4. CASE Recover
  <2>1. worker' = [worker EXCEPT !.recovering = FALSE] /\ worker.pc = "idle"
        /\ UNCHANGED <<remote, local, notes, notified, importer, imports>>
    BY <1>4 DEF Recover, At, catalog, counters
  <2>2. \A u \in Tasks : status'[u] = "synced" => status[u] = "synced"
    BY <1>4, <1>t DEF Recover, SetStatus
  <2>3. worker'.pc = "idle" /\ worker'.got = worker.got
    BY <2>1, <1>t DEF WorkerType
  <2> QED  BY <2>1, <2>2, <2>3
<1>5. CASE DayPasses
  <2>1. UNCHANGED <<remote, local, notes, notified, status, importer, imports>>
    BY <1>5 DEF DayPasses, catalog, queue, counters
  <2>2. worker'.pc = worker.pc /\ worker'.got = worker.got /\ worker'.task = worker.task
    BY <1>5, <1>t DEF DayPasses, WorkerType
  <2> QED  BY <2>1, <2>2
<1>6. CASE ReconcileFetch
  <2>1. UNCHANGED <<remote, local, notes, notified, status, importer, imports>>
    BY <1>6 DEF ReconcileFetch, catalog, queue, counters
  <2>2. worker'.pc = "reconcile" /\ worker'.got = remote
    BY <1>6, <1>t DEF ReconcileFetch, WorkerType
  <2> QED  BY <2>1, <2>2, <1>t
<1>7. CASE ReconcileWrite
  <2>1. UNCHANGED <<remote, notes, notified, status, importer, imports>> /\ worker.pc = "reconcile"
    BY <1>7 DEF ReconcileWrite, At, catalog, queue, counters
  <2>2. worker'.pc = "select" /\ worker'.got = Nothing
    BY <1>7, <1>t DEF ReconcileWrite, WorkerType
  <2>3. \A u \in Tasks : local'[u] = local[u] \/ local'[u] = worker.got[u]
    BY <1>7 DEF ReconcileWrite
  <2>4. \A u \in Tasks : Nothing[u] = 0 /\ worker.got[u] \in Nat /\ notified[u] \in Nat
                          /\ local[u] \in Nat /\ remote[u] \in Nat
    BY <1>t DEF Nothing, WorkerType
  <2> QED  BY <2>1, <2>2, <2>3, <2>4
<1>8. CASE ReconcileFails \/ BatchDone \/ FetchFails \/ WriteFails \/ CycleFails
  <2>1. UNCHANGED <<remote, local, notes, notified, status, imports, importer>>
    BY <1>8 DEF ReconcileFails, BatchDone, FetchFails, WriteFails, CycleFails, catalog, queue, counters
  <2>2. worker'.pc \in {"select", "idle", "fail"} /\ worker'.got \in {worker.got, Nothing}
    BY <1>8, <1>t DEF ReconcileFails, BatchDone, FetchFails, WriteFails, CycleFails, Aborted, WorkerType
  <2> QED  BY <2>1, <2>2, FreshUntouched
<1>9. CASE Select
  <2>1. UNCHANGED <<remote, local, notes, notified, importer, imports>>
    BY <1>9 DEF Select, catalog, counters
  <2>2. worker'.pc \in {"idle", "claim"} /\ worker'.got = worker.got
    BY <1>9, <1>t DEF Select, WorkerType
  <2>3. \A u \in Tasks : status'[u] = "synced" => status[u] = "synced"
    BY <1>9, <1>t DEF Select, SetStatus
  <2> QED  BY <2>1, <2>2, <2>3
<1>10. ASSUME NEW t \in Tasks, Claim(t) PROVE FreshInv'
  <2>1. UNCHANGED <<remote, local, notes, notified, importer, imports>>
    BY <1>10 DEF Claim, catalog, counters
  <2>2. worker'.pc \in {"claim", "fetch"} /\ worker'.got = worker.got
    <3>1. CASE status[t] = worker.mode
      BY <1>10, <1>t, <3>1 DEF Claim, WorkerType
    <3>2. CASE status[t] # worker.mode
      BY <1>10, <1>t, <3>2 DEF Claim, At, WorkerType
    <3> QED  BY <3>1, <3>2
  <2>3. \A u \in Tasks : status'[u] = "synced" => status[u] = "synced"
    BY <1>10, <1>t DEF Claim, SetStatus, queue
  <2> QED  BY <2>1, <2>2, <2>3
<1>11. ASSUME NEW t \in Tasks, Fetch(t) PROVE FreshInv'
  <2>1. UNCHANGED <<remote, local, notes, notified, status, importer, imports>>
    BY <1>11 DEF Fetch, catalog, queue, counters
  <2>2. worker'.got = remote
    BY <1>11, <1>t DEF Fetch, WorkerType
  <2> QED  BY <2>1, <2>2, <1>t
<1>12. ASSUME NEW t \in Tasks, Write(t) PROVE FreshInv'
  <2>1. UNCHANGED <<remote, notes, notified, importer, imports>> /\ worker.pc = "write" /\ worker.task = t
    BY <1>12 DEF Write, At, catalog, counters
  <2>2. worker'.pc = "claim" /\ worker'.got = Nothing
    BY <1>12, <1>t DEF Write, WorkerType
  <2>3. /\ local'[t] = worker.got[t]
        /\ \A u \in Tasks : local'[u] = local[u] \/ local'[u] = worker.got[u]
    BY <1>12, TasksAssumption DEF Write
  <2>4. \A u \in Tasks : status'[u] = "synced" => status[u] = "synced" \/ (u = t /\ status[u] = "processing")
    BY <1>12, <1>t DEF Write, Finish, SetStatus
  <2>5. \A u \in Tasks : Nothing[u] = 0 /\ worker.got[u] \in Nat /\ notified[u] \in Nat
                          /\ local[u] \in Nat /\ remote[u] \in Nat
    BY <1>t DEF Nothing, WorkerType
  <2> QED  BY <2>1, <2>2, <2>3, <2>4, <2>5
<1>13. CASE MarkFailed
  <2>1. UNCHANGED <<remote, local, notes, notified, importer, imports>>
    BY <1>13 DEF MarkFailed, catalog, counters
  <2>2. worker'.pc = "claim" /\ worker'.got = worker.got
    BY <1>13, <1>t DEF MarkFailed, WorkerType
  <2>3. \A u \in Tasks : status'[u] = "synced" => status[u] = "synced"
    BY <1>13, <1>t DEF MarkFailed, Finish, SetStatus
  <2> QED  BY <2>1, <2>2, <2>3
<1>14. CASE ImportFetch \/ ImportWrite \/ ImportFails
  BY <1>14 DEF ImportFetch, ImportWrite, ImportFails
<1>15. CASE Crash
  <2>1. importer'.running = FALSE /\ imports' = imports
    BY <1>15 DEF Crash
  <2>2. UNCHANGED <<remote, local, notes, notified, status>> /\ worker' = StartedWorker
    BY <1>15 DEF Crash, catalog, queue
  <2>3. \A u \in Tasks : Nothing[u] = 0 /\ remote[u] \in Nat
    BY <1>t DEF Nothing
  <2> QED  BY <2>1, <2>2, <2>3 DEF StartedWorker
<1>16. CASE UNCHANGED vars
  BY <1>16 DEF vars
<1> QED
  BY <1>0, <1>1, <1>2, <1>3, <1>4, <1>5, <1>6, <1>7, <1>8, <1>9, <1>10, <1>11,
     <1>12, <1>13, <1>14, <1>15, <1>16
  DEF Next, WorkerStep

(* FreshInv holds throughout, without manual imports.                    *)
LEMMA FreshAlways ==
  ASSUME MaxImports = 0
  PROVE  Spec => []FreshInv
<1>1. TypeOK /\ TypeOK' /\ FreshInv /\ [Next]_vars => FreshInv'
  BY FreshStep
<1> QED  BY <1>1, FreshInit, TypeCorrect, PTL DEF Spec

(* No notification is lost: where no manual import runs, an entity that is *)
(* synced and has no notification under way shows what MoySklad has.       *)
THEOREM QuietIsCurrentHolds ==
  ASSUME MaxImports = 0
  PROVE  Spec => []QuietIsCurrent
<1>1. TypeOK /\ FreshInv => QuietIsCurrent
  BY DEF TypeOK, FreshInv, Versions, Acted, QuietIsCurrent
<1> QED  BY <1>1, FreshAlways, TypeCorrect, PTL

(* The queue implements CatalogMirror: no retry, crash or duplicate makes  *)
(* the projection go back or run ahead.                                    *)
THEOREM MirrorHolds ==
  ASSUME MaxImports = 0
  PROVE  Spec => CatalogIsMirror
<1>1. Init => Mirror!Init
  BY DEF Init, Mirror!Init, Nothing
<1>2. TypeOK /\ TypeOK' /\ FreshInv /\ [Next]_vars => [Mirror!Next]_<<remote, local>>
  <2> SUFFICES ASSUME TypeOK, TypeOK', FreshInv, [Next]_vars
               PROVE  Mirror!Next \/ UNCHANGED <<remote, local>>
    OBVIOUS
  <2>t. /\ remote \in [Tasks -> Nat] /\ local \in [Tasks -> Nat]
        /\ local' \in [Tasks -> Nat] /\ worker.got \in [Tasks -> Nat]
    BY DEF TypeOK, WorkerType
  <2>1. ASSUME NEW t \in Tasks, Change(t) PROVE Mirror!Next
    BY <2>1 DEF Change, Mirror!Next, Mirror!Change
  <2>2. ASSUME worker.pc \in {"write", "reconcile"}, UNCHANGED remote,
               \A u \in Tasks : local'[u] = local[u] \/ local'[u] = worker.got[u]
        PROVE  Mirror!Next
    <3>1. \A u \in Tasks : local'[u] \in local[u] .. remote[u]
      BY <2>2, <2>t DEF FreshInv, Fetched, Versions
    <3>2. DOMAIN local' = Tasks
      BY <2>t
    <3> QED  BY <2>2, <3>1, <3>2 DEF Mirror!Next, Mirror!CatchUp
  <2>3. CASE ReconcileWrite
    BY <2>2, <2>3 DEF ReconcileWrite, At, catalog
  <2>4. ASSUME NEW t \in Tasks, Write(t) PROVE Mirror!Next
    BY <2>2, <2>4 DEF Write, At, catalog
  <2>5. ASSUME NEW t \in Tasks, Duplicate(t) \/ Receive(t) \/ Expire(t) \/ Claim(t) \/ Fetch(t)
        PROVE  UNCHANGED <<remote, local>>
    BY <2>5 DEF Duplicate, Receive, Upsert, Expire, Claim, Fetch, catalog
  <2>6. CASE DayPasses \/ Recover \/ ReconcileFetch \/ ReconcileFails \/ Select \/ BatchDone
             \/ FetchFails \/ WriteFails \/ MarkFailed \/ CycleFails \/ Crash
    BY <2>6 DEF DayPasses, Recover, ReconcileFetch, ReconcileFails, Select, BatchDone,
                FetchFails, WriteFails, MarkFailed, CycleFails, Crash, catalog
  <2>7. CASE ImportFetch \/ ImportWrite \/ ImportFails
    BY <2>7 DEF ImportFetch, ImportWrite, ImportFails, FreshInv, NoImport
  <2>8. CASE UNCHANGED vars
    BY <2>8 DEF vars
  <2> QED
    BY <2>1, <2>3, <2>4, <2>5, <2>6, <2>7, <2>8 DEF Next, WorkerStep
<1> QED
  BY <1>1, <1>2, FreshAlways, TypeCorrect, PTL DEF Spec, Mirror!Spec, CatalogIsMirror
=============================================================================
