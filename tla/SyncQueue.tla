----------------------------- MODULE SyncQueue -----------------------------
(***************************************************************************)
(* The MoySklad inbound queue: the webhook endpoint that stores one        *)
(* sync_tasks row per changed entity (services/moysklad_webhook.py), the   *)
(* single background worker that drains the table                          *)
(* (services/moysklad_sync.py), the daily stock reconciliation and the     *)
(* manual import (api/moysklad.py) that writes the same catalog.           *)
(*                                                                         *)
(* Data are versions: remote[t] counts the changes of an entity at         *)
(* MoySklad, local[t] is the version the local projection shows.  A stock  *)
(* task stands for the one change its requestId announces.  Every database *)
(* transaction is one step; the HTTP calls between them are steps of their *)
(* own, so notifications, imports and crashes interleave with the worker.  *)
(***************************************************************************)
EXTENDS Naturals, FiniteSets

CONSTANTS
  Catalog,       \* tasks of type product and variant, one per entity
  Stock,         \* tasks of type stock, one per requestId
  Scope,         \* Scope[t]: the entities whose projection syncing t rewrites
  Poison,        \* tasks whose synchronization fails whenever it is tried
  NoTask,        \* the worker holds no task
  BatchSize,     \* tasks selected per cycle (5 in the code)
  MaxVersion,    \* bound: changes of one catalog entity
  MaxDuplicates, \* bound: notifications MoySklad sends twice
  MaxImports,    \* bound: manual imports started
  MaxFaults      \* bound: process crashes and database errors

Tasks == Catalog \cup Stock

ASSUME TasksAssumption ==
  /\ Catalog \cap Stock = {}
  /\ Poison \subseteq Tasks
  /\ NoTask \notin Tasks
  /\ Scope \in [Tasks -> SUBSET Tasks]
  /\ \A t \in Tasks : t \in Scope[t]

ASSUME BoundsAssumption ==
  /\ BatchSize \in Nat \ {0}
  /\ MaxVersion \in Nat \ {0}
  /\ MaxDuplicates \in Nat
  /\ MaxImports \in Nat
  /\ MaxFaults \in Nat

VARIABLES
  remote,      \* version of each entity at MoySklad
  local,       \* version the local catalog shows
  notes,       \* notifications sent and not yet stored
  notified,    \* version at MoySklad when the last notification was stored
  expired,     \* stock tasks whose report interval is older than 24 hours
  status,      \* sync_tasks.status, "none" before the row exists
  older,       \* order of sync_tasks.updated: <<a, b>> when a is before b
  worker,      \* the background task, see WorkerType
  importer,    \* the manual import, see ImportType
  duplicates, imports, faults  \* what the bounds count

queue == <<status, older>>
catalog == <<remote, notes, notified, expired>>
counters == <<duplicates, imports, faults>>
vars == <<remote, local, notes, notified, expired, status, older, worker,
          importer, duplicates, imports, faults>>

Statuses == {"none", "pending", "processing", "synced", "failed"}

(* The worker's coroutine state. `recovering` and `due` are the locals of  *)
(* run_moysklad_sync (due: next_reconciliation has been reached), `mode`   *)
(* the status the batch was selected with, `got` what was fetched.         *)
WorkerType ==
  [pc : {"idle", "reconcile", "select", "claim", "fetch", "write", "fail"},
   recovering : BOOLEAN, due : BOOLEAN, mode : {"pending", "failed"},
   batch : SUBSET Tasks, task : Tasks \cup {NoTask}, got : [Tasks -> Nat]]

ImportType == [running : BOOLEAN, got : [Tasks -> Nat]]

Nothing == [t \in Tasks |-> 0]

StartedWorker ==
  [pc |-> "idle", recovering |-> TRUE, due |-> FALSE, mode |-> "pending",
   batch |-> {}, task |-> NoTask, got |-> Nothing]

Init ==
  /\ remote = Nothing
  /\ local = Nothing
  /\ notes = Nothing
  /\ notified = Nothing
  /\ expired = {}
  /\ status = [t \in Tasks |-> "none"]
  /\ older = {}
  /\ worker = StartedWorker
  /\ importer = [running |-> FALSE, got |-> Nothing]
  /\ duplicates = 0
  /\ imports = 0
  /\ faults = 0

-----------------------------------------------------------------------------
(* Every UPDATE of a row sets `updated` (Base.updated has onupdate), which *)
(* moves the rows behind all others.                                       *)
Rows == {t \in Tasks : status[t] # "none"}

\* (mutant) `updated` is set when a row is inserted and never again.
Untouched(S) == older \cup (Rows \X (S \ Rows))

Touched(S) ==
  {e \in older : e[1] \notin S \/ e[2] \in S} \cup ((Rows \ S) \X S)

SetStatus(S, value) ==
  /\ status' = [t \in Tasks |-> IF t \in S THEN value ELSE status[t]]
  /\ older' = Touched(S)

\* (mutant) The final update of a row is unconditional.
FinishUnguarded(t, value) == SetStatus({t}, value)

\* The worker's conditional updates: WHERE status = 'processing'.
Finish(t, value) == SetStatus({t} \cap {u \in Tasks : status[u] = "processing"}, value)

-----------------------------------------------------------------------------
(* MoySklad: an entity changes and a notification is sent, perhaps twice.  *)
Change(t) ==
  /\ remote[t] < (IF t \in Catalog THEN MaxVersion ELSE 1)
  /\ remote' = [remote EXCEPT ![t] = @ + 1]
  /\ notes' = [notes EXCEPT ![t] = @ + 1]
  /\ UNCHANGED <<local, notified, expired, queue, worker, importer, counters>>

Duplicate(t) ==
  /\ remote[t] > 0
  /\ duplicates < MaxDuplicates
  /\ duplicates' = duplicates + 1
  /\ notes' = [notes EXCEPT ![t] = @ + 1]
  /\ UNCHANGED <<remote, local, notified, expired, queue, worker, importer, imports, faults>>

\* The upsert of save_sync_task: a known entity goes back to pending whatever
\* its status is, also while the worker is processing it.
Upsert(t) == SetStatus({t}, "pending")

\* (mutant) The upsert leaves a row alone that the worker is processing.
ReceiveUnlessProcessing(t) ==
  /\ notes[t] > 0
  /\ notes' = [notes EXCEPT ![t] = @ - 1]
  /\ notified' = [notified EXCEPT ![t] = remote[t]]
  /\ IF status[t] = "processing" THEN UNCHANGED queue ELSE SetStatus({t}, "pending")
  /\ UNCHANGED <<remote, local, expired, worker, importer, counters>>

Receive(t) ==
  /\ notes[t] > 0
  /\ notes' = [notes EXCEPT ![t] = @ - 1]
  /\ notified' = [notified EXCEPT ![t] = remote[t]]
  /\ Upsert(t)
  /\ UNCHANGED <<remote, local, expired, worker, importer, counters>>

\* (mutant) The age of every payload is looked at, not of stock reports alone.
ExpireAny(t) ==
  /\ remote[t] > 0
  /\ t \notin expired
  /\ expired' = expired \cup {t}
  /\ UNCHANGED <<remote, local, notes, notified, queue, worker, importer, counters>>

\* More than 24 hours pass after the start of the interval of a stock report.
Expire(t) ==
  /\ t \in Stock
  /\ remote[t] > 0
  /\ t \notin expired
  /\ expired' = expired \cup {t}
  /\ UNCHANGED <<remote, local, notes, notified, queue, worker, importer, counters>>

-----------------------------------------------------------------------------
(* The worker.                                                             *)

At(pc) == worker.pc = pc

\* (mutant) A failed cycle is logged and nothing else.
AbortedSilently == [worker EXCEPT !.pc = "idle", !.batch = {},
                                  !.task = NoTask, !.got = Nothing]

\* Exceptions that leave process_sync_tasks end the cycle in `except
\* Exception` of run_moysklad_sync, which arms the recovery.
Aborted == [worker EXCEPT !.pc = "idle", !.recovering = TRUE, !.batch = {},
                          !.task = NoTask, !.got = Nothing]

\* At start, and after a failed cycle, rows left in processing are queued again.
Recover ==
  /\ At("idle") /\ worker.recovering
  /\ SetStatus({t \in Tasks : status[t] = "processing"}, "pending")
  /\ worker' = [worker EXCEPT !.recovering = FALSE]
  /\ UNCHANGED <<catalog, local, importer, counters>>

\* 05:00 Moscow time is reached.
DayPasses ==
  /\ ~worker.due
  /\ worker' = [worker EXCEPT !.due = TRUE]
  /\ UNCHANGED <<catalog, local, queue, importer, counters>>

\* reconcile_stock: the whole current report is read, then written.  The next
\* date is set before the attempt, so a failure waits for the next day.
ReconcileFetch ==
  /\ At("idle") /\ ~worker.recovering /\ worker.due
  /\ worker' = [worker EXCEPT !.pc = "reconcile", !.due = FALSE, !.got = remote]
  /\ UNCHANGED <<catalog, local, queue, importer, counters>>

ReconcileWrite ==
  /\ At("reconcile")
  /\ local' = [t \in Tasks |-> IF t \in Stock THEN worker.got[t] ELSE local[t]]
  /\ worker' = [worker EXCEPT !.pc = "select", !.got = Nothing]
  /\ UNCHANGED <<catalog, queue, importer, counters>>

ReconcileFails ==
  /\ At("reconcile")
  /\ worker' = [worker EXCEPT !.pc = "select", !.got = Nothing]
  /\ UNCHANGED <<catalog, local, queue, importer, counters>>

\* select_sync_tasks: the BatchSize least recently updated rows with the
\* status, leaving out expired stock reports ...
Selectable(s) == {t \in Tasks : status[t] = s /\ t \notin expired}

FirstOf(S) == {t \in Tasks : Cardinality({u \in S : <<u, t>> \in older}) < BatchSize}

Batch(s) == Selectable(s) \cap FirstOf(Selectable(s))

\* ... and failing the pending expired reports met before the batch is full.
Overdue == {t \in Tasks : status[t] = "pending" /\ t \in expired}
             \cap FirstOf(Selectable("pending"))

Select ==
  /\ At("select") \/ (At("idle") /\ ~worker.recovering /\ ~worker.due)
  /\ LET mode == IF Batch("pending") # {} THEN "pending" ELSE "failed"
     IN  worker' = IF Batch(mode) = {}
                     THEN [worker EXCEPT !.pc = "idle"]
                     ELSE [worker EXCEPT !.pc = "claim", !.mode = mode, !.batch = Batch(mode)]
  /\ SetStatus(Overdue, "failed")
  /\ UNCHANGED <<catalog, local, importer, counters>>

\* UPDATE ... WHERE status = task.status; a row that is no longer in the
\* selected status is skipped.  The order inside a batch is left open.
Claim(t) ==
  /\ At("claim")
  /\ t \in worker.batch
  /\ IF status[t] = worker.mode
       THEN /\ SetStatus({t}, "processing")
            /\ worker' = [worker EXCEPT !.pc = "fetch", !.task = t, !.batch = @ \ {t}]
       ELSE /\ worker' = [worker EXCEPT !.batch = @ \ {t}]
            /\ UNCHANGED queue
  /\ UNCHANGED <<catalog, local, importer, counters>>

BatchDone ==
  /\ At("claim") /\ worker.batch = {}
  /\ worker' = [worker EXCEPT !.pc = "idle", !.mode = "pending"]
  /\ UNCHANGED <<catalog, local, queue, importer, counters>>

\* (mutant) What was fetched is dropped and defaults are written.
FetchDefaults(t) ==
  /\ At("fetch") /\ worker.task = t
  /\ t \notin Poison /\ t \notin expired
  /\ worker' = [worker EXCEPT !.pc = "write"]
  /\ UNCHANGED <<catalog, local, queue, importer, counters>>

\* sync_entity and sync_stock read the current state of the entities.
Fetch(t) ==
  /\ At("fetch") /\ worker.task = t
  /\ t \notin Poison /\ t \notin expired
  /\ worker' = [worker EXCEPT !.pc = "write", !.got = remote]
  /\ UNCHANGED <<catalog, local, queue, importer, counters>>

\* MoySklad answers with an error, the data cannot be imported, or the
\* stock report has expired since the selection.
FetchFails ==
  /\ At("fetch")
  /\ worker' = [worker EXCEPT !.pc = "fail"]
  /\ UNCHANGED <<catalog, local, queue, importer, counters>>

\* One transaction: the projection and, if the row is still processing, synced.
\* An archived variant rewrites its own row alone, otherwise the whole scope.
Write(t) ==
  /\ At("write") /\ worker.task = t
  /\ \E S \in {{t}, Scope[t]} :
       local' = [u \in Tasks |-> IF u \in S THEN worker.got[u] ELSE local[u]]
  /\ Finish(t, "synced")
  /\ worker' = [worker EXCEPT !.pc = "claim", !.task = NoTask, !.got = Nothing]
  /\ UNCHANGED <<catalog, importer, counters>>

WriteFails ==
  /\ At("write")
  /\ faults < MaxFaults
  /\ faults' = faults + 1
  /\ worker' = [worker EXCEPT !.pc = "fail", !.got = Nothing]
  /\ UNCHANGED <<catalog, local, queue, importer, duplicates, imports>>

MarkFailed ==
  /\ At("fail")
  /\ Finish(worker.task, "failed")
  /\ worker' = [worker EXCEPT !.pc = "claim", !.task = NoTask]
  /\ UNCHANGED <<catalog, local, importer, counters>>

\* The database fails in the claim or in the failure handler itself.
CycleFails ==
  /\ At("claim") \/ At("fail")
  /\ faults < MaxFaults
  /\ faults' = faults + 1
  /\ worker' = Aborted
  /\ UNCHANGED <<catalog, local, queue, importer, duplicates, imports>>

WorkerStep ==
  \/ Recover
  \/ ReconcileFetch \/ ReconcileWrite \/ ReconcileFails
  \/ Select
  \/ \E t \in Tasks : Claim(t) \/ Fetch(t) \/ Write(t)
  \/ BatchDone
  \/ FetchFails \/ WriteFails \/ MarkFailed \/ CycleFails

-----------------------------------------------------------------------------
(* GET /api/moysklad/import: the whole assortment is read page by page and *)
(* written in one transaction, without regard to the queue.                *)
ImportFetch ==
  /\ ~importer.running
  /\ imports < MaxImports
  /\ imports' = imports + 1
  /\ importer' = [running |-> TRUE, got |-> remote]
  /\ UNCHANGED <<catalog, local, queue, worker, duplicates, faults>>

ImportWrite ==
  /\ importer.running
  /\ local' = importer.got
  /\ importer' = [running |-> FALSE, got |-> Nothing]
  /\ UNCHANGED <<catalog, queue, worker, counters>>

ImportFails ==
  /\ importer.running
  /\ importer' = [running |-> FALSE, got |-> Nothing]
  /\ UNCHANGED <<catalog, local, queue, worker, counters>>

(* The process dies and restarts: committed rows stay, coroutines do not.  *)
Crash ==
  /\ faults < MaxFaults
  /\ faults' = faults + 1
  /\ worker' = StartedWorker
  /\ importer' = [running |-> FALSE, got |-> Nothing]
  /\ UNCHANGED <<catalog, local, queue, duplicates, imports>>

Next ==
  \/ \E t \in Tasks : Change(t) \/ Duplicate(t) \/ Receive(t) \/ Expire(t)
  \/ DayPasses
  \/ WorkerStep
  \/ ImportFetch \/ ImportWrite \/ ImportFails
  \/ Crash

Spec == Init /\ [][Next]_vars

(* MoySklad delivers every notification in the end, the worker task is     *)
(* scheduled, days pass, and an answer that is asked for again and again   *)
(* is one day a good one (not for Poison, whose data cannot be imported).  *)
Fairness ==
  /\ \A t \in Tasks : WF_vars(Receive(t)) /\ SF_vars(Fetch(t))
  /\ WF_vars(DayPasses)
  /\ WF_vars(WorkerStep)
  /\ SF_vars(ReconcileWrite)

FairSpec == Spec /\ Fairness

-----------------------------------------------------------------------------
TypeOK ==
  /\ remote \in [Tasks -> Nat] /\ local \in [Tasks -> Nat]
  /\ notes \in [Tasks -> Nat] /\ notified \in [Tasks -> Nat]
  /\ expired \subseteq Stock
  /\ status \in [Tasks -> Statuses]
  /\ older \subseteq Tasks \X Tasks
  /\ worker \in WorkerType
  /\ importer \in ImportType
  /\ duplicates \in Nat /\ imports \in Nat /\ faults \in Nat

(* An entity marked synced whose notifications have all been stored shows  *)
(* its current version: a notification that arrives while the worker is    *)
(* processing the same row is never lost (without manual imports).         *)
QuietIsCurrent ==
  \A t \in Tasks : status[t] = "synced" /\ notes[t] = 0 => local[t] = remote[t]

(* A row in processing belongs to the task the worker holds, or a recovery *)
(* is due: nothing stays in processing, which no selection ever looks at.  *)
NoOrphan ==
  \A t \in Tasks : status[t] = "processing" => worker.recovering \/ worker.task = t

(* What the catalog promises, the abstract view of the whole queue.        *)
Mirror == INSTANCE CatalogMirror WITH Entities <- Tasks

CatalogIsMirror == Mirror!Spec

(* A task that always fails does not keep the others from being            *)
(* synchronized: every other entity that is behind catches up, unless a    *)
(* manual import wrote older data.  Stock catches up even if its own task  *)
(* fails or expires: the reconciliation brings it back.                    *)
EventuallyCurrent ==
  \A t \in Tasks \ (Poison \cap Catalog) :
    local[t] # remote[t] ~> local[t] = remote[t] \/ imports > 0

(* Every stored notification is acted on once, also when a crash, a        *)
(* database error or a manual import comes between.                        *)
NotificationServed ==
  \A t \in Tasks \ Poison : \A v \in 1 .. MaxVersion :
    (status[t] = "pending" /\ notified[t] = v) ~> local[t] >= v
=============================================================================
