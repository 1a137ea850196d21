-------------------------------- MODULE Batch --------------------------------
(***************************************************************************)
(* Batch operations: BatchService (internal/operationsvc/batch.go), the    *)
(* BatchAwareTaskRepository that reconciles a batch after its children     *)
(* move (batch_task_repository.go), and BatchStore with its transactions   *)
(* (internal/infrastructure/postgres/batch_store.go, batch_audit_sync.go). *)
(*                                                                         *)
(* A batch is a row of batch_tasks, a parent task, and one child task per  *)
(* device.  Children are run by the workers of Scheduler, whose promise    *)
(* about a task (TaskMachine) is all that is kept of it here: a worker     *)
(* claims, runs and saves, and Save goes through the reconciling           *)
(* repository.  A step is one statement, except that a transaction commits *)
(* in its last step and is lost with its process.  Of the times of a row   *)
(* only their order is kept: the rows that Task.Validate rejects.          *)
(***************************************************************************)
EXTENDS TaskLifecycle, FiniteSets

CONSTANTS Batches,       \* batch IDs (a batch and its parent share the ID)
          RetryIDs,      \* bound: those of them that go to retries
          NDevices,      \* devices 1..NDevices, in the order of sort.Strings
          Workers,       \* the scheduler's workers
          Clients,       \* HTTP requests that may be in progress at once
          HandlerResults,\* the statuses a handler may return without an error
          Ops,           \* bound: the requests made on a batch that exists
          ClientsFail,   \* whether a request may fail half way (disconnect)
          MaxFaults,     \* bound: crashes, shutdowns, database errors, disconnects
          Nobody         \* no batch / no child

ASSUME BatchAssumption == /\ Nobody \notin Batches \cup (Batches \X (1..NDevices))
                          /\ RetryIDs \subseteq Batches
                          /\ NDevices \in Nat \ {0}
                          /\ HandlerResults \subseteq {"SUCCESS", "PARTIAL_SUCCESS", "FAILED"}
                          /\ Ops \subseteq {"get", "cancel", "retry"}
                          /\ MaxFaults \in Nat /\ ClientsFail \in BOOLEAN

Devices == 1..NDevices
Children == Batches \X Devices
Recovery == "recovery"
Actors == Workers \cup Clients \cup {Recovery}

ASSUME ActorsAssumption == /\ IsFiniteSet(Workers)
                           /\ Workers \cap Clients = {}
                           /\ Recovery \notin Workers \cup Clients

VARIABLES
    child,        \* tasks: the status of each child
    cancelMark,   \* children with cancel_requested_at on a RUNNING row
    unreadable,   \* children with times that Task.Validate rejects
    childAudit,   \* audit_logs: "NONE", "OPEN" or "DONE" (finished_at set)
    batch,        \* batch_tasks
    parent,       \* tasks: the status of the parent
    parentAudit,  \* audit_logs: the status its completion wrote, or "OPEN"
    proc,         \* "down", a place of Recover, or "up"
    ctxDone,      \* runCtx is cancelled
    recent,       \* batches created since an actor of Clocks read its clock,
                  \* while it is between that and its statement
    recentMarks,  \* children marked while Recovery is
    toReconcile,  \* InterruptRunning: open batches still to reconcile
    toQueue,      \* Recover: PENDING children still to queue
    wpc, wchild, wresult,  \* each worker: where it is, its child, its result
    req,          \* each request: [op, pc, b, src, todo]
    tx,           \* each actor's RefreshBatch
    cancelOK,     \* history: batches a Cancel of which returned no error
    faults

dbVars == <<child, cancelMark, unreadable, childAudit, batch, parent, parentAudit>>
runVars == <<proc, ctxDone, recent, recentMarks, toReconcile, toQueue>>
workerVars == <<wpc, wchild, wresult>>
vars == <<child, cancelMark, unreadable, childAudit, batch, parent, parentAudit,
          proc, ctxDone, recent, recentMarks, toReconcile, toQueue,
          wpc, wchild, wresult, req, tx, cancelOK, faults>>

\* Those who read the clock and write the time in a later statement.
Clocks == Workers \cup {Recovery}
NothingRecent == [a \in Clocks |-> {}]

FailedStatuses == {"FAILED", "PARTIAL_SUCCESS", "INTERRUPTED"}
Unstarted == {"PENDING", "QUEUED"}

NoBatch == [status |-> NoTask, success |-> 0, failed |-> 0, cancelled |-> 0,
            continueOnFailure |-> TRUE, retryOf |-> Nobody]
NoRequest == [op |-> "none", pc |-> "idle", b |-> Nobody, src |-> Nobody, todo |-> {}]
\* at: "off"; "lock" before SELECT ... FOR UPDATE; "items" before the SELECT of
\* the items; "fix" before the UPDATE of the unstarted children; "write" before
\* the rest and COMMIT; "sync" before SyncDirectTerminalAudits; "done"
NoTx == [at |-> "off", b |-> Nobody, sync |-> FALSE, fixed |-> FALSE,
         parent |-> NoTask, seen |-> <<>>, cancels |-> {}, status |-> NoTask]

Init ==
    /\ child = [c \in Children |-> NoTask]
    /\ cancelMark = {} /\ unreadable = {}
    /\ childAudit = [c \in Children |-> "NONE"]
    /\ batch = [b \in Batches |-> NoBatch]
    /\ parent = [b \in Batches |-> NoTask]
    /\ parentAudit = [b \in Batches |-> "NONE"]
    /\ proc = "down" /\ ctxDone = FALSE
    /\ recent = NothingRecent /\ recentMarks = {} /\ toReconcile = {} /\ toQueue = {}
    /\ wpc = [w \in Workers |-> "off"]
    /\ wchild = [w \in Workers |-> Nobody]
    /\ wresult = [w \in Workers |-> NoTask]
    /\ req = [k \in Clients |-> NoRequest]
    /\ tx = [a \in Actors |-> NoTx]
    /\ cancelOK = {}
    /\ faults = 0

Items(b) == {c \in Children : c[1] = b /\ child[c] # NoTask}
Up == proc # "down"
Fault == faults < MaxFaults /\ faults' = faults + 1

\* Rows a transaction has updated and not committed: others wait for them.
RowLocked(c) == \E a \in Actors : c \in tx[a].cancels
BatchLocked(b) == \E a \in Actors : tx[a].b = b /\ tx[a].at \in {"items", "fix", "write"}

-----------------------------------------------------------------------------
(***************************************************************************)
(* task.AggregateStatus                                                    *)
(***************************************************************************)
\* Mutant: a cancelled child counts as failed.
AggregateStatusCancelFails(statuses) ==
    LET S == {statuses[c] : c \in DOMAIN statuses}
    IN  CASE "RUNNING" \in S               -> "RUNNING"
          [] "RUNNING" \notin S /\ S \cap Unstarted # {} -> "QUEUED"
          [] S = {"SUCCESS"}               -> "SUCCESS"
          [] S \subseteq {"FAILED", "INTERRUPTED", "CANCELLED"} -> "FAILED"
          [] OTHER                         -> "PARTIAL_SUCCESS"

AggregateStatus(statuses) ==
    LET S == {statuses[c] : c \in DOMAIN statuses}
    IN  CASE "RUNNING" \in S               -> "RUNNING"
          [] "RUNNING" \notin S /\ S \cap Unstarted # {} -> "QUEUED"
          [] S = {"SUCCESS"}               -> "SUCCESS"
          [] S \subseteq {"FAILED", "INTERRUPTED"} -> "FAILED"
          [] S = {"CANCELLED"}             -> "CANCELLED"
          [] OTHER                         -> "PARTIAL_SUCCESS"

CountIn(statuses, S) == Cardinality({c \in DOMAIN statuses : statuses[c] \in S})

\* hasFailedChild
HasFailedChild(statuses) == CountIn(statuses, FailedStatuses) > 0

-----------------------------------------------------------------------------
(***************************************************************************)
(* RefreshBatch, and reconcile (RefreshBatch, then                         *)
(* SyncDirectTerminalAudits), as a transaction of the actor that calls it  *)
(***************************************************************************)
Call(a, b, sync) == [tx EXCEPT ![a] = [NoTx EXCEPT !.at = "lock", !.b = b, !.sync = sync]]

\* Mutant: the batch row is read without FOR UPDATE.
RefreshLockShared(a) ==
    /\ tx[a].at = "lock"
    /\ tx' = [tx EXCEPT ![a].at = "items", ![a].parent = parent[tx[a].b]]
    /\ UNCHANGED <<dbVars, runVars, workerVars, req, cancelOK, faults>>

\* The lock, the batch row and the parent row.
RefreshLock(a) ==
    /\ tx[a].at = "lock"
    /\ ~BatchLocked(tx[a].b)
    /\ tx' = [tx EXCEPT ![a].at = "items", ![a].parent = parent[tx[a].b]]
    /\ UNCHANGED <<dbVars, runVars, workerVars, req, cancelOK, faults>>

\* loadBatchSnapshot validates every item: one row that it rejects fails the
\* refresh, and with it the caller (SaveRejected, RecoverRejected,
\* RequestRejected).
Rejected(a) == /\ tx[a].at \in {"items", "write"}
               /\ \E c \in unreadable : c[1] = tx[a].b

\* The items of loadBatchSnapshot, in one statement of their own.
RefreshItems(a) ==
    LET b == tx[a].b
        seen == [c \in Items(b) |-> IF c \in tx[a].cancels THEN "CANCELLED" ELSE child[c]]
    IN  /\ tx[a].at = "items" /\ ~Rejected(a)
        /\ tx' = [tx EXCEPT
              ![a].seen = seen,
              ![a].at = IF /\ ~batch[b].continueOnFailure
                           /\ ~tx[a].fixed
                           /\ HasFailedChild(seen)
                        THEN "fix" ELSE "write"]
        /\ UNCHANGED <<dbVars, runVars, workerVars, req, cancelOK, faults>>

\* Mutant: the children to cancel are those of the snapshot.
RefreshFixStale(a) ==
    /\ tx[a].at = "fix"
    /\ tx' = [tx EXCEPT
          ![a].cancels = {c \in DOMAIN tx[a].seen : tx[a].seen[c] \in Unstarted},
          ![a].parent = parent[tx[a].b], ![a].fixed = TRUE, ![a].at = "items"]
    /\ UNCHANGED <<dbVars, runVars, workerVars, req, cancelOK, faults>>

\* Mutant: only the PENDING children are cancelled.
RefreshFixPending(a) ==
    /\ tx[a].at = "fix"
    /\ tx' = [tx EXCEPT
          ![a].cancels = {c \in Items(tx[a].b) : child[c] = "PENDING"},
          ![a].parent = parent[tx[a].b], ![a].fixed = TRUE, ![a].at = "items"]
    /\ UNCHANGED <<dbVars, runVars, workerVars, req, cancelOK, faults>>

\* The UPDATE of the unstarted children sees the rows as they are now; the
\* snapshot is then loaded again.
RefreshFix(a) ==
    /\ tx[a].at = "fix"
    /\ tx' = [tx EXCEPT
          ![a].cancels = {c \in Items(tx[a].b) : child[c] \in Unstarted},
          ![a].parent = parent[tx[a].b], ![a].fixed = TRUE, ![a].at = "items"]
    /\ UNCHANGED <<dbVars, runVars, workerVars, req, cancelOK, faults>>

\* The aggregate row, the parent and its audit, from the snapshot; the snapshot
\* that is returned is loaded and validated before the commit.  The first
\* refresh always changes the aggregate (it is never PENDING), and the parent's
\* error code is a function of its status, so neither needs a test of its own.
RefreshWrite(a) ==
    LET b == tx[a].b
        aggregate == AggregateStatus(tx[a].seen)
        row == [batch[b] EXCEPT !.status = aggregate,
                    !.success = CountIn(tx[a].seen, {"SUCCESS"}),
                    !.failed = CountIn(tx[a].seen, FailedStatuses),
                    !.cancelled = CountIn(tx[a].seen, {"CANCELLED"})]
        parentStatus == IF aggregate \in Terminal THEN aggregate ELSE "RUNNING"
        \* only Cancel and RetryFailed look at the snapshot that is returned
        wanted == a \in Clients /\ req[a].pc = "first"
        after == [c \in Children |-> IF c \in tx[a].cancels THEN "CANCELLED" ELSE child[c]]
    IN  /\ tx[a].at = "write" /\ ~Rejected(a)
        /\ child' = after
        /\ batch' = [batch EXCEPT ![b] = row]
        /\ parent' = [parent EXCEPT ![b] =
              IF tx[a].parent # parentStatus \/ row # batch[b] THEN parentStatus ELSE @]
        /\ parentAudit' = [parentAudit EXCEPT ![b] =
              IF aggregate \in Terminal /\ tx[a].parent \notin Terminal THEN aggregate ELSE @]
        /\ tx' = [tx EXCEPT ![a] = [NoTx EXCEPT
              !.at = IF tx[a].sync THEN "sync" ELSE "done",
              !.b = b, !.status = IF wanted THEN aggregate ELSE NoTask,
              !.seen = IF wanted THEN [c \in Items(b) |-> after[c]] ELSE <<>>]]
        /\ UNCHANGED <<cancelMark, unreadable, childAudit, runVars, workerVars, req, cancelOK, faults>>

SyncDirectTerminalAudits(a) ==
    /\ tx[a].at = "sync"
    /\ childAudit' = [c \in Children |->
          IF c \in Items(tx[a].b) /\ child[c] \in {"CANCELLED", "INTERRUPTED"}
          THEN "DONE" ELSE childAudit[c]]
    /\ tx' = [tx EXCEPT ![a].at = "done"]
    /\ UNCHANGED <<child, cancelMark, unreadable, batch, parent, parentAudit, runVars,
                   workerVars, req, cancelOK, faults>>

TxStep(a) ==
    \/ RefreshLock(a) \/ RefreshItems(a) \/ RefreshFix(a)
    \/ RefreshWrite(a) \/ SyncDirectTerminalAudits(a)

Returned(a) == tx[a].at = "done"
Forget(a) == tx' = [tx EXCEPT ![a] = NoTx]

-----------------------------------------------------------------------------
(***************************************************************************)
(* The process and Scheduler.Recover                                       *)
(***************************************************************************)
\* The process starts and Recover reads its clock (scheduler.go:134).
Start ==
    /\ proc = "down"
    /\ proc' = "interrupt"
    /\ UNCHANGED <<dbVars, ctxDone, recent, recentMarks, toReconcile, toQueue, workerVars, req,
                   tx, cancelOK, faults>>

\* The process ends; open transactions are rolled back.
Exit ==
    /\ proc' = "down" /\ ctxDone' = FALSE
    /\ recent' = NothingRecent /\ recentMarks' = {} /\ toReconcile' = {} /\ toQueue' = {}
    /\ wpc' = [w \in Workers |-> "off"]
    /\ wchild' = [w \in Workers |-> Nobody]
    /\ wresult' = [w \in Workers |-> NoTask]
    /\ req' = [k \in Clients |-> NoRequest]
    /\ tx' = [a \in Actors |-> NoTx]
    /\ UNCHANGED <<dbVars, cancelOK>>

Crash == Up /\ Fault /\ Exit

Shutdown ==
    /\ Up /\ ~ctxDone /\ Fault
    /\ ctxDone' = TRUE
    /\ UNCHANGED <<dbVars, proc, recent, recentMarks, toReconcile, toQueue, workerVars, req, tx,
                   cancelOK>>

RunReturns ==
    /\ Up /\ ctxDone
    /\ proc = "up" => \A w \in Workers : wpc[w] = "stopped"
    /\ Exit
    /\ UNCHANGED faults

\* InterruptRunning of TaskRepository, children and parents alike, with the
\* time that Recover has read.  A parent created after that started too late;
\* a child that was cancelled after that ends before its request to cancel,
\* which Task.Validate rejects (task.go:164-166).  The clock of either may have
\* been read in time all the same.
RecoverInterrupt ==
    /\ proc = "interrupt"
    /\ child' = [c \in Children |-> IF child[c] = "RUNNING" THEN "INTERRUPTED" ELSE child[c]]
    /\ \E late \in SUBSET recent[Recovery] :
          parent' = [b \in Batches |-> IF parent[b] = "RUNNING" /\ b \notin late
                                       THEN "INTERRUPTED" ELSE parent[b]]
    /\ \E late \in SUBSET recentMarks : unreadable' = unreadable \cup late
    /\ recent' = NothingRecent /\ recentMarks' = {}
    /\ proc' = "list"
    /\ UNCHANGED <<cancelMark, childAudit, batch, parentAudit, ctxDone, toReconcile, toQueue,
                   workerVars, req, tx, cancelOK, faults>>

\* Mutant: InterruptRunning returns without reconciling.
RecoverListOpenNone ==
    /\ proc = "list"
    /\ proc' = "reconcile"
    /\ UNCHANGED <<dbVars, ctxDone, recent, recentMarks, toReconcile, toQueue, workerVars, req,
                   tx, cancelOK, faults>>

\* ListOpenBatchIDs, with fewer than its LIMIT of 1000 open batches.
RecoverListOpen ==
    /\ proc = "list"
    /\ toReconcile' = {b \in Batches : batch[b].status \notin Terminal \cup {NoTask}}
    /\ proc' = "reconcile"
    /\ UNCHANGED <<dbVars, ctxDone, recent, recentMarks, toQueue, workerVars, req, tx, cancelOK,
                   faults>>

RecoverReconcile ==
    /\ proc = "reconcile" /\ tx[Recovery].at = "off"
    /\ \E b \in toReconcile :
          /\ toReconcile' = toReconcile \ {b}
          /\ tx' = Call(Recovery, b, TRUE)
    /\ UNCHANGED <<dbVars, proc, ctxDone, recent, recentMarks, toQueue, workerVars, req, cancelOK,
                   faults>>

RecoverReconciled ==
    /\ Returned(Recovery)
    /\ Forget(Recovery)
    /\ UNCHANGED <<dbVars, runVars, workerVars, req, cancelOK, faults>>

\* ListRecoverable (below its limit); the loop queues the PENDING ones.
RecoverList ==
    /\ proc = "reconcile" /\ toReconcile = {} /\ tx[Recovery].at = "off"
    /\ toQueue' = {c \in Children : child[c] = "PENDING"}
    /\ proc' = "queue"
    /\ UNCHANGED <<dbVars, ctxDone, recent, recentMarks, toReconcile, workerVars, req, tx,
                   cancelOK, faults>>

\* One QueuePending; a child that is neither PENDING nor QUEUED any more is a
\* conflict, which ends Run.
RecoverQueue ==
    /\ proc = "queue"
    /\ \E c \in toQueue :
          /\ ~RowLocked(c)
          /\ IF child[c] \in Unstarted
             THEN /\ child' = [child EXCEPT ![c] = "QUEUED"]
                  /\ toQueue' = toQueue \ {c}
                  /\ UNCHANGED <<cancelMark, unreadable, childAudit, batch, parent, parentAudit,
                                 proc, ctxDone, recent, recentMarks, toReconcile, workerVars,
                                 req, tx, cancelOK>>
             ELSE Exit
    /\ UNCHANGED faults

\* A batch that cannot be read ends Recover, and Run, at every start.
RecoverRejected == Rejected(Recovery) /\ Exit /\ UNCHANGED faults

RecoverFails == proc \notin {"down", "up"} /\ Fault /\ Exit

StartWorkers ==
    /\ proc = "queue" /\ toQueue = {}
    /\ proc' = "up"
    /\ wpc' = [w \in Workers |-> "idle"]
    /\ UNCHANGED <<dbVars, ctxDone, recent, recentMarks, toReconcile, toQueue, wchild, wresult,
                   req, tx, cancelOK, faults>>

RecoverStep ==
    \/ RecoverInterrupt \/ RecoverListOpen \/ RecoverReconcile \/ RecoverReconciled
    \/ RecoverRejected \/ RecoverList \/ RecoverQueue \/ StartWorkers

-----------------------------------------------------------------------------
(***************************************************************************)
(* Workers                                                                 *)
(***************************************************************************)

\* ClaimNextQueued skips locked rows.  (Children of one batch are equally old;
\* the order between batches is not kept here.)
ClaimNextQueued(w) ==
    /\ wpc[w] = "idle" /\ ~ctxDone
    /\ \E c \in Children :
          /\ child[c] = "QUEUED" /\ ~RowLocked(c)
          /\ child' = [child EXCEPT ![c] = "RUNNING"]
          /\ wchild' = [wchild EXCEPT ![w] = c]
    /\ wpc' = [wpc EXCEPT ![w] = "run"]
    /\ recent' = [recent EXCEPT ![w] = {}]
    /\ UNCHANGED <<cancelMark, unreadable, childAudit, batch, parent, parentAudit, proc, ctxDone,
                   recentMarks, toReconcile, toQueue, wresult, req, tx, cancelOK, faults>>

\* worker returns an error, which stops the others.
Returns(w) ==
    /\ wpc' = [wpc EXCEPT ![w] = "stopped"]
    /\ wchild' = [wchild EXCEPT ![w] = Nobody]
    /\ wresult' = [wresult EXCEPT ![w] = NoTask]
    /\ ctxDone' = TRUE

\* The clock of the claim was read before the child was created: the row that
\* is committed started too early (task.go:148-150), and scanTask rejects what
\* the statement returns.
ClaimTooEarly(w) ==
    /\ wpc[w] = "idle" /\ ~ctxDone
    /\ \E c \in Children :
          /\ child[c] = "QUEUED" /\ ~RowLocked(c) /\ c[1] \in recent[w]
          /\ child' = [child EXCEPT ![c] = "RUNNING"]
          /\ unreadable' = unreadable \cup {c}
    /\ Returns(w)
    /\ recent' = [recent EXCEPT ![w] = {}]
    /\ UNCHANGED <<cancelMark, childAudit, batch, parent, parentAudit, proc, recentMarks,
                   toReconcile, toQueue, req, tx, cancelOK, faults>>

Outcomes(c) == HandlerResults
               \cup (IF c \in cancelMark THEN {"CANCELLED"} ELSE {})
               \cup (IF ctxDone THEN {"INTERRUPTED"} ELSE {})

\* The handler ends and has completed the audit, in its error path too, ...
HandlerEnds(w) ==
    /\ wpc[w] = "run"
    /\ \E s \in Outcomes(wchild[w]) : wresult' = [wresult EXCEPT ![w] = s]
    /\ childAudit' = [childAudit EXCEPT ![wchild[w]] = "DONE"]
    /\ wpc' = [wpc EXCEPT ![w] = "save"]
    /\ UNCHANGED <<child, cancelMark, unreadable, batch, parent, parentAudit, runVars, wchild, req,
                   tx, cancelOK, faults>>

\* ... or it was not started, because the scheduler is stopping.
HandlerSkipped(w) ==
    /\ wpc[w] = "run" /\ ctxDone
    /\ \E s \in Outcomes(wchild[w]) \cap {"CANCELLED", "INTERRUPTED"} :
          wresult' = [wresult EXCEPT ![w] = s]
    /\ wpc' = [wpc EXCEPT ![w] = "save"]
    /\ UNCHANGED <<dbVars, runVars, wchild, req, tx, cancelOK, faults>>

\* Mutant: Save of the plain repository.
SaveUnreconciled(w) ==
    /\ wpc[w] = "save"
    /\ child' = [child EXCEPT ![wchild[w]] = wresult[w]]
    /\ wpc' = [wpc EXCEPT ![w] = "idle"]
    /\ wchild' = [wchild EXCEPT ![w] = Nobody]
    /\ wresult' = [wresult EXCEPT ![w] = NoTask]
    /\ UNCHANGED <<cancelMark, unreadable, childAudit, batch, parent, parentAudit, runVars, req,
                   tx, cancelOK, faults>>

\* finalize: Save of BatchAwareTaskRepository, up to its reconcile.
Save(w) ==
    /\ wpc[w] = "save"
    /\ child' = [child EXCEPT ![wchild[w]] = wresult[w]]
    /\ tx' = Call(w, wchild[w][1], TRUE)
    /\ wpc' = [wpc EXCEPT ![w] = "reconcile"]
    /\ UNCHANGED <<cancelMark, unreadable, childAudit, batch, parent, parentAudit, runVars,
                   wchild, wresult, req, cancelOK, faults>>

SaveReturns(w) ==
    /\ wpc[w] = "reconcile" /\ Returned(w)
    /\ Forget(w)
    /\ wpc' = [wpc EXCEPT ![w] = "idle"]
    /\ wchild' = [wchild EXCEPT ![w] = Nobody]
    /\ wresult' = [wresult EXCEPT ![w] = NoTask]
    /\ UNCHANGED <<dbVars, runVars, req, cancelOK, faults>>

WorkerStops(w) ==
    /\ wpc[w] = "idle" /\ ctxDone
    /\ wpc' = [wpc EXCEPT ![w] = "stopped"]
    /\ recent' = [recent EXCEPT ![w] = {}]
    /\ UNCHANGED <<dbVars, proc, ctxDone, recentMarks, toReconcile, toQueue, wchild, wresult,
                   req, tx, cancelOK, faults>>

\* The row was saved, and its batch cannot be read.
SaveRejected(w) ==
    /\ wpc[w] = "reconcile" /\ Rejected(w)
    /\ Forget(w) /\ Returns(w)
    /\ UNCHANGED <<dbVars, proc, recent, recentMarks, toReconcile, toQueue, req, cancelOK,
                   faults>>

\* A statement fails.
WorkerFails(w) ==
    /\ wpc[w] \in {"run", "save", "reconcile"}
    /\ Fault
    /\ Forget(w) /\ Returns(w)
    /\ UNCHANGED <<dbVars, proc, recent, recentMarks, toReconcile, toQueue, req, cancelOK>>

WorkerStep(w) ==
    \/ ClaimNextQueued(w) \/ ClaimTooEarly(w) \/ HandlerEnds(w) \/ HandlerSkipped(w)
    \/ Save(w) \/ SaveReturns(w) \/ SaveRejected(w) \/ WorkerStops(w)

-----------------------------------------------------------------------------
(***************************************************************************)
(* Requests.  pc: "idle"; "queue" in the loop of submit; "first" in the    *)
(* RefreshBatch of Cancel or RetryFailed; "cancel" in the loop of Cancel;  *)
(* "reconcile" in the reconcile of one RequestCancel; "last" in the        *)
(* RefreshBatch before the answer                                          *)
(***************************************************************************)
Idle(k) == Up /\ req[k].pc = "idle"
Answer(k) == req' = [req EXCEPT ![k] = NoRequest]

\* a may have read its clock and not yet used it.
HasClock(a) == IF a = Recovery THEN proc = "interrupt" ELSE wpc[a] = "idle"

\* The transaction of CreateBatch: parent, batch, children and their audits.
CreateBatch(b, devices, continue, source) ==
    /\ batch[b].status = NoTask
    /\ batch' = [batch EXCEPT ![b] = [NoBatch EXCEPT
          !.status = "PENDING", !.continueOnFailure = continue, !.retryOf = source]]
    /\ parent' = [parent EXCEPT ![b] = "RUNNING"]
    /\ parentAudit' = [parentAudit EXCEPT ![b] = "OPEN"]
    /\ child' = [c \in Children |-> IF c \in {b} \X devices THEN "PENDING" ELSE child[c]]
    /\ childAudit' = [c \in Children |-> IF c \in {b} \X devices THEN "OPEN" ELSE childAudit[c]]
    /\ recent' = [a \in Clocks |-> recent[a] \cup (IF HasClock(a) THEN {b} ELSE {})]
    /\ UNCHANGED <<cancelMark, unreadable, proc, ctxDone, recentMarks, toReconcile, toQueue,
                   workerVars, cancelOK, faults>>

Submit(k) ==
    /\ Idle(k)
    /\ \E b \in Batches \ RetryIDs, devices \in (SUBSET Devices) \ {{}}, continue \in BOOLEAN :
          /\ CreateBatch(b, devices, continue, Nobody)
          /\ req' = [req EXCEPT ![k] = [NoRequest EXCEPT
                !.op = "submit", !.pc = "queue", !.b = b, !.todo = {b} \X devices]]
    /\ UNCHANGED tx

\* The items are queued in their sequence, the order of the devices.
FirstItem(todo) == CHOOSE c \in todo : \A d \in todo : c[2] <= d[2]

QueueChild(k) ==
    LET c == FirstItem(req[k].todo)
    IN  /\ req[k].pc = "queue" /\ req[k].todo # {}
        /\ child[c] \in Unstarted /\ ~RowLocked(c)
        /\ child' = [child EXCEPT ![c] = "QUEUED"]
        /\ req' = [req EXCEPT ![k].todo = @ \ {c}]
        /\ UNCHANGED <<cancelMark, unreadable, childAudit, batch, parent, parentAudit, runVars,
                       workerVars, tx, cancelOK, faults>>

\* The child has moved already: the StateConflict is the answer.
QueueConflict(k) ==
    /\ req[k].pc = "queue" /\ req[k].todo # {}
    /\ child[FirstItem(req[k].todo)] \notin Unstarted
    /\ Answer(k)
    /\ UNCHANGED <<dbVars, runVars, workerVars, tx, cancelOK, faults>>

\* The loop of submit, or of Cancel, is over.
LoopEnds(k) ==
    /\ req[k].pc \in {"queue", "cancel"} /\ req[k].todo = {}
    /\ req' = [req EXCEPT ![k].pc = "last"]
    /\ tx' = Call(k, req[k].b, FALSE)
    /\ UNCHANGED <<dbVars, runVars, workerVars, cancelOK, faults>>

\* Get, which is all of Get and the beginning of Cancel and RetryFailed.
Get(k) ==
    /\ Idle(k)
    /\ \E b \in Batches, op \in Ops :
          /\ batch[b].status # NoTask
          /\ req' = [req EXCEPT ![k] = [NoRequest EXCEPT
                !.op = op, !.b = b, !.pc = IF op = "get" THEN "last" ELSE "first"]]
          /\ tx' = Call(k, b, FALSE)
    /\ UNCHANGED <<dbVars, runVars, workerVars, cancelOK, faults>>

\* Mutant: Cancel skips the children that run.
CancelLoadedUnstarted(k) ==
    /\ req[k].pc = "first" /\ req[k].op = "cancel" /\ Returned(k)
    /\ Forget(k)
    /\ IF tx[k].status \in Terminal THEN Answer(k)
       ELSE req' = [req EXCEPT ![k].pc = "cancel",
               ![k].todo = {c \in DOMAIN tx[k].seen : tx[k].seen[c] \in Unstarted}]
    /\ UNCHANGED <<dbVars, runVars, workerVars, cancelOK, faults>>

\* Cancel: a terminal batch is an error; else the children that have not ended.
CancelLoaded(k) ==
    /\ req[k].pc = "first" /\ req[k].op = "cancel" /\ Returned(k)
    /\ Forget(k)
    /\ IF tx[k].status \in Terminal THEN Answer(k)
       ELSE req' = [req EXCEPT ![k].pc = "cancel",
               ![k].todo = {c \in DOMAIN tx[k].seen : tx[k].seen[c] \notin Terminal}]
    /\ UNCHANGED <<dbVars, runVars, workerVars, cancelOK, faults>>

\* cancel_requested_at of a RUNNING row; the first request stays.
Mark(c) ==
    /\ cancelMark' = cancelMark \cup (IF child[c] = "RUNNING" THEN {c} ELSE {})
    /\ recentMarks' = recentMarks \cup
          (IF child[c] = "RUNNING" /\ c \notin cancelMark /\ proc = "interrupt" THEN {c} ELSE {})

\* One Cancel of the scheduler: RequestCancel of BatchAwareTaskRepository up
\* to its reconcile.  TASK_NOT_CANCELLABLE is ignored.
CancelChild(k) ==
    LET c == FirstItem(req[k].todo)
        stops == child[c] \in Unstarted \cup {"CANCELLED"}
    IN  /\ req[k].pc = "cancel" /\ req[k].todo # {}
        /\ ~RowLocked(c) /\ c \notin unreadable
        /\ child' = [child EXCEPT ![c] = IF stops THEN "CANCELLED" ELSE @]
        /\ Mark(c)
        /\ req' = [req EXCEPT ![k].todo = @ \ {c},
                              ![k].pc = IF stops THEN "reconcile" ELSE @]
        /\ IF stops THEN tx' = Call(k, c[1], TRUE) ELSE UNCHANGED tx
        /\ UNCHANGED <<unreadable, childAudit, batch, parent, parentAudit, proc, ctxDone, recent,
                       toReconcile, toQueue, workerVars, cancelOK, faults>>

\* A row that cannot be read is marked, but the answer is an error.
CancelRejected(k) ==
    LET c == FirstItem(req[k].todo)
    IN  /\ req[k].pc = "cancel" /\ req[k].todo # {}
        /\ c \in unreadable
        /\ Mark(c)
        /\ Answer(k)
        /\ UNCHANGED <<child, unreadable, childAudit, batch, parent, parentAudit, proc, ctxDone,
                       recent, toReconcile, toQueue, workerVars, tx, cancelOK, faults>>

CancelReconciled(k) ==
    /\ req[k].pc = "reconcile" /\ Returned(k)
    /\ Forget(k)
    /\ req' = [req EXCEPT ![k].pc = "cancel"]
    /\ UNCHANGED <<dbVars, runVars, workerVars, cancelOK, faults>>

\* Mutant: every child that did not succeed is retried.
RetryableBatchChildAny(status) == status \in FailedStatuses \cup {"CANCELLED"}
RetryableBatchChild(status) == status \in {"FAILED", "INTERRUPTED"}

\* RetryFailed: a new batch for the devices that failed.
RetryLoaded(k) ==
    LET source == req[k].b
        devices == {c[2] : c \in {i \in DOMAIN tx[k].seen : RetryableBatchChild(tx[k].seen[i])}}
    IN  /\ req[k].pc = "first" /\ req[k].op = "retry" /\ Returned(k)
        /\ tx[k].status \in Terminal /\ devices # {}
        /\ Forget(k)
        /\ \E b \in RetryIDs :
              /\ CreateBatch(b, devices, batch[source].continueOnFailure, source)
              /\ req' = [req EXCEPT ![k].pc = "queue", ![k].b = b, ![k].src = source,
                                    ![k].todo = {b} \X devices]

\* A batch that is open, or has nothing to retry, is a conflict.
RetryRefused(k) ==
    /\ req[k].pc = "first" /\ req[k].op = "retry" /\ Returned(k)
    /\ \/ tx[k].status \notin Terminal
       \/ \A c \in DOMAIN tx[k].seen : ~RetryableBatchChild(tx[k].seen[c])
       \/ \A b \in RetryIDs : batch[b].status # NoTask   \* the bound
    /\ Forget(k) /\ Answer(k)
    /\ UNCHANGED <<dbVars, runVars, workerVars, cancelOK, faults>>

LastReturns(k) ==
    /\ req[k].pc = "last" /\ Returned(k)
    /\ Forget(k) /\ Answer(k)
    /\ cancelOK' = cancelOK \cup (IF req[k].op = "cancel" THEN {req[k].b} ELSE {})
    /\ UNCHANGED <<dbVars, runVars, workerVars, faults>>

\* The batch cannot be read.
RequestRejected(k) ==
    /\ req[k].pc \in {"first", "reconcile", "last"} /\ Rejected(k)
    /\ Forget(k) /\ Answer(k)
    /\ UNCHANGED <<dbVars, runVars, workerVars, cancelOK, faults>>

\* The client disconnects or a statement fails: the request ends, and with it
\* its transaction.
RequestFails(k) ==
    /\ ClientsFail /\ Fault
    /\ req[k].pc # "idle"
    /\ Forget(k) /\ Answer(k)
    /\ UNCHANGED <<dbVars, runVars, workerVars, cancelOK>>

RequestStep(k) ==
    \/ QueueChild(k) \/ QueueConflict(k) \/ LoopEnds(k)
    \/ CancelLoaded(k) \/ CancelChild(k) \/ CancelRejected(k) \/ CancelReconciled(k)
    \/ RetryLoaded(k) \/ RetryRefused(k) \/ RequestRejected(k) \/ LastReturns(k)

Next ==
    \/ Start \/ Crash \/ Shutdown \/ RunReturns
    \/ RecoverStep \/ RecoverFails
    \/ \E a \in Actors : TxStep(a)
    \/ \E w \in Workers : WorkerStep(w) \/ WorkerFails(w)
    \/ \E k \in Clients : Submit(k) \/ Get(k) \/ RequestStep(k) \/ RequestFails(k)

Spec == Init /\ [][Next]_vars

\* Goroutines run, handlers end, and the process is restarted and, once told
\* to stop, ends.  No request has to be made.
Fairness ==
    /\ WF_vars(Start) /\ WF_vars(RecoverStep) /\ WF_vars(RunReturns)
    /\ \A a \in Actors : WF_vars(TxStep(a))
    /\ \A w \in Workers : WF_vars(WorkerStep(w))
    /\ \A k \in Clients : WF_vars(RequestStep(k))

FairSpec == Spec /\ Fairness

-----------------------------------------------------------------------------
(***************************************************************************)
(* Properties                                                              *)
(***************************************************************************)
Ended(c) == child[c] \in Terminal
Closed(b) == batch[b].status \in Terminal
Current(b) == [c \in Items(b) |-> child[c]]

\* Shape of the state.
TypeOK ==
    /\ child \in [Children -> Statuses \cup {NoTask}]
    /\ cancelMark \subseteq Children /\ unreadable \subseteq Children
    /\ recentMarks \subseteq cancelMark
    /\ childAudit \in [Children -> {"NONE", "OPEN", "DONE"}]
    /\ \A b \in Batches :
          /\ batch[b].status \in Statuses \cup {NoTask}
          /\ batch[b].success + batch[b].failed + batch[b].cancelled <= Cardinality(Items(b))
    /\ parent \in [Batches -> Statuses \cup {NoTask}]
    /\ parentAudit \in [Batches -> Terminal \cup {"NONE", "OPEN"}]
    /\ proc \in {"down", "interrupt", "list", "reconcile", "queue", "up"}
    /\ toReconcile \subseteq Batches /\ toQueue \subseteq Children
    /\ wpc \in [Workers -> {"off", "idle", "run", "save", "reconcile", "stopped"}]
    /\ \A w \in Workers : wpc[w] \in {"run", "save"} => child[wchild[w]] = "RUNNING"

\* A terminal batch row is the truth about its children, for good: all have
\* ended and can be read, the counters of batch_store.go:171-183 are theirs,
\* and the parent task says the same, whatever refreshes ran at the same time
\* on snapshots of different ages.
ClosedIsTrue ==
    \A b \in Batches : Closed(b) =>
        /\ \A c \in Items(b) : Ended(c) /\ c \notin unreadable
        /\ batch[b].status = AggregateStatus(Current(b))
        /\ batch[b].success + batch[b].failed + batch[b].cancelled = Cardinality(Items(b))
        /\ (batch[b].status = "SUCCESS") = (batch[b].success = Cardinality(Items(b)))
        /\ (batch[b].status = "CANCELLED") = (batch[b].cancelled = Cardinality(Items(b)))
        /\ parent[b] = batch[b].status

\* Progress reported to clients never goes back: the counters of a batch only
\* grow and a closed batch is not reopened, since refreshes of one batch take
\* turns (FOR UPDATE, batch_store.go:150).
ProgressIsMonotone ==
    [][\A b \in Batches :
          /\ batch'[b].success >= batch[b].success
          /\ batch'[b].failed >= batch[b].failed
          /\ batch'[b].cancelled >= batch[b].cancelled
          /\ Closed(b) => batch'[b] = batch[b]]_vars

\* With continue_on_failure = false at most as many children fail as there
\* are workers ("FailedCount != 1", batch_operation_integration_test.go, with
\* one worker): every worker reconciles before it claims again, and recovery
\* before any worker starts.
FailFastBound ==
    \A b \in Batches : ~batch[b].continueOnFailure =>
        Cardinality({c \in Items(b) : child[c] \in FailedStatuses}) <= Cardinality(Workers)

\* A stop-on-failure batch that shows a failure has no child left to start.
FailFastStops ==
    \A b \in Batches :
        ~batch[b].continueOnFailure /\ batch[b].failed > 0
            => \A c \in Items(b) : child[c] \notin Unstarted

\* After a Cancel that returned without an error every child has ended or is
\* RUNNING with the request recorded, including those that were claimed while
\* Cancel went through its list (batch.go:253-260).
CancelCoversAll ==
    \A b \in cancelOK : \A c \in Items(b) :
        Ended(c) \/ (child[c] = "RUNNING" /\ c \in cancelMark)

\* A retry repeats only what failed or was interrupted for good: never a child
\* that succeeded, was cancelled or may still run (batch.go:264-292).
RetryOnlyFailed ==
    \A c \in Children :
        child[c] # NoTask /\ batch[c[1]].retryOf # Nobody
            => child[<<batch[c[1]].retryOf, c[2]>>] \in {"FAILED", "INTERRUPTED"}

\* The children are tasks of TaskMachine: what a batch does to them directly
\* (batch_store.go:158-163) keeps to the legal transitions.
Machine == INSTANCE TaskMachine WITH Tasks <- Children, status <- child
ImplementsTaskMachine == Machine!Spec

\* A batch all of whose children have ended is closed in the end, whatever
\* crashes between the last Save and its reconcile; unless a row comes about
\* that Task.Validate rejects, since then recovery, which reconciles open
\* batches in turn, may never get to this one.
EndedBatchCloses ==
    \A b \in Batches :
        (batch[b].status # NoTask /\ \A c \in Items(b) : Ended(c))
            ~> Closed(b) \/ unreadable # {}

\* BatchAwareTaskRepository "reconciles a batch whenever a child reaches a
\* terminal state, is cancelled, or recovery interrupts running children"
\* (batch_task_repository.go:15): a batch all of whose children have ended
\* when recovery has interrupted what ran is closed in the end.
RecoveredBatchCloses ==
    \A b \in Batches :
        (proc = "list" /\ batch[b].status # NoTask /\ \A c \in Items(b) : Ended(c))
            ~> Closed(b)

\* SyncDirectTerminalAudits "completes child audits for lifecycle transitions
\* that bypass the operation executor, specifically queued cancellation and
\* recovery interruption" (batch_audit_sync.go:12): once nothing is in
\* progress in a process that has recovered, none is left open in a closed
\* batch.
ChildAuditsCompleted ==
    \A b \in Batches :
        Closed(b) /\ proc = "up" /\ ~ctxDone /\ (\A a \in Actors : tx[a] = NoTx)
            => \A c \in Items(b) : child[c] \in {"CANCELLED", "INTERRUPTED"} => childAudit[c] = "DONE"

\* "stop on failure cancels unstarted children" after a Submit that returned
\* no error (batch_operation_integration_test.go:210-215): without faults or
\* other requests, the children that the stop cancels are never ones that
\* submit has still to queue, which would make it fail.
SubmitAccepted ==
    \A k \in Clients : req[k].pc = "queue" /\ req[k].todo # {}
        => child[FirstItem(req[k].todo)] # "CANCELLED"
=============================================================================
