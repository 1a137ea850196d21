# Verification of switch-manager

This directory holds TLA+ models of switch-manager, the TLC configurations that
check them on small instances, and TLAPS proofs of their safety properties. Paths
are relative to the repository root (`src/` in PROJECT.json).

## 1. The system

switch-manager is one Go process (REST API, task scheduler) over PostgreSQL. A
request becomes a row of `tasks`; a worker claims the row, locks the device,
talks to it through a plugin and writes the result back.

| Component | State | Operations | Hard parts |
|---|---|---|---|
| Execution guards (`internal/concurrency`) | slot counter and FIFO queue per semaphore; map of device entries with reference counts | `Semaphore.Acquire/Release`, `DeviceLocks.Acquire/Release`, `Controller.Do` | a grant racing a cancellation; an entry deleted while another call looks it up; two guards taken in order |
| Task lifecycle (`internal/domain/task`) | status, version and timestamps of a row | `Transition`, `Validate`, the transition table | the table is consulted in Go only, not by the SQL |
| Task repository (`internal/infrastructure/postgres/task_repository.go`) | `tasks` | `Create`, `Save`, `QueuePending`, `RequestCancel`, `ClaimNextQueued`, `InterruptRunning`, `ListRecoverable` | conditional updates by concurrent callers; a statement that commits and whose answer is lost; rows that do not validate when read |
| Scheduler (`internal/scheduler`) | `running` map, `wake` channel, worker goroutines | `Recover`, `Run`, `Queue`, `Cancel`, `Retry`, `worker`, `execute`, `finalize` | cancel against claim and registration; crash between claim and finalize; clock read before a statement |
| Application (`internal/app`) | the two goroutines of `App.Run` | start, shutdown | HTTP serves before `Recover` has run |
| Batches (`internal/operationsvc/batch*.go`, `postgres/batch_store.go`) | parent and child rows, batch snapshot | `Submit`, `Cancel`, `RetryFailed`, `RefreshBatch`, reconcile | crash between a child's save and the refresh; parents ended by recovery |
| Submission (`internal/operationsvc/service.go`) | task and audit rows | `Submit`, `replay`, `wait` | two requests with one key; queueing that fails after the row was stored; lost answers |
| Planner and executor (`planner.go`, `executor.go`) | the prepared plan, the session | `prepare`, `Execute`, `executePlan` | a device row that changes between preflight and execution; audit completion under a cancelled context |
| Inventory (`internal/inventorysvc`, its repositories) | `switches`, `credentials` | create, update, delete, `TestConnection`, `Detect` | read, talk to the device for seconds, write the whole row back |
| Backup storage (`internal/backupfs`) | files below one root | `Put`, `OpenVerified`, `Verify`, `Delete`, `CheckReady` | a crash between two file operations; calls that meet on a path |
| Command security (`internal/commandsecurity`) | none | `Evaluate`, the wrapper of `ParseResult` | overlapping rules, limits |
| Authentication and RBAC (`internal/authn`, `domain/auth`, the middleware) | none of its own | `Authenticate`, `Authorize`, `RequirePermission` | exact and global bindings, rank of roles |
| Plugins (`pkg/pluginapi`, `internal/pluginregistry`, `plugins/fake`, `internal/fakeruntime`) | registry (fixed at start), tables of the fake devices | `Register`, `LookupCapability`, `BuildPlan`, `ParseResult`, `execute` | a plan that is not the one asked for |
| Configuration, errors, health, secrets, SSH probe | see PROJECT.json | | not modelled |

Interaction: HTTP handlers call the repository and the scheduler; workers call a
handler (the operation executor), which calls `Controller.Do`; recovery rewrites
rows left by the previous process. Goroutines share the `running` map and the
`wake` channel; everything else they share is in the database.

What makes each part correct is the list of properties in section 3, and the
`hazards` of PROJECT.json name the line at which each can go wrong.

## 2. Modules

| Module | Models |
|---|---|
| `SemaphoreOps` | the critical sections of `semaphore.go` as operators on a semaphore record |
| `Semaphore` | one semaphore and the goroutines that call it |
| `ExecutionGuards` | `Controller.Do` over `DeviceLocks` and the global semaphore, with the same operators |
| `TaskLifecycle` | the row, `Task.Validate`, `Task.Transition` and the UPDATE statements as operators |
| `TaskMachine` | abstract: what the task store promises its clients |
| `Scheduler` | the scheduler, its clients and the life of the process over the task table |
| `Batch` | batches: `BatchService`, the reconciling repository and `BatchStore`, over the workers and the recovery of the scheduler |
| `BackupStorage` | `storage.go`: each call a sequence of file operations over a disk with volatile and durable state |
| `AccessControl` | token, principal and permission, and the routes with their permissions, as operators |
| `CommandSecurity` | command policies and `Engine.Evaluate`, as operators |
| `PluginRegistry` | versions, metadata, registration and the validity of plans, transcripts and results, as operators |
| `FakePlugin` | the plugin and the device the process is wired with |
| `Inventory` | requests on devices and credentials, one SQL statement a step, over `AccessControl` |
| `Operation` | submission, planning, execution and audit of one operation, composed of `Inventory` and `FakePlugin` |
| `SemaphoreLemmas` | what the critical sections of `SemaphoreOps` do, for one semaphore record |
| `SemaphoreProofs`, `ExecutionGuardsProofs`, `SchedulerProofs`, `BatchProofs`, `BackupStorageProofs`, `OperationProofs` | inductive invariants and theorems about the module of that name |
| `DecisionProofs` | theorems about the loops of `CommandSecurity` and `AccessControl` and the versions of `PluginRegistry` |
| `MC*` | instances for TLC |

### Semaphore

`sem.active` and `sem.queue` are the fields of the Go struct; `sem.granted` are
the callers whose waiter has `granted = true` and that have not come out of their
`select`. `pc` is the place of a caller in `Acquire`. One action is one critical
section under `mu`, one branch of the `select` or one look at the context:
`AcquireEnter`, `AcquireLock`, `AcquireReady` (the branch `<-ready`), then
`AcquireGiveUp` if the context is done as well, `AcquireDone` (the branch
`<-ctx.Done()`), then `AcquireAbort`, `Release`, `ReleaseAgain` (the no-op of
`sync.Once`). A context may be cancelled at any point (`CancelContext`).

### ExecutionGuards

A `deviceEntry` is an object with an identity, because `releaseReference` compares
pointers and an entry can be dropped and remade while goroutines still hold the
old one. `AllocatedEntry` is the allocator: it returns an object nothing refers
to. `Device*` and `Global*` are the steps of the two nested `Acquire`s, then
`OperationEnds`, `GlobalRelease`, `DeviceRelease`, `ReleaseReference` in the order
of `Lease.Release`. Every error path of `Controller.Acquire` is an edge of `pc`.

### TaskLifecycle, TaskMachine, Scheduler

A row keeps `status`, `version`, `created`, `started`, `finished`,
`cancelRequested`; identifiers, payloads and results are left out, and with them
the parts of `Validate` that concern them. `Never` is SQL NULL.

In `Scheduler` a step is one SQL statement, one critical section, one channel
operation or one read of the clock. In `ClaimNextQueued` the read of the clock
(`WorkerLoop`) and the statement are two steps, as they are in the code, and so
are Recover's `now` (`RecoverBegin`) and `InterruptRunning`. `Cancel` is
`CancelRequest` (the statement), `CancelLookup` (the map) and `CancelCall` (the
cancel function); `execute` is `Register`, `Reload`, `StartHandler`, `HandlerEnds`,
then `FinalizeGet`, `FinalizeSave` or `FinalizeConflict`, and `Unregister`.
`SKIP LOCKED` lets a claim pass over as many rows as other workers have claims
under way. `Crash` and `Exit` lose everything but the table. `*Fails` are calls
that return an error, before or after their statement took effect. `acked` and
`handled` are history variables for the properties.

Steps merged: `s.now()` in `Cancel` and in `finalize` with the statement that
follows (a row that changes in between is a conflict, or the time is merely
older); a submission's clock with its INSERT.

### Batch

The database is `child`, `cancelMark`, `unreadable`, `childAudit`, `batch`,
`parent` and `parentAudit`. Of `Scheduler` `Batch` keeps what `TaskMachine`
promises: a worker claims, runs and saves. Versions are left out, and of the times
only their order: `unreadable` are the children whose times `Task.Validate`
rejects. There are two ways to become one. A worker may read its clock before a
batch is created and claim one of its children with it (`ClaimTooEarly`; `recent`
are the batches created while somebody is between his clock and his statement);
and a left-over RUNNING child may be cancelled between Recover's clock and
InterruptRunning (`recentMarks`, `RecoverInterrupt`). `loadBatchSnapshot` validates
every child, so one such row fails each refresh of its batch (`Rejected`), and with
it the caller: the worker that saved (`SaveRejected`, which stops the scheduler),
recovery and with it the process, at every start (`RecoverRejected`), a request
(`RequestRejected`; `CancelRejected`, where the UPDATE is committed and its row
cannot be scanned).
`RefreshBatch` is a transaction of the actor that calls it (a worker, a request or
recovery), at READ COMMITTED, in the steps `RefreshLock` (SELECT ... FOR UPDATE,
batch row and parent row), `RefreshItems`, `RefreshFix` (the UPDATE of unstarted
children, then the snapshot again) and `RefreshWrite`, which commits;
`SyncDirectTerminalAudits` follows on its own where the caller is `reconcile`.
Rows that a transaction has changed and not committed make others wait
(`RowLocked`), or are skipped by a claim. `Recover*` is
`BatchAwareTaskRepository.InterruptRunning` inside `Scheduler.Recover`, while
requests are served already. A request is a sequence of such calls: `Submit` then
`QueueChild` per child, `Get`, `CancelLoaded` then `CancelChild` per child,
`RetryLoaded`. `RequestFails` is a client that disconnects or a statement that
fails, at any point; `WorkerFails`, `RecoverFails`, `Crash`, `Shutdown` are the
faults.

Planning and execution of a child are its handler, which ends with one of
`HandlerResults` and has then completed the child's audit record.
`BatchService.Recover` and `AfterTaskFinalized` are not wired into the process.

### BackupStorage

A file is named by the client whose `Put` made it. `names` and `data` are what the
process sees, `durable`, `synced` and `durableDirs` what a loss of power leaves
for sure; of the rest `Crash` keeps any part. `Put` is `Call`, `EnsureDirectory`,
`CheckAbsent`, `CreateTemp`, `CopyBlock` per block, `SyncTemp`, `Link`,
`UnlinkTemp`, `SyncTargetDirectory`, with `Cleanup` (the deferred removal of the
temporary file) and `UndoLink` on the error paths; `OpenVerified` is
`ResolveExisting`, `OpenFile`, `StatFile`, `HashFile` (`Verify` is the same and
closes the file); `Delete` is `RemoveFile`, `SyncRemoval`; `CheckReady` is
`WriteProbe`, `RemoveProbe`. Every file operation may fail, those included whose
error the code ignores: the removal of a temporary file, and that of the name after
a failed sync. The tests for symbolic links and modes guard against other writers
below the root, of which there are none in the model. `DisjointAssumption` is a
simplification: no path asked for is a directory of another one. Nothing in the
repository calls `Put` or `Delete` outside tests, so nothing in the code says so;
what it leaves out is `Delete` of a path that is an empty directory, which
`os.Remove` removes (`storage.go:208`), and a `Put` to a path that is a directory or
below one that is a file, which is refused.

### AccessControl, CommandSecurity, PluginRegistry, FakePlugin

Pure operators, used by `Inventory` and `Operation` wherever the code calls them.
A command is a sequence of tokens (words, `Space`, `Control`), so that the prefix
match of strings is `IsPrefix`; lengths count tokens. `Authorize` keeps the two
passes of the code, and `Evaluate` its loops; each has a reference definition
beside it without them (`AuthorizeIsExactOrGlobal`, `EvaluateIsDefaultDeny`, the
latter from the comment of `Engine.Evaluate`), and `MCOperation` compares the two
over bounded inputs in ASSUMEs, `DecisionProofs` for all inputs. A version is a triple. The fake plugin has the
VLAN operations, `config.save` and the custom commands with their rules.

The custom-command handlers exist and are tested, but `app.go` does not register
them; the model has their routes, because planner and executor are written for
them.

### Inventory

A step is one SQL statement or one call of the device; between two of them a
request keeps the row it has read in `row[c]`. Rows keep the columns something
depends on: state of deletion, host (with port), credential, vendor, model (with
OS version), identity and status of a device; name, type and, for each secret,
the version of the key that encrypted it for a credential. `NameTaken`,
`HostTaken` and `InUse` are the unique indexes and the trigger of the schema.
`observed` is history: what detections have seen. Requests that only read are left
out.

### Operation

A task is named by the client whose request created it. `Submit` is
`FindByIdempotency`, `Preflight` (`prepare` on the device row of that moment),
`Create` (task and audit in one transaction, or the task of a query and then
`CreateQueryAudit`), `Queue`, and the wait; `QueueFails` and `QueueConflict` lead to
`CleanUpTask` and `CleanUpAudit`. `Execute` is `ExecutePrepare` (the plan is made again and compared
by `SamePlan`), `Acquire` (the guard and the session, which may fail to open), `Send`
per command, `AuditResult` or, after an error,
`AuditFailure`, then `Finalize`. `prepare` is the planner as one operator: one
statement reads the device row and the rest computes. A hash is the hashed value.

`Scheduler` and `ExecutionGuards` are used through what they were shown to
promise: a claim and a final write are a step each, claims come in any order, the
guard has one holder per device. The process is `app`: HTTP serves from the start,
beside `Recover`, and workers claim when Recover has returned. Recover is
`RecoverList` (`InterruptRunning` and `ListRecoverable`, one step, because no step
of this process changes a RUNNING row before it) and a `RecoverQueue` per listed
PENDING row. So recovery may queue the fresh row of a submission, and a worker claim
it, before the submission's own `Queue`, which is then refused (`QueueConflict`) and
leads to the clean-up with nothing failed; the same conflict in `RecoverQueue` ends
the process. Cancel requests of clients are in `Scheduler`; here a task is cancelled
by the clean-up of its submission.

Failures are a statement that fails before or after its commit, a session that does
not open, a command that fails before or after it took effect, a shutdown and a crash; a read that fails
changes nothing and is left out. `sent` and `auditWrites` are history variables.
Query audits are not required (`RequireQueryAudit` is not set by `app.go`).

Operators whose comment begins with "Mutant" are not part of the models: each is
a plausible bug of one definition, and PROJECT.json names the property that
notices it.

## 3. Runs

| Run | Instance | States | Shows |
|---|---|---|---|
| `semaphore` | 4 callers, 2 slots | 19,000 | `SlotsAccounted`, `WithinCapacity`, `NoLostGrant`, `FIFO`, `EveryWaitEnds` |
| `guards` | 3 calls, 2 devices, 1 global slot | 183,000 | `DeviceExclusive`, `ReferencesExact`, `NoEntryLeak`, `NoIdleGlobalSlot`, `EveryCallEnds`; the global limit and every entry implement `Semaphore` |
| `scheduler` | 2 tasks, 2 workers, 1 fault, clock fixed, recovery limit 1 | 1.3 million | the safety properties, `ImplementsTaskMachine` among them |
| `scheduler_live` | 1 task, 1 worker, clock 1..2, 2 faults | 56,000 | `QueuedTaskEnds`, `PendingIsRecovered` |
| `batch` | 1 batch of up to 2 devices, 1 worker, 1 request at a time, 1 fault | 275,000 | `FailFastBound`, `CancelCoversAll`, `ProgressIsMonotone`, `EndedBatchCloses` |
| `batch_workers` | a batch and its retry, 2 workers, 1 request at a time, 1 fault or disconnect | 2.1 million | refreshes and claims of two workers: `ClosedIsTrue`, `FailFastStops`, `RetryOnlyFailed`, `ImplementsTaskMachine` |
| `backup` | 3 calls out of 8, 2 blocks, 1 loss of power | 1.8 million | `AcknowledgedIsDurable`, `VisibleIsComplete` |
| `operation` | 3 requests out of 259 choices, 2 workers, 1 fault, 2 key versions | 1.3 million | `KeyExecutesOnce`, `SentWasApproved`, `ConfigOnlyWhereDetected`, `SuccessIsAudited`; the algorithms against their references |
| `scheduler_start_time` | 1 task, 1 worker, clock 1..2 | violated | finding 1 |
| `batch_child_audit` | 1 batch, 1 worker, 1 request, 1 fault | violated | finding 2 |
| `batch_submit` | 1 batch, 1 worker, 1 request | violated | finding 3 |
| `batch_row_times` | 1 batch, 1 worker, 1 request, 1 fault | violated | finding 4 |

Bounds. Two slots and four callers let two callers hold, one be granted and one
wait behind it. Three calls on two devices let two meet on one device while the
third takes the global slot and while an entry is dropped and remade. Two tasks
and two workers let a claim race a claim, and one fault is enough for a restart
in the middle of any step; two faults are used where one must not hide the other
(the crash of a recovery from a crash). A clock that stands still makes all times
equal, the case the comparisons `<=` and `>=` must survive. The safety results of
all runs do not depend on these bounds: they are proved for all (section 4). In a batch, two devices give a child that fails and one that is
still to start, run or be queued; a second worker is what lets a child start
between the snapshot of a refresh and its UPDATE. The requests of the batch runs
come one at a time, beside workers and recovery, which refresh the same batch; that
the safety properties hold for several requests at once, and with any number of
them breaking off, is proved.

In `backup` two writers and a deleter, or a reader, meet on one path; the files
are below, at and above the limit of two blocks, so that the copy loop ends in
each of its ways. In `operation` three requests are what the races need: two
submissions with one key, or a change and a second request, and one that rewrites
the device row under them. The choices are listed in `MCScenarios`: pairs on a
key, pairs on a device, every way through planner, executor and handlers, and all
pairs of fifteen requests on credentials and devices. One fault puts a crash, a
lost answer or a failed command at any step; the clean-up of a failed queueing may
fail with it. The ASSUMEs take all commands of up to four tokens over the six
tokens the rules tell apart, all principals of up to two bindings, and all pairs
of 27 versions.

Fairness. Weak fairness of each goroutine's next step: the Go scheduler runs what
can run, the ticker of an idle worker fires, a handler returns (operations run
under timeouts), a permit holder releases (the release is deferred), and a
supervisor restarts the process. In `batch` a request, once accepted, also
goes on to its answer (`ClientsFail` is FALSE): when a client cancels the last
child and disconnects before the reconcile, the batch stays open until somebody
reads it or the process restarts, so no stronger claim is true. And
`EndedBatchCloses` excepts behaviours in which a row comes about that
`Task.Validate` rejects: recovery goes through the open batches in turn and gives up
at the first it cannot read, so that no batch is sure to be closed any more (finding
4 is the claim without the exception). The two races that make such a row are in the
run, and `ClosedIsTrue` holds with them. No fairness for new requests, cancellations
or faults. Strong fairness is not needed anywhere.

Symmetry is used for safety and refinement only, in `scheduler`, `batch_workers`
and `backup`.

Deadlock is checked in every run: a caller or the process can always go on. In
`backup` and `operation`, where requests are finite, the stuttering steps `AllDone`
and `Quiet` are enabled only when every call has its answer or was lost and no task
waits or runs, so that a call that hangs is reported. A row that was committed
without its answer may stay PENDING: the next start queues it.

### Findings

1. `worker` reads `s.now()` before `ClaimNextQueued` (`scheduler.go:286`). A task
   created and queued in between is committed RUNNING with
   `started_at < created_at`, which `Task.Validate` excludes
   (`task.go:148-150`). `scanTask` rejects the row after the commit, the worker's
   error stops the scheduler, and no reader can read the row again. No CHECK of
   migration 000003 compares the two columns. The row of a single operation is
   interrupted at the next start, and stays unreadable; if it is the child of a
   batch, the process cannot start any more (finding 4).
2. A GET between `InterruptRunning` and `ListOpenBatchIDs` closes a batch without
   `SyncDirectTerminalAudits`; recovery lists open batches only
   (`batch_task_repository.go:78`), and the audit of the interrupted child stays
   open for good.
3. The first child of a stop-on-failure batch may fail, and the stop cancel the
   others, before `submit` has queued them: `Submit` then answers STATE_CONFLICT
   for a batch that exists and ran (`batch.go:231`), which the integration test
   excludes (`batch_operation_integration_test.go:210-215`). The same happens when
   recovery queues a child and a worker claims it first.
4. `Recover` reads its time before `InterruptRunning` while HTTP already serves
   (`scheduler.go:134-135`, `app.go:303-304`). A cancel of a left-over RUNNING row in
   between leaves `cancel_requested_at > finished_at`, which `Task.Validate` excludes
   (`task.go:164-166`). For a child of a batch that is fatal: `loadBatchSnapshot`
   validates every child (`batch_store.go:299`), so every `RefreshBatch` of the batch
   fails, and because `InterruptRunning` reconciles all open batches
   (`batch_task_repository.go:82-86`), `Recover` and `Run` fail at every start. The
   batch never closes and no worker starts. A child of finding 1 does the same.
   `batch_task_repository.go:15-17` says that a batch is reconciled when recovery
   interrupts running children.

Observations, seen in the models and without a run of their own:

- `InterruptRunning` ends RUNNING parents like any RUNNING row, and the reconcile
  that follows writes RUNNING again (`batch_store.go:213`): for a moment clients
  see a batch task that ended. `ClosedIsTrue` says that the outcome is right.
- A batch that closes while its parent is INTERRUPTED so never completes its own
  audit record, because `RefreshBatch` completes it only for a parent that was
  open (`batch_store.go:221`; `RefreshWrite` leaves `parentAudit` alone).
- The clean-up after a failed `Queue` completes the audit row as CANCELLED, and
  `AuditRepository.Complete` replaces what is there (`audit_repository.go:67-87`).
  When the QUEUED row was committed all the same, a worker executes the task: its
  audit row says CANCELLED or SUCCESS, whichever came last (`service.go:80-81`). The
  same comes about with nothing failed: `Recover` queues the fresh row of a
  submission (`scheduler.go:146`), a worker claims it, and the submission's `Queue`
  answers STATE_CONFLICT. `SuccessIsAudited` therefore speaks of what was recorded,
  and of the final row only where nothing failed and the submission was accepted
  (`answer[t].task = t`).
- A shutdown leaves more of this: `AuditResult` fails on the cancelled context and
  a successful change ends as PARTIAL_SUCCESS with an open audit row
  (`executor.go:140`); a claim that meets the shutdown skips the handler, and with
  it the audit (`scheduler.go:331`); recovery interrupts a single operation's row
  and leaves its audit open.
- A credential can be looked up for a new device, or for a patch, and deleted before
  the device is written: the trigger sees only devices already there
  (`inventorysvc/service.go:113`, `180`). The device then names a deleted
  credential, and `deviceView` fails for it.
- `UpdateDevice`, `TestConnection` and `Detect` write every column back and check no
  version: of two that overlap the later one undoes the other. `TestConnection`
  writes ACTIVE over DISABLED (`service.go:234`). `ConfigOnlyWhereDetected` says
  what survives: address, vendor, model and identity are written together.
- The row `prepare` has read is used after the wait for the guard
  (`executor.go:161`): a device disabled or moved in between is still configured, at
  the old row.
- A patch of a credential that brings no new secret stamps the current key version on
  what an older key encrypted (`service.go:395`): `Decrypts` fails afterwards.
- `Put` syncs the directory of the file and not the parents of directories it made
  (`storage.go:130`, `324`): a loss of power can take a new directory with
  acknowledged backups in it. `AcknowledgedIsDurable` excepts exactly this.
- After a failed sync of the directory `Put` removes the name it linked
  (`storage.go:131`); if the file was deleted and another `Put` has taken the path
  since, it removes that one's file.

## 4. Proofs

Every safety property of the passing runs is a theorem, for every value of the
constants that the named ASSUMEs allow. Each module has an inductive invariant
`IInv` that was checked with TLC on the instances above before it was proved; the
theorems listed in PROJECT.json follow from it.

### Semaphore

`SemaphoreProofs`, for every finite set of callers and every positive capacity:
`TypeCorrect`, `ActiveIsOwners`, `CapacityRespected`, `NoGrantIsLost`,
`QueueExact` and `ServesInOrder`. The inductive invariant joins the counter
equation, the queue equation and the saturation of the slots; each needs the
others, since a withdrawal keeps the count only if the granted waiters are not in
the queue. `SemaphoreLemmas` says what `GrantLocked`, `ReleaseOne`, `Withdraw` and
entering do to this invariant (`Consistent`) of a semaphore record, its owners and
its waiters; it mentions no variables, so that `SemaphoreProofs` and
`ExecutionGuardsProofs` use the same lemmas.

### Execution guards

`ExecutionGuardsProofs`, for any finite sets of calls and devices and any global
limit: `DevicesAreExclusive`, `ReferencesAreExact`, `EntriesAreDropped`,
`SlotsWorkForDevices`, and the two refinements. The invariant says that the global
semaphore and that of each entry object are `Consistent` with the calls at the
places of `pc` that own or await them, that the calls that refer to an entry are
those its count counts, and that an entry in use is the entry of one device in the
map. Exclusion follows: two holders of a device hold the one slot of one entry. That
the allocator finds an unused object is a pigeonhole argument, as a call refers to
one entry at most. The refinements are shown action by action: a step of a call is a
step of the semaphore it touches and a stutter of every other, dropping and remaking
an entry included, since an entry that is dropped has neither owners nor waiters.

### Scheduler

`SchedulerProofs`, for any sets of tasks and workers, any recovery limit, any
number of faults and any clock bound: every safety property of `scheduler`, and
the refinement `RefinesTaskMachine`. The invariant `IInv` adds what the properties
rest on:

- `NotStarted`: a row that looks unclaimed was never claimed, hence never handled;
- `Times`: times read lie in the past, hence `InterruptRunning`'s
  `started_at <= now` misses no row;
- `Offline`: there is no worker during recovery, hence nobody loses its row to it;
- `Owners`, `Claimed`, `InHand`, `Ended`, `Fresh`: one worker per task, and what its
  row looks like at each place of `execute`;
- `Owned`: after recovery a RUNNING row has a worker unless one has failed;
- `Attempts`: the only change behind a worker's back is the first cancel request;
- `Requested`, `Signalled`: the mark a cancel leaves in the row and on the context.

`Keeps` and `Outside` say what any statement, and any statement but the worker's
own, does to a row; a lemma per statement shows it, and the step lemmas use only
these.

### Batches

`BatchProofs`, for any batches, devices, finite set of workers, requests and faults:
every safety property of the `batch` runs and the refinement of `TaskMachine`. The
parts of `IInv` build on each other:

- `Locks`: FOR UPDATE gives a batch one transaction at a time, the rows it has
  updated are unstarted children of its batch and stay so until it commits, and a
  worker executes a RUNNING child of its own. From this alone every step moves every
  child along the transition table (`StepMoves`).
- `Snapshots`: as terminal statuses are final, a snapshot can be wrong only about
  children it says have not ended; the UPDATE of `RefreshFix` has every unstarted
  child; a failure is never written without it.
- `BatchRowsTrue`: counters written from such a snapshot are reached by the children
  and by every later snapshot, so they never go back (`ProgressMonotone`); when the
  snapshot says that all have ended it is the truth (`ClosedBatchesAreTrue`).
- `Readable`: the children marked before `InterruptRunning` are RUNNING, so a batch
  with a row that cannot be read was open when that row came about, and stays open.
- `RequestsKeep`: a Cancel in progress has covered every child that is not in its
  list any more; what a retry copies had ended.
- `FailFast`: while a child of a stop-on-failure batch can be claimed, each failed
  child has a worker that has still to commit its reconcile, and each RUNNING child a
  worker that executes it. So the children that failed or may still fail are among
  those the workers have in hand, and `FailuresAreBounded` counts workers. During
  recovery the same is said of the batches it has still to reconcile.

Attempts that failed made the invariant stronger where it had to be: a transaction
is `fixed` only while it holds the lock, a Cancel is never in the loop of `submit`,
and a cancelled batch exists. `ActorsAssumption` (finitely many workers; workers,
requests and recovery are different) became an assumption of `Batch`.

### Backup storage

`BackupStorageProofs`, for any clients, file limit, number of losses of power and
requests that `DisjointAssumption` allows: `BackupsAreComplete` and `AcknowledgementsHold`. The invariant follows a file
through `Put`: what is linked was written completely and synced first (`Written`,
`Named`), a call that has linked still holds what it linked or somebody removed it
(`Placed`, `Removed`), and an acknowledged change of the directory is in the durable
one (`PutKept`, `DeleteKept`).

### Operation

`OperationProofs`, for any finite set of clients, any requests, rows, users and
detections, and any numbers of workers and failures: every property of the
`operation` run. No property is inductive alone, because the planner is the same
operator at submission and at execution and what links the two is a chain of rows.
`IInv` has four parts, and each is kept by every step given the parts before it:

- `InventoryInv`: a row that says VERIFIED names what one detection saw, and so does
  every row that a request in flight has read and will write back whole (`HoldsDevice`,
  `SeenIn`). Without the second half a slow write could bring an undetected pair of
  address and vendor back.
- `TaskInv`: a stored task is that of an accepted request (`Accepted`), with its actor,
  key and snapshot, and with plans that the planner let through (`Planned`: commands,
  a risk that is confirmed, no blocking rule); an actor and a key have one row
  (`UniqueKeys`); an execution has a RUNNING row; a process that is down has no
  calls, and one that has not recovered no executions (`Process`).
  `Planned` rests on `EvaluateAcceptsOnlyAllowed` of `DecisionProofs`.
- `ExecInv`: what each place of the executor knows of plan, status and device row
  (`ExecOK`), the guard of a device is held by exactly the execution that is at its
  commands (`GuardInv`), and the commands sent are the first of the approved ones,
  as many as there are records, across the change from the main plan to saving
  (`SentOK`). A task that no worker has had has sent nothing, which is what makes a
  crash and a recovery harmless.
- `AuditInv`: where the audit row must exist already and what it was completed with
  (`AuditOK`); and, while nothing has failed, that a task waits until there are
  workers, and that one which its submission has queued is not cancelled and meets no
  path that overwrites its record (`CalmOK`).

`SentWasApproved` follows step by step: only `Send` changes `sent`, and `IInv` before
the step says the rest. `IsSequence`, an existential over all sets, was replaced by
its meaning for a function (its domain is 1..Len) when TLC checked `IInv`, on all
1.3 million states of the run (one group of its scenarios after the other).

The proofs made some facts of the code explicit as assumptions: rows that exist at
first are valid, a body decodes to the columns its type has (`CredentialFields`,
`DeviceFields`, `PatchFields`), submitted commands are lists of lists of tokens.

### Decisions

`DecisionProofs` is about inputs of any length. `EvaluateAcceptsOnlyAllowed`: what
`Evaluate` accepts, whatever policy, limits and request, holds only commands that some
rule allows and none blocks, and is no riskier than the decision says.
`EvaluateDefaultDeny`: within the limits it accepts exactly those, at the highest of
their risks. `AuthorizeExactOrGlobal`: the two passes of `Authorize` find the highest
granting role, exact bindings before global ones, and deny when no covering binding
holds the permission. `CompatibleIsSameMajorNotOlder`: the order of versions. The
loops are folds; `FoldFunctionExists` shows that the function a fold is defined by
exists, and induction is over sets of numbers (`SetInduction`, from the
well-foundedness of the order), since the library's induction theorems take an
operator.

### What they rest on, and what is left

Assumptions: the named ASSUMEs of the modules, the atomicity of SQL statements and
mutex sections, and a wall clock that does not go back (`RunningRowsAreOwned`
needs it; a row claimed in the future would be missed by `InterruptRunning`).

Changed for the proofs, without changing what the models do: two CASEs, in `ExecutionGuards` and `Scheduler`, had guards that overlap, where TLC
takes the first and the logic leaves the choice open, are IF ... ELSE CASE now;
`Authorize` filters inside its loop, as the Go code does, since SelectSeq cannot be
reasoned about; some folds and sets of `FakePlugin` are written without `@@`.

Only model-checked: the liveness properties (`EveryWaitEnds`, `EveryCallEnds`,
`QueuedTaskEnds`, `PendingIsRecovered`, `EndedBatchCloses`), since fairness and
ENABLED are out of the prover's reach, and the findings, which are counterexamples.

## 5. Not modelled, and the plan

PROJECT.json lists every part with its status. The parts with interesting
behaviour are modelled, and their safety properties are proved. What could follow:
the hazards without a property (PROJECT.json says for each why it has none), and a
refinement of `Scheduler` by the claims of `Operation`, so that the two are composed
by a theorem and not by the argument of section 2.

Left out for good: the interface, route, ACL and telemetry operations of plugin and
handlers (the VLAN path with other tables), requests that only read, wording and
encoding of requests and answers, redaction, configuration parsing, health checks,
cryptography, the SSH probe, and the scripted sessions of `testkit/fakecli`, which
only tests use.
