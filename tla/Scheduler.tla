------------------------------ MODULE Scheduler ------------------------------
(***************************************************************************)
(* The task scheduler of internal/scheduler/scheduler.go over the task     *)
(* table: Recover, Run and its workers, Queue, Cancel and Retry called by  *)
(* HTTP handlers while the workers run, and the life of the process around *)
(* them (shutdown, a worker's error, a crash, a restart).                  *)
(*                                                                         *)
(* A step is one statement of the database, one critical section under     *)
(* Scheduler.mu, one channel operation or one read of the clock.  The      *)
(* database survives a crash, everything else does not.                    *)
(***************************************************************************)
EXTENDS TaskLifecycle, FiniteSets

CONSTANTS Tasks,          \* task IDs
          Workers,        \* Config.Workers goroutines
          Nobody,         \* no worker / no task
          HandlerResults, \* the statuses a handler may return without an error
          RecoveryLimit,  \* Config.RecoveryLimit, the LIMIT of ListRecoverable
          MaxClock,       \* bound: the clock stops here
          MaxFaults       \* bound: crashes, shutdowns and database errors

ASSUME NobodyAssumption == Nobody \notin Tasks \cup Workers
\* ExecutionResult.Validate
ASSUME HandlerAssumption == HandlerResults \subseteq {"SUCCESS", "PARTIAL_SUCCESS", "FAILED"}
ASSUME BoundsAssumption == /\ MaxClock \in Nat \ {0}
                           /\ MaxFaults \in Nat
                           /\ RecoveryLimit \in Nat \ {0}

VARIABLES
    rows,       \* the tasks table
    clock,      \* the wall clock
    proc,       \* "down", or where Scheduler.Run is (see RunStates)
    recoverNow, \* Recover's now
    toQueue,    \* the PENDING tasks Recover has listed and not queued yet
    ctxDone,    \* runCtx is cancelled
    wake,       \* the wake channel (capacity 1) holds a token
    wpc,        \* where each worker is
    wtask,      \* the task it claimed
    wnow,       \* the time it read for ClaimNextQueued
    wversion,   \* finalize: the version read by Get
    wfinal,     \* the final status computed by execute
    wtry,       \* finalize: the attempt, from 0
    running,    \* Scheduler.running: the worker whose cancel func is registered
    cause,      \* the task's execCtx was cancelled with ErrTaskCancelled
    client,     \* the HTTP handler that submits the task
    canceller,  \* the HTTP handler that cancels the task
    acked,      \* history: Cancel returned the RUNNING task without an error
    handled,    \* history: how often the handler was started for the task
    faults      \* crashes, shutdowns and database errors so far

dbVars == <<rows, clock>>
runVars == <<proc, recoverNow, toQueue, ctxDone>>
workerVars == <<wpc, wtask, wnow, wversion, wfinal, wtry>>
memVars == <<running, cause, wake>>
clientVars == <<client, canceller, acked>>
vars == <<rows, clock, proc, recoverNow, toQueue, ctxDone, wake,
          wpc, wtask, wnow, wversion, wfinal, wtry,
          running, cause, client, canceller, acked, handled, faults>>

(***************************************************************************)
(* proc: "down"; in Recover "starting" (before now), "interrupt" (before   *)
(* InterruptRunning), "list" (before ListRecoverable), "queue" (in the     *)
(* loop of QueuePending); "running" (the workers are started)              *)
(***************************************************************************)
RunStates == {"starting", "interrupt", "list", "queue", "running"}

(***************************************************************************)
(* wpc: "off" not started; "loop" at the head of the loop of worker;       *)
(* "claim" has read the clock, before ClaimNextQueued; "wait" in the       *)
(* select; in execute "register" (before running[id] = cancel), "reload"   *)
(* (before Get), "start" (before the handler), "handler" (in it); in       *)
(* finalize "get" and "save"; "unregister" the deferred function, after    *)
(* which the worker loops; "bail" the same on an error, after which it     *)
(* stops; "stopped"                                                        *)
(***************************************************************************)
WorkerStates == {"off", "loop", "claim", "wait", "register", "reload", "start",
                 "handler", "get", "save", "unregister", "bail", "stopped"}

Init ==
    /\ rows = [t \in Tasks |-> NoRow]
    /\ clock = 1
    /\ wpc = [w \in Workers |-> "off"]
    /\ wtask = [w \in Workers |-> Nobody]
    /\ wnow = [w \in Workers |-> Never]
    /\ wversion = [w \in Workers |-> 0]
    /\ wfinal = [w \in Workers |-> NoTask]
    /\ wtry = [w \in Workers |-> 0]
    /\ running = [t \in Tasks |-> Nobody]
    /\ cause = [t \in Tasks |-> FALSE]
    /\ wake = FALSE
    /\ proc = "down"
    /\ recoverNow = Never
    /\ toQueue = {}
    /\ ctxDone = FALSE
    /\ client = [t \in Tasks |-> "none"]
    /\ canceller = [t \in Tasks |-> "none"]
    /\ acked = [t \in Tasks |-> FALSE]
    /\ handled = [t \in Tasks |-> 0]
    /\ faults = 0

-----------------------------------------------------------------------------
Up == proc \in RunStates

GotoW(w, label) == wpc' = [wpc EXCEPT ![w] = label]

\* notify: a non-blocking send on the wake channel.
Notify == wake' = TRUE

\* The database, the network or a timeout fails a call; within the bound.
Fault == faults < MaxFaults /\ faults' = faults + 1

Tick ==
    /\ clock < MaxClock
    /\ clock' = clock + 1
    /\ UNCHANGED <<rows, runVars, workerVars, memVars, clientVars, handled, faults>>

-----------------------------------------------------------------------------
(***************************************************************************)
(* The process: start, crash, shutdown                                     *)
(***************************************************************************)

\* The HTTP server and Scheduler.Run start together (app.go:303-304), so
\* clients may call from here on, before Recover has done anything.
Start ==
    /\ proc = "down"
    /\ proc' = "starting"
    /\ UNCHANGED <<dbVars, recoverNow, toQueue, ctxDone, workerVars, memVars,
                   clientVars, handled, faults>>

\* The process ends: everything in memory is lost.
Exit ==
    /\ wpc' = [w \in Workers |-> "off"]
    /\ wtask' = [w \in Workers |-> Nobody]
    /\ wnow' = [w \in Workers |-> Never]
    /\ wversion' = [w \in Workers |-> 0]
    /\ wfinal' = [w \in Workers |-> NoTask]
    /\ wtry' = [w \in Workers |-> 0]
    /\ running' = [t \in Tasks |-> Nobody]
    /\ cause' = [t \in Tasks |-> FALSE]
    /\ wake' = FALSE
    /\ proc' = "down"
    /\ recoverNow' = Never
    /\ toQueue' = {}
    /\ ctxDone' = FALSE
    /\ client' = [t \in Tasks |-> "none"]
    /\ canceller' = [t \in Tasks |-> "none"]
    /\ UNCHANGED <<acked, handled>>

Crash == Up /\ Fault /\ Exit /\ UNCHANGED dbVars

\* SIGTERM: the context of Run is cancelled.
Shutdown ==
    /\ Up /\ ~ctxDone
    /\ Fault
    /\ ctxDone' = TRUE
    /\ UNCHANGED <<dbVars, proc, recoverNow, toQueue, workerVars, memVars,
                   clientVars, handled>>

\* workers.Wait() returns, Run returns, and app.Run ends the process.
RunReturns ==
    /\ proc = "running" /\ ctxDone
    /\ \A w \in Workers : wpc[w] = "stopped"
    /\ Exit
    /\ UNCHANGED <<dbVars, faults>>

-----------------------------------------------------------------------------
(***************************************************************************)
(* Recover                                                                 *)
(***************************************************************************)

RecoverBegin ==
    /\ proc = "starting"
    /\ recoverNow' = clock
    /\ proc' = "interrupt"
    /\ UNCHANGED <<dbVars, toQueue, ctxDone, workerVars, memVars, clientVars,
                   handled, faults>>

InterruptAll(at) == rows' = [t \in Tasks |-> Interrupt(rows[t], at)]

\* Mutant: recovery requeues what the last process left RUNNING.
RecoverInterruptRequeues ==
    /\ proc = "interrupt"
    /\ rows' = [t \in Tasks |-> IF rows[t].status = "RUNNING"
                                THEN [rows[t] EXCEPT !.status = "QUEUED", !.started = Never]
                                ELSE rows[t]]
    /\ proc' = "list"
    /\ UNCHANGED <<clock, recoverNow, toQueue, ctxDone, workerVars, memVars,
                   clientVars, handled, faults>>

\* Mutant: InterruptRunning is skipped.
RecoverInterruptSkipped ==
    /\ proc = "interrupt"
    /\ proc' = "list"
    /\ UNCHANGED <<dbVars, recoverNow, toQueue, ctxDone, workerVars, memVars,
                   clientVars, handled, faults>>

RecoverInterrupt ==
    /\ proc = "interrupt"
    /\ InterruptAll(recoverNow)
    /\ proc' = "list"
    /\ UNCHANGED <<clock, recoverNow, toQueue, ctxDone, workerVars, memVars,
                   clientVars, handled, faults>>

\* ListRecoverable: the RecoveryLimit oldest PENDING or QUEUED rows (ties in
\* created_at are broken by a random ID, that is arbitrarily).
Recoverable == {t \in Tasks : rows[t].status \in {"PENDING", "QUEUED"}}

Oldest(S, n) ==
    {L \in SUBSET S :
        /\ Cardinality(L) = (IF Cardinality(S) < n THEN Cardinality(S) ELSE n)
        /\ \A t \in L, u \in S \ L : rows[t].created <= rows[u].created}

\* Mutant: the loop skips the PENDING ones.
RecoverListQueuedOnly ==
    /\ proc = "list"
    /\ toQueue' = {}
    /\ proc' = "queue"
    /\ UNCHANGED <<dbVars, recoverNow, ctxDone, workerVars, memVars, clientVars,
                   handled, faults>>

\* The loop then skips the QUEUED ones.
RecoverList ==
    /\ proc = "list"
    /\ \E listed \in Oldest(Recoverable, RecoveryLimit) :
          toQueue' = {t \in listed : rows[t].status = "PENDING"}
    /\ proc' = "queue"
    /\ UNCHANGED <<dbVars, recoverNow, ctxDone, workerVars, memVars, clientVars,
                   handled, faults>>

\* One QueuePending of the loop.  A task that a client queued meanwhile is
\* fine; one that was cancelled meanwhile is a StateConflict, which ends
\* Recover and Run with an error.
RecoverQueue(t) ==
    /\ proc = "queue" /\ t \in toQueue
    /\ rows[t].status \in {"PENDING", "QUEUED"}
    /\ rows' = [rows EXCEPT ![t] = QueuePending(@)]
    /\ toQueue' = toQueue \ {t}
    /\ UNCHANGED <<clock, proc, recoverNow, ctxDone, workerVars, memVars,
                   clientVars, handled, faults>>

RecoverConflict(t) ==
    /\ proc = "queue" /\ t \in toQueue
    /\ rows[t].status \notin {"PENDING", "QUEUED"}
    /\ Exit
    /\ UNCHANGED <<dbVars, faults>>

\* Any statement of Recover may fail, before or after it took effect: Run
\* returns the error and the process ends.
RecoverFails ==
    /\ proc \in {"interrupt", "list", "queue"}
    /\ \/ ctxDone /\ UNCHANGED faults
       \/ Fault
    /\ Exit
    /\ \/ UNCHANGED rows
       \/ proc = "interrupt" /\ InterruptAll(recoverNow)
       \/ \E t \in toQueue : rows' = [rows EXCEPT ![t] = QueuePending(@)]
    /\ UNCHANGED clock

\* Recover notifies and returns; Run starts the workers and notifies again.
StartWorkers ==
    /\ proc = "queue" /\ toQueue = {}
    /\ proc' = "running"
    /\ wpc' = [w \in Workers |-> "loop"]
    /\ Notify
    /\ UNCHANGED <<dbVars, recoverNow, toQueue, ctxDone, wtask, wnow, wversion,
                   wfinal, wtry, running, cause, clientVars, handled, faults>>

-----------------------------------------------------------------------------
(***************************************************************************)
(* Clients: Create and Queue, Retry, Cancel                                *)
(***************************************************************************)

\* A submission inserts its row.  (created_at is the clock just before; a
\* delay between the two only makes the row look older.)
CreateTask(t) ==
    /\ Up
    /\ rows[t].status = NoTask
    /\ rows' = [rows EXCEPT ![t] = CreatedRow(clock)]
    /\ client' = [client EXCEPT ![t] = "created"]
    /\ UNCHANGED <<clock, runVars, workerVars, memVars, canceller, acked, handled, faults>>

\* Retry up to its Create: the source has ended without success.
Retry(source, t) ==
    /\ rows[source].status \in {"FAILED", "PARTIAL_SUCCESS", "CANCELLED", "INTERRUPTED"}
    /\ Validate(rows[source])
    /\ CreateTask(t)

\* Queue (and the tail of Retry): QueuePending, then notify.  The task was
\* cancelled meanwhile: StateConflict, and no notify.
QueueTask(t) ==
    /\ client[t] = "created"
    /\ rows' = [rows EXCEPT ![t] = QueuePending(@)]
    /\ client' = [client EXCEPT ![t] = "none"]
    /\ IF rows[t].status \in {"PENDING", "QUEUED"} THEN Notify ELSE UNCHANGED wake
    /\ UNCHANGED <<clock, runVars, workerVars, running, cause, canceller, acked,
                   handled, faults>>

\* The call fails, before or after it took effect: no notify.
QueueTaskFails(t) ==
    /\ client[t] = "created"
    /\ Fault
    /\ \/ UNCHANGED rows
       \/ rows' = [rows EXCEPT ![t] = QueuePending(@)]
    /\ client' = [client EXCEPT ![t] = "none"]
    /\ UNCHANGED <<clock, runVars, workerVars, memVars, canceller, acked, handled>>

\* Cancel: RequestCancel.  A RUNNING task, now or already marked, is to be
\* signalled; a CANCELLED one ends the call; any other status, or a row that
\* does not validate, is an error.
CancelRequest(t) ==
    /\ Up
    /\ canceller[t] = "none"
    /\ rows[t].status # NoTask
    /\ LET after == RequestCancel(rows[t], clock)
       IN  /\ rows' = [rows EXCEPT ![t] = after]
           /\ canceller' = [canceller EXCEPT ![t] =
                 IF after.status = "RUNNING" /\ Validate(after) THEN "signal" ELSE "none"]
    /\ UNCHANGED <<clock, runVars, workerVars, memVars, client, acked, handled, faults>>

CancelRequestFails(t) ==
    /\ Up
    /\ canceller[t] = "none"
    /\ CancelApplies(rows[t])
    /\ Fault
    /\ rows' = [rows EXCEPT ![t] = RequestCancel(@, clock)]
    /\ UNCHANGED <<clock, runVars, workerVars, memVars, clientVars, handled>>

\* ... the look-up of running[id] under mu: without an entry Cancel returns ...
CancelLookup(t) ==
    /\ canceller[t] = "signal"
    /\ IF running[t] # Nobody
       THEN canceller' = [canceller EXCEPT ![t] = "call"] /\ UNCHANGED acked
       ELSE /\ canceller' = [canceller EXCEPT ![t] = "none"]
            /\ acked' = [acked EXCEPT ![t] = TRUE]
    /\ UNCHANGED <<dbVars, runVars, workerVars, memVars, client, handled, faults>>

\* ... and the call of cancel(ErrTaskCancelled).  The first cancellation of a
\* context fixes its cause: after a shutdown this one changes nothing.
CancelCall(t) ==
    /\ canceller[t] = "call"
    /\ cause' = [cause EXCEPT ![t] = @ \/ ~ctxDone]
    /\ canceller' = [canceller EXCEPT ![t] = "none"]
    /\ acked' = [acked EXCEPT ![t] = TRUE]
    /\ UNCHANGED <<dbVars, runVars, workerVars, running, wake, client, handled, faults>>

-----------------------------------------------------------------------------
(***************************************************************************)
(* A worker's loop                                                         *)
(***************************************************************************)

\* The head of the loop: stop when the context is done, else read the clock.
WorkerLoop(w) ==
    /\ wpc[w] = "loop"
    /\ IF ctxDone
       THEN GotoW(w, "stopped") /\ UNCHANGED wnow
       ELSE GotoW(w, "claim") /\ wnow' = [wnow EXCEPT ![w] = clock]
    /\ UNCHANGED <<dbVars, runVars, wtask, wversion, wfinal, wtry, memVars,
                   clientVars, handled, faults>>

Queued == {t \in Tasks : rows[t].status = "QUEUED"}

\* FOR UPDATE SKIP LOCKED: the statements of other workers may hold a row each,
\* which this one passes over even if they fail later.
Locked(w) == Cardinality({v \in Workers \ {w} : wpc[v] = "claim"})

\* ORDER BY created_at, id LIMIT 1, among the rows that are not locked.
Candidates(w) ==
    {t \in Queued : Cardinality({u \in Queued : rows[u].created < rows[t].created}) <= Locked(w)}

\* A worker returns an error: Run cancels the context of the others.
WorkerError(w) == GotoW(w, "stopped") /\ ctxDone' = TRUE

\* ClaimNextQueued.  The statement commits; scanTask then validates the row it
\* returns, and a row that does not validate is an error of the claim.
ClaimNextQueued(w) ==
    /\ wpc[w] = "claim"
    /\ \E t \in Candidates(w) :
          /\ rows' = [rows EXCEPT ![t] = Claim(@, wnow[w])]
          /\ IF Validate(rows'[t])
             THEN /\ GotoW(w, "register")
                  /\ wtask' = [wtask EXCEPT ![w] = t]
                  /\ UNCHANGED ctxDone
             ELSE WorkerError(w) /\ UNCHANGED wtask
    /\ wnow' = [wnow EXCEPT ![w] = Never]
    /\ UNCHANGED <<clock, proc, recoverNow, toQueue, wversion, wfinal, wtry,
                   memVars, clientVars, handled, faults>>

\* ErrNoQueuedTask: no row, or none that is not locked.
ClaimNothing(w) ==
    /\ wpc[w] = "claim"
    /\ Cardinality(Queued) <= Locked(w)
    /\ GotoW(w, "wait")
    /\ wnow' = [wnow EXCEPT ![w] = Never]
    /\ UNCHANGED <<dbVars, runVars, wtask, wversion, wfinal, wtry, memVars,
                   clientVars, handled, faults>>

\* The claim fails: the context was cancelled under it or the database is in
\* trouble.  The statement may have committed all the same.
ClaimFails(w) ==
    /\ wpc[w] = "claim"
    /\ \/ ctxDone /\ UNCHANGED faults
       \/ Fault
    /\ \/ UNCHANGED rows
       \/ \E t \in Candidates(w) : rows' = [rows EXCEPT ![t] = Claim(@, wnow[w])]
    /\ WorkerError(w)
    /\ wnow' = [wnow EXCEPT ![w] = Never]
    /\ UNCHANGED <<clock, proc, recoverNow, toQueue, wtask, wversion, wfinal,
                   wtry, memVars, clientVars, handled>>

\* The select: a token of the wake channel, the ticker, or the context.
WorkerWoken(w) ==
    /\ wpc[w] = "wait" /\ wake
    /\ wake' = FALSE
    /\ GotoW(w, "loop")
    /\ UNCHANGED <<dbVars, runVars, wtask, wnow, wversion, wfinal, wtry, running,
                   cause, clientVars, handled, faults>>

WorkerTicks(w) ==
    /\ wpc[w] = "wait"
    /\ GotoW(w, "loop")
    /\ UNCHANGED <<dbVars, runVars, wtask, wnow, wversion, wfinal, wtry, memVars,
                   clientVars, handled, faults>>

WorkerStops(w) ==
    /\ wpc[w] = "wait" /\ ctxDone
    /\ GotoW(w, "stopped")
    /\ UNCHANGED <<dbVars, runVars, wtask, wnow, wversion, wfinal, wtry, memVars,
                   clientVars, handled, faults>>

-----------------------------------------------------------------------------
(***************************************************************************)
(* execute                                                                 *)
(***************************************************************************)

\* running[id] = cancel: from here on Cancel finds the task.
Register(w) ==
    /\ wpc[w] = "register"
    /\ running' = [running EXCEPT ![wtask[w]] = w]
    /\ cause' = [cause EXCEPT ![wtask[w]] = FALSE]
    /\ GotoW(w, "reload")
    /\ UNCHANGED <<dbVars, runVars, wtask, wnow, wversion, wfinal, wtry, wake,
                   clientVars, handled, faults>>

\* Mutant: execute trusts the claimed row and does not look again.
ReloadSkipped(w) ==
    /\ wpc[w] = "reload"
    /\ GotoW(w, "start")
    /\ UNCHANGED <<dbVars, runVars, wtask, wnow, wversion, wfinal, wtry, memVars,
                   clientVars, handled, faults>>

\* Get, unless the context is done, and the check of cancel_requested_at: a
\* request that came between the claim and the registration counts.
Reload(w) ==
    /\ wpc[w] = "reload"
    /\ ctxDone \/ Validate(rows[wtask[w]])
    /\ GotoW(w, "start")
    /\ cause' = [cause EXCEPT ![wtask[w]] =
                    @ \/ (~ctxDone /\ rows[wtask[w]].cancelRequested # Never)]
    /\ UNCHANGED <<dbVars, runVars, wtask, wnow, wversion, wfinal, wtry, wake,
                   running, clientVars, handled, faults>>

\* "reload claimed task": the Get fails and execute returns the error.
ReloadFails(w) ==
    /\ wpc[w] = "reload"
    /\ \/ (ctxDone \/ ~Validate(rows[wtask[w]])) /\ UNCHANGED faults
       \/ Fault
    /\ GotoW(w, "bail")
    /\ UNCHANGED <<dbVars, runVars, wtask, wnow, wversion, wfinal, wtry, memVars,
                   clientVars, handled>>

\* The status of a task whose execution ended with an error.
ErrorStatus(w) ==
    IF cause[wtask[w]] THEN "CANCELLED"
    ELSE IF ctxDone THEN "INTERRUPTED"
    ELSE "FAILED"

ToFinalize(w, status) ==
    /\ wfinal' = [wfinal EXCEPT ![w] = status]
    /\ wtry' = [wtry EXCEPT ![w] = 0]
    /\ GotoW(w, "get")

\* The context is done: the handler is not called.
SkipHandler(w) ==
    /\ wpc[w] = "start" /\ ctxDone
    /\ ToFinalize(w, ErrorStatus(w))
    /\ UNCHANGED <<dbVars, runVars, wtask, wnow, wversion, memVars, clientVars,
                   handled, faults>>

StartHandler(w) ==
    /\ wpc[w] = "start" /\ ~ctxDone
    /\ handled' = [handled EXCEPT ![wtask[w]] = @ + 1]
    /\ GotoW(w, "handler")
    /\ UNCHANGED <<dbVars, runVars, wtask, wnow, wversion, wfinal, wtry, memVars,
                   clientVars, faults>>

\* Mutant: the result of the handler is not validated.
HandlerEndsUnvalidated(w) ==
    /\ wpc[w] = "handler"
    /\ \E status \in Statuses : ToFinalize(w, status)
    /\ UNCHANGED <<dbVars, runVars, wtask, wnow, wversion, memVars, clientVars,
                   handled, faults>>

\* The handler ends with a result, with one that does not validate (FAILED), or
\* with an error or a panic.
HandlerEnds(w) ==
    /\ wpc[w] = "handler"
    /\ \E status \in HandlerResults \cup {"FAILED", ErrorStatus(w)} :
          ToFinalize(w, status)
    /\ UNCHANGED <<dbVars, runVars, wtask, wnow, wversion, memVars, clientVars,
                   handled, faults>>

-----------------------------------------------------------------------------
(***************************************************************************)
(* finalize, under a context of its own                                    *)
(***************************************************************************)
FinalizeAttempts == 3

\* Get: an ended task is left alone, any status but RUNNING is an error.
FinalizeGet(w) ==
    /\ wpc[w] = "get"
    /\ LET row == rows[wtask[w]]
       IN  IF ~Validate(row) THEN GotoW(w, "bail") /\ UNCHANGED wversion
           ELSE CASE row.status \in Terminal -> GotoW(w, "unregister") /\ UNCHANGED wversion
                  [] row.status = "RUNNING"  -> /\ GotoW(w, "save")
                                                /\ wversion' = [wversion EXCEPT ![w] = row.version]
                  [] OTHER                   -> GotoW(w, "bail") /\ UNCHANGED wversion
    /\ UNCHANGED <<dbVars, runVars, wtask, wnow, wfinal, wtry, memVars,
                   clientVars, handled, faults>>

\* Task.Transition with the clock now, and the checks of it and of Save.
Finalized(w) == Transition(rows[wtask[w]], wfinal[w], clock)
CanFinalize(w) == CanTransition(rows[wtask[w]], wfinal[w], clock) /\ Validate(Finalized(w))

\* Transition and Save: UPDATE ... WHERE version = expected.  The row that was
\* read with that version is the row, so the update is a transition of it.  (A
\* change of the row between the reading of the clock and the statement is a
\* conflict, so the two are one step.)
FinalizeSave(w) ==
    /\ wpc[w] = "save"
    /\ rows[wtask[w]].version = wversion[w]
    /\ IF CanFinalize(w)
       THEN rows' = [rows EXCEPT ![wtask[w]] = Finalized(w)] /\ GotoW(w, "unregister")
       ELSE GotoW(w, "bail") /\ UNCHANGED rows
    /\ UNCHANGED <<clock, runVars, wtask, wnow, wversion, wfinal, wtry, memVars,
                   clientVars, handled, faults>>

\* StateConflict: somebody changed the row since Get.  Try again, three times
\* in all ("task finalization conflicted repeatedly").
FinalizeConflict(w) ==
    /\ wpc[w] = "save"
    /\ rows[wtask[w]].version # wversion[w]
    /\ wtry' = [wtry EXCEPT ![w] = @ + 1]
    /\ GotoW(w, IF wtry[w] + 1 < FinalizeAttempts THEN "get" ELSE "bail")
    /\ UNCHANGED <<dbVars, runVars, wtask, wnow, wversion, wfinal, memVars,
                   clientVars, handled, faults>>

\* Get or Save fails, the Save before or after it took effect.
FinalizeFails(w) ==
    /\ wpc[w] \in {"get", "save"}
    /\ Fault
    /\ \/ UNCHANGED rows
       \/ /\ wpc[w] = "save" /\ rows[wtask[w]].version = wversion[w]
          /\ CanFinalize(w)
          /\ rows' = [rows EXCEPT ![wtask[w]] = Finalized(w)]
    /\ GotoW(w, "bail")
    /\ UNCHANGED <<clock, runVars, wtask, wnow, wversion, wfinal, wtry, memVars,
                   clientVars, handled>>

\* The deferred function of execute.
Unregister(w) ==
    /\ wpc[w] \in {"unregister", "bail"}
    /\ running' = [running EXCEPT ![wtask[w]] = Nobody]
    /\ wtask' = [wtask EXCEPT ![w] = Nobody]
    /\ wversion' = [wversion EXCEPT ![w] = 0]
    /\ wfinal' = [wfinal EXCEPT ![w] = NoTask]
    /\ wtry' = [wtry EXCEPT ![w] = 0]
    /\ IF wpc[w] = "bail" THEN WorkerError(w) ELSE GotoW(w, "loop") /\ UNCHANGED ctxDone
    /\ UNCHANGED <<dbVars, proc, recoverNow, toQueue, wnow, cause, wake,
                   clientVars, handled, faults>>

-----------------------------------------------------------------------------
Recovery ==
    \/ RecoverBegin \/ RecoverInterrupt \/ RecoverList
    \/ \E t \in Tasks : RecoverQueue(t) \/ RecoverConflict(t)
    \/ StartWorkers

WorkerStep(w) ==
    \/ WorkerLoop(w) \/ ClaimNextQueued(w) \/ ClaimNothing(w)
    \/ WorkerWoken(w) \/ WorkerTicks(w) \/ WorkerStops(w)
    \/ Register(w) \/ Reload(w) \/ SkipHandler(w) \/ StartHandler(w) \/ HandlerEnds(w)
    \/ FinalizeGet(w) \/ FinalizeSave(w) \/ FinalizeConflict(w) \/ Unregister(w)

Next ==
    \/ Tick
    \/ Start \/ Crash \/ Shutdown \/ RunReturns
    \/ Recovery \/ RecoverFails
    \/ \E t \in Tasks :
          \/ CreateTask(t) \/ (\E source \in Tasks : Retry(source, t))
          \/ QueueTask(t) \/ QueueTaskFails(t)
          \/ CancelRequest(t) \/ CancelRequestFails(t) \/ CancelLookup(t) \/ CancelCall(t)
    \/ \E w \in Workers : WorkerStep(w) \/ ClaimFails(w) \/ ReloadFails(w) \/ FinalizeFails(w)

Spec == Init /\ [][Next]_vars

(***************************************************************************)
(* Fairness.  The process is started again after it ended (its supervisor) *)
(* and its goroutines run: Recover goes on, every worker takes its next    *)
(* step (a handler returns, the ticker of an idle worker fires), and a     *)
(* client that called Queue goes on.  Nothing has to fail, to be created   *)
(* or to be cancelled.                                                     *)
(***************************************************************************)
Fairness ==
    /\ WF_vars(Start) /\ WF_vars(Recovery) /\ WF_vars(RunReturns)
    /\ \A w \in Workers : WF_vars(WorkerStep(w))
    /\ \A t \in Tasks : WF_vars(QueueTask(t) \/ CancelLookup(t) \/ CancelCall(t))

FairSpec == Spec /\ Fairness

-----------------------------------------------------------------------------
(***************************************************************************)
(* Properties                                                              *)
(***************************************************************************)
DatabaseOK == rows \in [Tasks -> Rows] /\ clock \in 1 .. MaxClock
RunOK ==
    /\ proc \in RunStates \cup {"down"}
    /\ recoverNow \in 0 .. MaxClock
    /\ toQueue \subseteq Tasks
    /\ ctxDone \in BOOLEAN
WorkersOK ==
    /\ wpc \in [Workers -> WorkerStates]
    /\ wtask \in [Workers -> Tasks \cup {Nobody}]
    /\ wnow \in [Workers -> 0 .. MaxClock]
    /\ wversion \in [Workers -> Nat]
    /\ wfinal \in [Workers -> Terminal \cup {NoTask}]
    /\ wtry \in [Workers -> 0 .. FinalizeAttempts]
MemoryOK ==
    /\ running \in [Tasks -> Workers \cup {Nobody}]
    /\ cause \in [Tasks -> BOOLEAN]
    /\ wake \in BOOLEAN
ClientsOK ==
    /\ client \in [Tasks -> {"none", "created"}]
    /\ canceller \in [Tasks -> {"none", "signal", "call"}]
    /\ acked \in [Tasks -> BOOLEAN]
    /\ handled \in [Tasks -> Nat]

\* Shape of the state: what execute stores as a final status ends a task, and
\* finalize never gets past its attempts (scheduler.go:337-352, 372).
TypeOK == DatabaseOK /\ RunOK /\ WorkersOK /\ MemoryOK /\ ClientsOK /\ faults \in 0 .. MaxFaults

Machine == INSTANCE TaskMachine WITH status <- [t \in Tasks |-> rows[t].status]

\* Whatever workers, clients, crashes and recoveries do, every row moves along
\* allowedTransitions and a terminal status is final (task.go:58-84), although
\* only Task.Transition looks at the table and the SQL statements do not.
ImplementsTaskMachine == Machine!Spec

\* No task is executed twice: the handler is started at most once for a task
\* over all workers, crashes and recoveries (a device command must not be
\* repeated), and never for a task that was cancelled before it was claimed.
AtMostOnce ==
    \A t \in Tasks : /\ handled[t] <= 1
                     /\ rows[t].started = Never => handled[t] = 0

\* While the scheduler runs and no worker has failed, a RUNNING row has exactly
\* one worker: a claim that is lost or a row left over by a crash would stay
\* RUNNING for ever, since nothing but Recover looks for it (scheduler.go:135,
\* 286-301).
RunningIsOwned ==
    proc = "running" /\ ~ctxDone =>
        \A t \in Tasks : rows[t].status = "RUNNING" =>
            Cardinality({w \in Workers : wtask[w] = t}) = 1

\* Once Cancel has returned a RUNNING task without an error, its handler runs
\* under a cancelled context: a request cannot slip between the claim, the
\* registration and the reload (scheduler.go:217-228 against 286-327).
CancelReachesHandler ==
    \A w \in Workers, t \in Tasks :
        wpc[w] = "handler" /\ wtask[w] = t /\ acked[t] => cause[t] \/ ctxDone

\* The result of an execution is not dropped: when finalize looks, the row is
\* still the RUNNING row this worker claimed.  (The silent return of
\* scheduler.go:377-379 for an ended task is never taken.)
ResultIsKept ==
    \A w \in Workers : wpc[w] \in {"get", "save"} => rows[wtask[w]].status = "RUNNING"

\* finalize meets at most one conflict: cancel_requested_at is set once, so the
\* three attempts of scheduler.go:372 are enough and "task finalization
\* conflicted repeatedly" is never returned.
FewConflicts == \A w \in Workers : wtry[w] <= 1

\* Cancel finds the worker of a task in the running map exactly while that
\* worker executes it: no entry outlives its execution and none is removed by
\* another one's deferred delete.
RegistryExact ==
    \A t \in Tasks, w \in Workers :
        running[t] = w <=> wtask[w] = t /\ wpc[w] # "register"

\* A task that is queued ends, through lost notifications, failed claims,
\* crashes and restarts.
QueuedTaskEnds ==
    \A t \in Tasks : rows[t].status \in {"QUEUED", "RUNNING"} ~> rows[t].status \in Terminal

\* A task that is PENDING when the process starts (its submitter died between
\* Create and Queue) does not stay so.
PendingIsRecovered ==
    \A t \in Tasks : proc = "starting" /\ rows[t].status = "PENDING"
                        ~> rows[t].status # "PENDING"

\* Task.Validate on what the database holds (task.go:148-150).
RowsStartAfterCreation ==
    \A t \in Tasks : StartNotBeforeCreation(rows[t])
=============================================================================
