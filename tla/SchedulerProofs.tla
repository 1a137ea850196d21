--------------------------- MODULE SchedulerProofs ---------------------------
(***************************************************************************)
(* The scheduler's safety properties for any number of tasks, workers,     *)
(* faults and clock readings.                                              *)
(*                                                                         *)
(* None of the properties is inductive by itself: that a task is handled   *)
(* once needs that a claimed row never looks unclaimed again, that the     *)
(* result is kept needs that nobody but its worker ends a RUNNING row, and *)
(* that needs that Recover's InterruptRunning never meets a worker.  IInv  *)
(* collects these facts.                                                   *)
(***************************************************************************)
EXTENDS Scheduler, FiniteSetTheorems, TLAPS

-----------------------------------------------------------------------------
(***************************************************************************)
(* The inductive invariant                                                 *)
(***************************************************************************)
Unstarted == {NoTask, "PENDING", "QUEUED"}
Executing == {"register", "reload", "start", "handler", "get", "save", "unregister", "bail"}
InExecution == {"register", "reload", "start", "handler", "get", "save"}

\* started_at is set by the claim and by nothing before it; a row that does
\* not exist has no cancel request.
NotStarted ==
    \A t \in Tasks : /\ rows[t].status \in Unstarted => rows[t].started = Never
                     /\ rows[t].status = NoTask => rows[t].cancelRequested = Never

\* Times that were read lie in the past: what Recover's time must not miss.
Times ==
    /\ \A t \in Tasks : rows[t].started <= clock
    /\ \A w \in Workers : wpc[w] = "claim" => 1 <= wnow[w] /\ wnow[w] <= clock
    /\ proc = "interrupt" => \A t \in Tasks : rows[t].started <= recoverNow

\* Recover runs before any worker does.
Offline == proc # "running" => \A w \in Workers : wpc[w] = "off"

\* A worker has a task exactly while it executes one, and never another's.
Owners ==
    /\ \A w \in Workers : wpc[w] \in Executing <=> wtask[w] # Nobody
    /\ \A v, w \in Workers : wtask[v] = wtask[w] /\ wtask[v] # Nobody => v = w

\* The row of a worker's task, by the place of the worker.
Claimed == \A w \in Workers : wpc[w] \in Executing => rows[wtask[w]].started # Never
InHand == \A w \in Workers : wpc[w] \in InExecution => rows[wtask[w]].status = "RUNNING"
Ended == \A w \in Workers : wpc[w] = "unregister" => rows[wtask[w]].status \in Terminal
Fresh == \A w \in Workers : wpc[w] \in {"register", "reload", "start"} => handled[wtask[w]] = 0

\* After InterruptRunning, a RUNNING row has a worker unless one has failed.
Owned ==
    proc \in {"list", "queue", "running"} /\ ~ctxDone =>
        \A t \in Tasks : rows[t].status = "RUNNING" => \E w \in Workers : wtask[w] = t

\* A RUNNING row changes once behind its worker's back, when a cancel is
\* requested; after one conflict that has happened.
Attempts ==
    \A w \in Workers : wpc[w] \in {"get", "save"} =>
        /\ wfinal[w] \in Terminal
        /\ wtry[w] = 1 => rows[wtask[w]].cancelRequested # Never
        /\ wpc[w] = "save" =>
              \/ rows[wtask[w]].version = wversion[w]
              \/ wtry[w] = 0 /\ rows[wtask[w]].cancelRequested # Never

\* A Cancel past its statement has left its mark in the row ...
Requested ==
    \A t \in Tasks : canceller[t] # "none" \/ acked[t] => rows[t].cancelRequested # Never

\* ... and one that has returned, its mark on the context.
Signalled ==
    \A w \in Workers : wpc[w] \in {"start", "handler"} /\ acked[wtask[w]]
                          => cause[wtask[w]] \/ ctxDone

RowInv == NotStarted /\ AtMostOnce /\ Requested
WorkerInv == Offline /\ Owners /\ Claimed /\ InHand /\ Ended /\ Fresh /\ Owned
FinalInv == Attempts /\ FewConflicts
SignalInv == RegistryExact /\ Signalled
IInv == TypeOK /\ RowInv /\ Times /\ WorkerInv /\ FinalInv /\ SignalInv

-----------------------------------------------------------------------------
(***************************************************************************)
(* What the statements do to a row                                         *)
(***************************************************************************)

\* The step of TaskMachine between two versions of a row.
Moves(r, q) ==
    \/ q.status = r.status
    \/ r.status = NoTask /\ q.status = "PENDING"
    \/ CanTransitionTo(r.status, q.status)

\* What every statement keeps: a row moves along the table, started_at and a
\* cancel request stay, and a row does not go back before its start.
Keeps(r, q) ==
    /\ q \in Rows
    /\ Moves(r, q)
    /\ r.started # Never => q.started = r.started
    /\ r.cancelRequested # Never => q.cancelRequested # Never
    /\ q.status \in Unstarted => r.status \in Unstarted /\ q.started = r.started
    /\ q.status = NoTask => r.status = NoTask /\ q.cancelRequested = r.cancelRequested

\* What everybody but the worker of a RUNNING row may do to it.
Outside(r, q) ==
    /\ Keeps(r, q)
    /\ q.status = "RUNNING" <=> r.status = "RUNNING"
    /\ q.started = r.started
    /\ r.status \in Terminal => q.status = r.status
    /\ r.status = "RUNNING" =>
          q.version = r.version \/ (q.cancelRequested # Never /\ r.cancelRequested = Never)

\* The steps the statements take are in the table of task.go:68-84.
LEMMA TableHas ==
    /\ CanTransitionTo("PENDING", "QUEUED") /\ CanTransitionTo("PENDING", "CANCELLED")
    /\ CanTransitionTo("QUEUED", "RUNNING") /\ CanTransitionTo("QUEUED", "CANCELLED")
    /\ CanTransitionTo("RUNNING", "INTERRUPTED")
  BY DEF CanTransitionTo, AllowedTransitions, Terminal

\* A row nobody touches.
LEMMA OutsideSame == \A r \in Rows : Outside(r, r)
  BY DEF Outside, Keeps, Moves

\* Create.
LEMMA OutsideCreated ==
    ASSUME NEW r \in Rows, r.status = NoTask, r.started = Never, r.cancelRequested = Never,
           NEW at \in Nat
    PROVE  Outside(r, CreatedRow(at))
  <1> DEFINE q == CreatedRow(at)
  <1>1. /\ q \in Rows /\ q.status = "PENDING"
        /\ q.started = Never /\ q.cancelRequested = Never
    BY DEF CreatedRow, NoRow, Rows, Statuses, Never
  <1> HIDE DEF q
  <1>2. Outside(r, q) BY <1>1 DEF Outside, Keeps, Moves, Terminal, Unstarted, NoTask
  <1> QED BY <1>2 DEF q

\* QueuePending.
LEMMA OutsideQueued == \A r \in Rows : Outside(r, QueuePending(r))
  <1> SUFFICES ASSUME NEW r \in Rows PROVE Outside(r, QueuePending(r)) OBVIOUS
  <1>1. PICK v \in Nat : v = r.version + 1 BY DEF Rows
  <1>2. CASE r.status = "PENDING"
    <2> DEFINE q == [r EXCEPT !.status = "QUEUED", !.version = v]
    <2>1. QueuePending(r) = q BY <1>1, <1>2 DEF QueuePending
    <2>2. /\ q \in Rows /\ q.status = "QUEUED"
          /\ q.started = r.started /\ q.cancelRequested = r.cancelRequested
      BY DEF Rows, Statuses
    <2>3. Moves(r, q) BY <1>2, <2>2, TableHas DEF Moves
    <2> HIDE DEF q
    <2>4. Outside(r, q) BY <1>2, <2>2, <2>3 DEF Outside, Keeps, Terminal, Unstarted, NoTask
    <2> QED BY <2>1, <2>4
  <1>3. CASE r.status # "PENDING"
    BY <1>3 DEF Outside, Keeps, Moves, QueuePending
  <1> QED BY <1>2, <1>3

\* RequestCancel.
LEMMA OutsideCancelled ==
    \A r \in Rows : \A at \in Nat \ {0} :
        /\ Outside(r, RequestCancel(r, at))
        /\ RequestCancel(r, at).status = "RUNNING" => RequestCancel(r, at).cancelRequested # Never
  <1> SUFFICES ASSUME NEW r \in Rows, NEW at \in Nat \ {0}
               PROVE  /\ Outside(r, RequestCancel(r, at))
                      /\ RequestCancel(r, at).status = "RUNNING"
                            => RequestCancel(r, at).cancelRequested # Never
    OBVIOUS
  <1>1. PICK v \in Nat : v = r.version + 1 BY DEF Rows
  <1>2. CASE r.status = "RUNNING" /\ r.cancelRequested = Never
    <2> DEFINE q == [r EXCEPT !.cancelRequested = at, !.version = v]
    <2>1. RequestCancel(r, at) = q BY <1>1, <1>2 DEF RequestCancel, CancelApplies
    <2>2. /\ q \in Rows /\ q.status = r.status
          /\ q.started = r.started /\ q.cancelRequested # Never
      BY DEF Rows, Never
    <2> HIDE DEF q
    <2>3. Outside(r, q) BY <1>2, <2>2 DEF Outside, Keeps, Moves, Terminal, Unstarted, NoTask
    <2> QED BY <2>1, <2>2, <2>3
  <1>3. CASE r.status \in {"PENDING", "QUEUED"}
    <2> DEFINE q == [r EXCEPT !.status = "CANCELLED", !.cancelRequested = at,
                              !.finished = at, !.version = v]
    <2>1. RequestCancel(r, at) = q BY <1>1, <1>3 DEF RequestCancel, CancelApplies
    <2>2. /\ q \in Rows /\ q.status = "CANCELLED"
          /\ q.started = r.started /\ q.cancelRequested # Never
      BY DEF Rows, Never, Statuses, Terminal
    <2>3. Moves(r, q) BY <1>3, <2>2, TableHas DEF Moves
    <2> HIDE DEF q
    <2>4. Outside(r, q) BY <1>3, <2>2, <2>3 DEF Outside, Keeps, Terminal, Unstarted, NoTask
    <2> QED BY <2>1, <2>2, <2>4
  <1>4. CASE ~CancelApplies(r)
    <2>1. RequestCancel(r, at) = r BY <1>4 DEF RequestCancel
    <2> QED BY <1>4, <2>1, OutsideSame DEF CancelApplies
  <1> QED BY <1>2, <1>3, <1>4 DEF CancelApplies

\* ClaimNextQueued.
LEMMA ClaimRow ==
    ASSUME NEW r \in Rows, NEW at \in Nat, r.status = "QUEUED", r.started = Never
    PROVE  /\ Keeps(r, Claim(r, at))
           /\ Claim(r, at).status = "RUNNING"
           /\ Claim(r, at).started = at
  <1>1. PICK v \in Nat : v = r.version + 1 BY DEF Rows
  <1> DEFINE q == [r EXCEPT !.status = "RUNNING", !.started = at, !.version = v]
  <1>2. Claim(r, at) = q BY <1>1 DEF Claim
  <1>3. /\ q \in Rows /\ q.status = "RUNNING"
        /\ q.started = at /\ q.cancelRequested = r.cancelRequested
    BY DEF Rows, Statuses
  <1>4. Moves(r, q) BY <1>3, TableHas DEF Moves
  <1> HIDE DEF q
  <1>5. Keeps(r, q) BY <1>3, <1>4 DEF Keeps, Unstarted, NoTask
  <1> QED BY <1>2, <1>3, <1>5

\* InterruptRunning.
LEMMA InterruptRow ==
    ASSUME NEW r \in Rows, NEW at \in Nat
    PROVE  /\ Keeps(r, Interrupt(r, at))
           /\ Interrupt(r, at).started = r.started
           /\ r.started <= at => Interrupt(r, at).status # "RUNNING"
  <1>1. PICK v \in Nat : v = r.version + 1 BY DEF Rows
  <1>2. CASE r.status = "RUNNING" /\ r.started <= at
    <2> DEFINE q == [r EXCEPT !.status = "INTERRUPTED", !.finished = at, !.version = v]
    <2>1. Interrupt(r, at) = q BY <1>1, <1>2 DEF Interrupt
    <2>2. /\ q \in Rows /\ q.status = "INTERRUPTED"
          /\ q.started = r.started /\ q.cancelRequested = r.cancelRequested
      BY DEF Rows, Statuses, Terminal
    <2>3. Moves(r, q) BY <1>2, <2>2, TableHas DEF Moves
    <2> HIDE DEF q
    <2>4. Keeps(r, q) BY <2>2, <2>3 DEF Keeps, Unstarted, NoTask
    <2> QED BY <2>1, <2>2, <2>4
  <1>3. CASE ~(r.status = "RUNNING" /\ r.started <= at)
    <2>1. Interrupt(r, at) = r BY <1>3 DEF Interrupt
    <2> QED BY <1>3, <2>1 DEF Keeps, Moves
  <1> QED BY <1>2, <1>3

\* Transition to a final status.
LEMMA TransitionRow ==
    ASSUME NEW r \in Rows, NEW to \in Terminal, NEW at \in Nat, CanTransition(r, to, at)
    PROVE  /\ Keeps(r, Transition(r, to, at))
           /\ Transition(r, to, at).status = to
           /\ Transition(r, to, at).started = r.started
  <1>1. PICK v \in Nat : v = r.version + 1 BY DEF Rows
  <1> DEFINE q == [r EXCEPT !.status = to, !.started = r.started, !.finished = at, !.version = v]
  <1>2. Transition(r, to, at) = q BY <1>1 DEF Transition, Terminal
  <1>3. /\ q \in Rows /\ q.status = to
        /\ q.started = r.started /\ q.cancelRequested = r.cancelRequested
    BY DEF Rows, Statuses
  <1>4. Moves(r, q) BY <1>3 DEF Moves, CanTransition
  <1> HIDE DEF q
  <1>5. Keeps(r, q) BY <1>3, <1>4 DEF Keeps, Unstarted, NoTask, Terminal
  <1> QED BY <1>2, <1>3, <1>5


-----------------------------------------------------------------------------
(***************************************************************************)
(* One lemma per action, or per group of actions that disturb the same     *)
(* parts of the invariant                                                  *)
(***************************************************************************)
USE DEF IInv, TypeOK, DatabaseOK, RunOK, WorkersOK, MemoryOK, ClientsOK,
        dbVars, runVars, workerVars, memVars, clientVars, GotoW

\* The clock, the start, a shutdown, and the steps of Recover that only read.
LEMMA ClockworkPreserves ==
    ASSUME IInv,
           Tick \/ Start \/ Shutdown \/ RecoverBegin \/ RecoverList
    PROVE  IInv'
  <1>1. TypeOK'
    <2>1. DatabaseOK'
      BY BoundsAssumption DEF Tick, Start, Shutdown, Fault, Up, RecoverBegin, RecoverList,
             Oldest, Recoverable
    <2>2. RunOK'
      <3>1. CASE RecoverList BY <3>1 DEF RunStates, RecoverList, Oldest, Recoverable
      <3>2. CASE Tick \/ Start \/ Shutdown BY <3>2 DEF RunStates, Tick, Start, Shutdown
      <3>3. CASE RecoverBegin BY <3>3, BoundsAssumption DEF RunStates, RecoverBegin
      <3> QED BY <3>1, <3>2, <3>3
    <2>3. WorkersOK'
      BY BoundsAssumption, HandlerAssumption DEF WorkerStates, FinalizeAttempts, Terminal,
             Never, Tick, Start, Shutdown, Fault, Up, RecoverBegin, RecoverList, Oldest,
             Recoverable
    <2>4. MemoryOK' /\ ClientsOK' /\ faults' \in 0 .. MaxFaults
      BY BoundsAssumption DEF Tick, Start, Shutdown, Fault, Up, RecoverBegin, RecoverList,
             Oldest, Recoverable
    <2> QED BY <2>1, <2>2, <2>3, <2>4
  <1>2. RowInv'
    BY DEF RowInv, NotStarted, AtMostOnce, Requested, WorkerInv, Fresh, Claimed, Executing,
           Tick, Start, Shutdown, Fault, Up, RecoverBegin, RecoverList, Oldest, Recoverable
  <1>3. Times'
    BY BoundsAssumption DEF Times, Rows, Tick, Start, Shutdown, Fault, Up, RecoverBegin,
           RecoverList, Oldest, Recoverable
  <1>4. WorkerInv'
    BY DEF WorkerInv, Offline, Owners, Claimed, InHand, Ended, Fresh, Owned, Executing,
           InExecution, Tick, Start, Shutdown, Fault, Up, RecoverBegin, RecoverList, Oldest,
           Recoverable, Terminal
  <1>5. FinalInv'
    BY HandlerAssumption DEF FinalInv, Attempts, FewConflicts, Tick, Start, Shutdown, Fault,
           Up, RecoverBegin, RecoverList, Oldest, Recoverable, Terminal
  <1>6. SignalInv'
    BY NobodyAssumption DEF SignalInv, RegistryExact, Signalled, RowInv, Requested,
           WorkerInv, Owners, Offline, Executing, Tick, Start, Shutdown, Fault, Up,
           RecoverBegin, RecoverList, Oldest, Recoverable
  <1> QED BY <1>1, <1>2, <1>3, <1>4, <1>5, <1>6

\* Run starts its workers on a table without RUNNING rows.
LEMMA StartWorkersPreserves ==
    ASSUME IInv,
           StartWorkers
    PROVE  IInv'
  <1>1. TypeOK'
    BY BoundsAssumption, HandlerAssumption DEF RunStates, WorkerStates, FinalizeAttempts,
           FinalInv, FewConflicts, Never, Rows, StartWorkers, Notify
  <1>2. RowInv'
    BY DEF RowInv, NotStarted, AtMostOnce, Requested, WorkerInv, Fresh, Claimed, Executing,
           StartWorkers, Notify
  <1>3. Times'
    BY BoundsAssumption DEF Times, Rows, StartWorkers, Notify
  <1>4. WorkerInv'
    BY DEF WorkerInv, Offline, Owners, Claimed, InHand, Ended, Fresh, Owned, Executing,
           InExecution, StartWorkers, Notify, Terminal
  <1>5. FinalInv'
    BY HandlerAssumption DEF FinalInv, Attempts, FewConflicts, StartWorkers, Notify,
           Terminal
  <1>6. SignalInv'
    BY NobodyAssumption DEF SignalInv, RegistryExact, Signalled, RowInv, Requested,
           WorkerInv, Owners, Offline, Executing, StartWorkers, Notify
  <1> QED BY <1>1, <1>2, <1>3, <1>4, <1>5, <1>6

\* Cancel after its statement: the look-up and the call of the cancel
\* function.
LEMMA CancelSignalsPreserves ==
    ASSUME IInv, NEW t \in Tasks,
           CancelLookup(t) \/ CancelCall(t)
    PROVE  IInv'
  <1>1. TypeOK'
    BY BoundsAssumption, HandlerAssumption DEF RunStates, WorkerStates, FinalizeAttempts,
           FinalInv, FewConflicts, Never, Rows, CancelLookup, CancelCall
  <1>2. RowInv'
    BY DEF RowInv, NotStarted, AtMostOnce, Requested, WorkerInv, Fresh, Claimed, Executing,
           CancelLookup, CancelCall
  <1>3. Times'
    BY BoundsAssumption DEF Times, Rows, CancelLookup, CancelCall
  <1>4. WorkerInv'
    BY DEF WorkerInv, Offline, Owners, Claimed, InHand, Ended, Fresh, Owned, Executing,
           InExecution, CancelLookup, CancelCall, Terminal
  <1>5. FinalInv'
    BY HandlerAssumption DEF FinalInv, Attempts, FewConflicts, CancelLookup, CancelCall,
           Terminal
  <1>6. SignalInv'
    <2>1. \A v \in Workers : wpc[v] \in {"start", "handler"} =>
             wtask[v] \in Tasks /\ running[wtask[v]] = v /\ v # Nobody
      BY NobodyAssumption DEF SignalInv, RegistryExact, WorkerInv, Owners, Executing
    <2>2. RegistryExact'
      BY DEF SignalInv, RegistryExact, CancelLookup, CancelCall
    <2>3. CASE CancelLookup(t)
      <3>1. \A v \in Workers : wpc[v] \in {"start", "handler"} /\ acked'[wtask[v]] => acked[wtask[v]]
        BY <2>1, <2>3 DEF CancelLookup
      <3> QED BY <2>2, <2>3, <3>1 DEF SignalInv, Signalled, CancelLookup
    <2>4. CASE CancelCall(t)
      <3>1. \A u \in Tasks : cause[u] => cause'[u]
        BY <2>4 DEF CancelCall
      <3>2. cause'[t] \/ ctxDone
        BY <2>4 DEF CancelCall
      <3>3. \A u \in Tasks : u # t => acked'[u] = acked[u]
        BY <2>4 DEF CancelCall
      <3> QED BY <2>1, <2>2, <2>4, <3>1, <3>2, <3>3 DEF SignalInv, Signalled, CancelCall
    <2> QED BY <2>3, <2>4
  <1> QED BY <1>1, <1>2, <1>3, <1>4, <1>5, <1>6

\* A worker without a task.
LEMMA IdlePreserves ==
    ASSUME IInv, NEW w \in Workers,
           WorkerLoop(w) \/ ClaimNothing(w) \/ WorkerWoken(w) \/ WorkerTicks(w) \/ WorkerStops(w)
    PROVE  IInv'
  <1>1. TypeOK'
    <2>1. DatabaseOK'
      BY BoundsAssumption DEF WorkerLoop, ClaimNothing, WorkerWoken, WorkerTicks,
             WorkerStops
    <2>2. RunOK'
      BY BoundsAssumption DEF RunStates, WorkerLoop, ClaimNothing, WorkerWoken, WorkerTicks,
             WorkerStops
    <2>3. WorkersOK'
      BY BoundsAssumption, HandlerAssumption DEF WorkerStates, FinalizeAttempts, Terminal,
             Never, WorkerLoop, ClaimNothing, WorkerWoken, WorkerTicks, WorkerStops
    <2>4. MemoryOK' /\ ClientsOK' /\ faults' \in 0 .. MaxFaults
      BY BoundsAssumption DEF WorkerLoop, ClaimNothing, WorkerWoken, WorkerTicks,
             WorkerStops
    <2> QED BY <2>1, <2>2, <2>3, <2>4
  <1>2. RowInv'
    BY DEF RowInv, NotStarted, AtMostOnce, Requested, WorkerInv, Fresh, Claimed, Executing,
           WorkerLoop, ClaimNothing, WorkerWoken, WorkerTicks, WorkerStops
  <1>3. Times'
    BY BoundsAssumption DEF Times, Rows, WorkerLoop, ClaimNothing, WorkerWoken, WorkerTicks,
           WorkerStops
  <1>4. WorkerInv'
    BY DEF WorkerInv, Offline, Owners, Claimed, InHand, Ended, Fresh, Owned, Executing,
           InExecution, WorkerLoop, ClaimNothing, WorkerWoken, WorkerTicks, WorkerStops,
           Terminal
  <1>5. FinalInv'
    BY HandlerAssumption DEF FinalInv, Attempts, FewConflicts, WorkerLoop, ClaimNothing,
           WorkerWoken, WorkerTicks, WorkerStops, Terminal
  <1>6. SignalInv'
    BY NobodyAssumption DEF SignalInv, RegistryExact, Signalled, RowInv, Requested,
           WorkerInv, Owners, Offline, Executing, WorkerLoop, ClaimNothing, WorkerWoken,
           WorkerTicks, WorkerStops
  <1> QED BY <1>1, <1>2, <1>3, <1>4, <1>5, <1>6

\* running[id] = cancel.
LEMMA RegisterPreserves ==
    ASSUME IInv, NEW w \in Workers,
           Register(w)
    PROVE  IInv'
  <1>0. /\ wtask[w] \in Tasks
        /\ \A v \in Workers : v # w => wtask[v] # wtask[w]
    BY NobodyAssumption DEF WorkerInv, Owners, Executing, Register
  <1>1. TypeOK'
    BY <1>0, BoundsAssumption, HandlerAssumption DEF RunStates, WorkerStates,
           FinalizeAttempts, FinalInv, FewConflicts, Never, Rows, Register
  <1>2. RowInv'
    BY <1>0 DEF RowInv, NotStarted, AtMostOnce, Requested, WorkerInv, Fresh, Claimed,
           Executing, Register
  <1>3. Times'
    BY <1>0, BoundsAssumption DEF Times, Rows, Register
  <1>4. WorkerInv'
    BY <1>0 DEF WorkerInv, Offline, Owners, Claimed, InHand, Ended, Fresh, Owned, Executing,
           InExecution, Register, Terminal
  <1>5. FinalInv'
    BY <1>0, HandlerAssumption DEF FinalInv, Attempts, FewConflicts, Register, Terminal
  <1>6. SignalInv'
    BY <1>0, NobodyAssumption DEF SignalInv, RegistryExact, Signalled, RowInv, Requested,
           WorkerInv, Owners, Offline, Executing, Register
  <1> QED BY <1>1, <1>2, <1>3, <1>4, <1>5, <1>6

\* The reload sees every request that was made before it.
LEMMA ReloadPreserves ==
    ASSUME IInv, NEW w \in Workers,
           Reload(w)
    PROVE  IInv'
  <1>0. /\ wtask[w] \in Tasks
        /\ \A v \in Workers : v # w => wtask[v] # wtask[w]
    BY NobodyAssumption DEF WorkerInv, Owners, Executing, Reload
  <1>1. TypeOK'
    BY <1>0, BoundsAssumption, HandlerAssumption DEF RunStates, WorkerStates,
           FinalizeAttempts, FinalInv, FewConflicts, Never, Rows, Reload
  <1>2. RowInv'
    BY <1>0 DEF RowInv, NotStarted, AtMostOnce, Requested, WorkerInv, Fresh, Claimed,
           Executing, Reload
  <1>3. Times'
    BY <1>0, BoundsAssumption DEF Times, Rows, Reload
  <1>4. WorkerInv'
    BY <1>0 DEF WorkerInv, Offline, Owners, Claimed, InHand, Ended, Fresh, Owned, Executing,
           InExecution, Reload, Terminal
  <1>5. FinalInv'
    BY <1>0, HandlerAssumption DEF FinalInv, Attempts, FewConflicts, Reload, Terminal
  <1>6. SignalInv'
    BY <1>0, NobodyAssumption DEF SignalInv, RegistryExact, Signalled, RowInv, Requested,
           WorkerInv, Owners, Offline, Executing, Reload
  <1> QED BY <1>1, <1>2, <1>3, <1>4, <1>5, <1>6

\* A failed reload takes the scheduler down.
LEMMA ReloadFailsPreserves ==
    ASSUME IInv, NEW w \in Workers,
           ReloadFails(w)
    PROVE  IInv'
  <1>0. /\ wtask[w] \in Tasks
        /\ \A v \in Workers : v # w => wtask[v] # wtask[w]
    BY NobodyAssumption DEF WorkerInv, Owners, Executing, ReloadFails
  <1>1. TypeOK'
    BY <1>0, BoundsAssumption, HandlerAssumption DEF RunStates, WorkerStates,
           FinalizeAttempts, FinalInv, FewConflicts, Never, Rows, ReloadFails, Fault
  <1>2. RowInv'
    BY <1>0 DEF RowInv, NotStarted, AtMostOnce, Requested, WorkerInv, Fresh, Claimed,
           Executing, ReloadFails, Fault
  <1>3. Times'
    BY <1>0, BoundsAssumption DEF Times, Rows, ReloadFails, Fault
  <1>4. WorkerInv'
    BY <1>0 DEF WorkerInv, Offline, Owners, Claimed, InHand, Ended, Fresh, Owned, Executing,
           InExecution, ReloadFails, Fault, Terminal
  <1>5. FinalInv'
    BY <1>0, HandlerAssumption DEF FinalInv, Attempts, FewConflicts, ReloadFails, Fault,
           Terminal
  <1>6. SignalInv'
    BY <1>0, NobodyAssumption DEF SignalInv, RegistryExact, Signalled, RowInv, Requested,
           WorkerInv, Owners, Offline, Executing, ReloadFails, Fault
  <1> QED BY <1>1, <1>2, <1>3, <1>4, <1>5, <1>6

\* The one start of the handler.
LEMMA StartHandlerPreserves ==
    ASSUME IInv, NEW w \in Workers,
           StartHandler(w)
    PROVE  IInv'
  <1>0. /\ wtask[w] \in Tasks
        /\ \A v \in Workers : v # w => wtask[v] # wtask[w]
    BY NobodyAssumption DEF WorkerInv, Owners, Executing, StartHandler
  <1>1. TypeOK'
    BY <1>0, BoundsAssumption, HandlerAssumption DEF RunStates, WorkerStates,
           FinalizeAttempts, FinalInv, FewConflicts, Never, Rows, StartHandler
  <1>2. RowInv'
    BY <1>0 DEF RowInv, NotStarted, AtMostOnce, Requested, WorkerInv, Fresh, Claimed,
           Executing, StartHandler
  <1>3. Times'
    BY <1>0, BoundsAssumption DEF Times, Rows, StartHandler
  <1>4. WorkerInv'
    BY <1>0 DEF WorkerInv, Offline, Owners, Claimed, InHand, Ended, Fresh, Owned, Executing,
           InExecution, StartHandler, Terminal
  <1>5. FinalInv'
    BY <1>0, HandlerAssumption DEF FinalInv, Attempts, FewConflicts, StartHandler, Terminal
  <1>6. SignalInv'
    BY <1>0, NobodyAssumption DEF SignalInv, RegistryExact, Signalled, RowInv, Requested,
           WorkerInv, Owners, Offline, Executing, StartHandler
  <1> QED BY <1>1, <1>2, <1>3, <1>4, <1>5, <1>6

\* execute decides the final status.
LEMMA HandlerEndsPreserves ==
    ASSUME IInv, NEW w \in Workers,
           SkipHandler(w) \/ HandlerEnds(w)
    PROVE  IInv'
  <1>0. /\ wtask[w] \in Tasks
        /\ \A v \in Workers : v # w => wtask[v] # wtask[w]
    BY NobodyAssumption DEF WorkerInv, Owners, Executing, SkipHandler, HandlerEnds
  <1>1. TypeOK'
    <2>1. DatabaseOK'
      BY <1>0, BoundsAssumption DEF SkipHandler, ToFinalize, ErrorStatus, Terminal,
             HandlerEnds
    <2>2. RunOK'
      BY <1>0, BoundsAssumption DEF RunStates, SkipHandler, ToFinalize, ErrorStatus,
             Terminal, HandlerEnds
    <2>3. WorkersOK'
      BY <1>0, BoundsAssumption, HandlerAssumption DEF WorkerStates, FinalizeAttempts,
             Terminal, Never, SkipHandler, ToFinalize, ErrorStatus, HandlerEnds
    <2>4. MemoryOK' /\ ClientsOK' /\ faults' \in 0 .. MaxFaults
      BY <1>0, BoundsAssumption DEF SkipHandler, ToFinalize, ErrorStatus, Terminal,
             HandlerEnds
    <2> QED BY <2>1, <2>2, <2>3, <2>4
  <1>2. RowInv'
    BY <1>0 DEF RowInv, NotStarted, AtMostOnce, Requested, WorkerInv, Fresh, Claimed,
           Executing, SkipHandler, ToFinalize, ErrorStatus, Terminal, HandlerEnds
  <1>3. Times'
    BY <1>0, BoundsAssumption DEF Times, Rows, SkipHandler, ToFinalize, ErrorStatus,
           Terminal, HandlerEnds
  <1>4. WorkerInv'
    BY <1>0 DEF WorkerInv, Offline, Owners, Claimed, InHand, Ended, Fresh, Owned, Executing,
           InExecution, SkipHandler, ToFinalize, ErrorStatus, Terminal, HandlerEnds
  <1>5. FinalInv'
    BY <1>0, HandlerAssumption DEF FinalInv, Attempts, FewConflicts, SkipHandler,
           ToFinalize, ErrorStatus, Terminal, HandlerEnds
  <1>6. SignalInv'
    BY <1>0, NobodyAssumption DEF SignalInv, RegistryExact, Signalled, RowInv, Requested,
           WorkerInv, Owners, Offline, Executing, SkipHandler, ToFinalize, ErrorStatus,
           Terminal, HandlerEnds
  <1> QED BY <1>1, <1>2, <1>3, <1>4, <1>5, <1>6

\* finalize reads the row: it is RUNNING, whatever happened meanwhile.
LEMMA FinalizeGetPreserves ==
    ASSUME IInv, NEW w \in Workers,
           FinalizeGet(w)
    PROVE  IInv'
  <1>0. /\ wtask[w] \in Tasks
        /\ \A v \in Workers : v # w => wtask[v] # wtask[w]
    BY NobodyAssumption DEF WorkerInv, Owners, Executing, FinalizeGet
  <1>1. TypeOK'
    BY <1>0, BoundsAssumption, HandlerAssumption DEF RunStates, WorkerStates,
           FinalizeAttempts, FinalInv, FewConflicts, Never, Rows, FinalizeGet
  <1>2. RowInv'
    BY <1>0 DEF RowInv, NotStarted, AtMostOnce, Requested, WorkerInv, Fresh, Claimed,
           Executing, FinalizeGet
  <1>3. Times'
    BY <1>0, BoundsAssumption DEF Times, Rows, FinalizeGet
  <1>4. WorkerInv'
    BY <1>0 DEF WorkerInv, Offline, Owners, Claimed, InHand, Ended, Fresh, Owned, Executing,
           InExecution, FinalizeGet, Terminal
  <1>5. FinalInv'
    BY <1>0, HandlerAssumption DEF FinalInv, Attempts, FewConflicts, FinalizeGet, Terminal
  <1>6. SignalInv'
    BY <1>0, NobodyAssumption DEF SignalInv, RegistryExact, Signalled, RowInv, Requested,
           WorkerInv, Owners, Offline, Executing, FinalizeGet
  <1> QED BY <1>1, <1>2, <1>3, <1>4, <1>5, <1>6

\* A conflict is a cancel request, so there is no second one.
LEMMA FinalizeConflictPreserves ==
    ASSUME IInv, NEW w \in Workers,
           FinalizeConflict(w)
    PROVE  IInv'
  <1>0. /\ wtask[w] \in Tasks
        /\ \A v \in Workers : v # w => wtask[v] # wtask[w]
    BY NobodyAssumption DEF WorkerInv, Owners, Executing, FinalizeConflict
  <1>1. TypeOK'
    BY <1>0, BoundsAssumption, HandlerAssumption DEF RunStates, WorkerStates,
           FinalizeAttempts, FinalInv, FewConflicts, Never, Rows, FinalizeConflict
  <1>2. RowInv'
    BY <1>0 DEF RowInv, NotStarted, AtMostOnce, Requested, WorkerInv, Fresh, Claimed,
           Executing, FinalizeConflict
  <1>3. Times'
    BY <1>0, BoundsAssumption DEF Times, Rows, FinalizeConflict
  <1>4. WorkerInv'
    BY <1>0 DEF WorkerInv, Offline, Owners, Claimed, InHand, Ended, Fresh, Owned, Executing,
           InExecution, FinalizeConflict, Terminal
  <1>5. FinalInv'
    BY <1>0, HandlerAssumption DEF FinalInv, Attempts, FewConflicts, FinalizeConflict,
           Terminal
  <1>6. SignalInv'
    BY <1>0, NobodyAssumption DEF SignalInv, RegistryExact, Signalled, RowInv, Requested,
           WorkerInv, Owners, Offline, Executing, FinalizeConflict
  <1> QED BY <1>1, <1>2, <1>3, <1>4, <1>5, <1>6

\* The deferred function of execute.
LEMMA UnregisterPreserves ==
    ASSUME IInv, NEW w \in Workers,
           Unregister(w)
    PROVE  IInv'
  <1>0. /\ wtask[w] \in Tasks
        /\ \A v \in Workers : v # w => wtask[v] # wtask[w]
    BY NobodyAssumption DEF WorkerInv, Owners, Executing, Unregister
  <1>1. TypeOK'
    <2>1. DatabaseOK'
      BY <1>0, BoundsAssumption DEF Unregister, WorkerError
    <2>2. RunOK'
      BY <1>0, BoundsAssumption DEF RunStates, Unregister, WorkerError
    <2>3. WorkersOK'
      BY <1>0, BoundsAssumption, HandlerAssumption DEF WorkerStates, FinalizeAttempts,
             Terminal, Never, Unregister, WorkerError
    <2>4. MemoryOK' /\ ClientsOK' /\ faults' \in 0 .. MaxFaults
      BY <1>0, BoundsAssumption DEF Unregister, WorkerError
    <2> QED BY <2>1, <2>2, <2>3, <2>4
  <1>2. RowInv'
    BY <1>0 DEF RowInv, NotStarted, AtMostOnce, Requested, WorkerInv, Fresh, Claimed,
           Executing, Unregister, WorkerError
  <1>3. Times'
    BY <1>0, BoundsAssumption DEF Times, Rows, Unregister, WorkerError
  <1>4. WorkerInv'
    BY <1>0 DEF WorkerInv, Offline, Owners, Claimed, InHand, Ended, Fresh, Owned, Executing,
           InExecution, Unregister, WorkerError, Terminal
  <1>5. FinalInv'
    BY <1>0, HandlerAssumption DEF FinalInv, Attempts, FewConflicts, Unregister,
           WorkerError, Terminal
  <1>6. SignalInv'
    BY <1>0, NobodyAssumption DEF SignalInv, RegistryExact, Signalled, RowInv, Requested,
           WorkerInv, Owners, Offline, Executing, Unregister, WorkerError
  <1> QED BY <1>1, <1>2, <1>3, <1>4, <1>5, <1>6

-----------------------------------------------------------------------------
(***************************************************************************)
(* The actions that change rows                                            *)
(***************************************************************************)

\* What every statement keeps is enough for the invariant of the rows.
LEMMA RowsKept ==
    ASSUME IInv, TypeOK', \A t \in Tasks : Keeps(rows[t], rows'[t]),
           \A t \in Tasks : canceller'[t] # "none" =>
               canceller[t] # "none" \/ rows'[t].cancelRequested # Never,
           acked' = acked, handled' = handled
    PROVE  RowInv'
  <1>1. NotStarted' BY DEF RowInv, NotStarted, Keeps, Unstarted
  <1>2. AtMostOnce' BY DEF RowInv, AtMostOnce, Keeps
  <1>3. Requested' BY DEF RowInv, Requested, Keeps
  <1> QED BY <1>1, <1>2, <1>3 DEF RowInv

\* The end of the process leaves the rows, and they are as they were.
LEMMA ExitPreserves ==
    ASSUME IInv, Exit, DatabaseOK', clock' = clock, faults' \in 0 .. MaxFaults,
           \A t \in Tasks : Keeps(rows[t], rows'[t]) /\ rows'[t].started = rows[t].started
    PROVE  IInv'
  <1>1. TypeOK'
    <2>1. proc' = "down" /\ recoverNow' = 0 /\ toQueue' = {} /\ ctxDone' = FALSE
      BY DEF Exit, Never
    <2>2. RunOK'
      <3>1. ctxDone' \in BOOLEAN /\ toQueue' \subseteq Tasks BY <2>1
      <3>2. recoverNow' \in 0 .. MaxClock BY <2>1, BoundsAssumption
      <3> QED BY <2>1, <3>1, <3>2
    <2>3. WorkersOK' BY BoundsAssumption DEF Exit, WorkerStates, FinalizeAttempts, Never
    <2>4. MemoryOK' /\ ClientsOK' BY DEF Exit
    <2> QED BY <2>2, <2>3, <2>4
  <1>2. RowInv' BY <1>1, RowsKept DEF Exit
  <1>3. Times' BY DEF Times, Exit
  <1>4. WorkerInv'
    BY DEF WorkerInv, Offline, Owners, Claimed, InHand, Ended, Fresh, Owned, Executing,
           InExecution, Exit
  <1>5. FinalInv' BY DEF FinalInv, Attempts, FewConflicts, Exit
  <1>6. SignalInv' BY NobodyAssumption DEF SignalInv, RegistryExact, Signalled, Exit
  <1> QED BY <1>1, <1>2, <1>3, <1>4, <1>5, <1>6

\* A client's statement or Recover's QueuePending, beside the workers.
LEMMA OutsidePreserves ==
    ASSUME IInv, TypeOK', \A t \in Tasks : Outside(rows[t], rows'[t]),
           \A t \in Tasks : canceller'[t] # "none" =>
               canceller[t] # "none" \/ rows'[t].cancelRequested # Never,
           UNCHANGED <<clock, proc, recoverNow, ctxDone, workerVars, running, cause,
                       acked, handled>>
    PROVE  IInv'
  <1>0. \A w \in Workers : wpc[w] \in Executing => Outside(rows[wtask[w]], rows'[wtask[w]])
    BY DEF WorkerInv, Owners
  <1>1. RowInv' BY RowsKept DEF Outside
  <1>2. Times' BY DEF Times, Outside
  <1>3. WorkerInv'
    <2>1. Offline' /\ Owners' BY DEF WorkerInv, Offline, Owners
    <2>2. Claimed' BY <1>0 DEF WorkerInv, Claimed, Outside
    <2>3. InHand' BY <1>0 DEF WorkerInv, InHand, Outside, Executing, InExecution
    <2>4. Ended' BY <1>0 DEF WorkerInv, Ended, Outside, Executing
    <2>5. Fresh' BY DEF WorkerInv, Fresh
    <2>6. Owned' BY DEF WorkerInv, Owned, Outside
    <2> QED BY <2>1, <2>2, <2>3, <2>4, <2>5, <2>6 DEF WorkerInv
  <1>4. FinalInv'
    <2>1. FewConflicts' BY DEF FinalInv, FewConflicts
    <2>2. ASSUME NEW w \in Workers, wpc[w] \in {"get", "save"}
          PROVE  /\ rows[wtask[w]].status = "RUNNING"
                 /\ rows[wtask[w]].cancelRequested # Never =>
                       /\ rows'[wtask[w]].cancelRequested # Never
                       /\ rows'[wtask[w]].version = rows[wtask[w]].version
                 /\ \/ rows'[wtask[w]].version = rows[wtask[w]].version
                    \/ /\ rows[wtask[w]].cancelRequested = Never
                       /\ rows'[wtask[w]].cancelRequested # Never
      BY <1>0, <2>2 DEF WorkerInv, InHand, Outside, Keeps, Executing, InExecution
    <2>3. Attempts' BY <2>2 DEF FinalInv, Attempts, FewConflicts, FinalizeAttempts
    <2> QED BY <2>1, <2>3 DEF FinalInv
  <1>5. SignalInv' BY DEF SignalInv, RegistryExact, Signalled
  <1> QED BY <1>1, <1>2, <1>3, <1>4, <1>5

\* A statement changes one row.
LEMMA OneRow ==
    ASSUME TypeOK, NEW t \in Tasks, NEW q, Outside(rows[t], q),
           rows' = [rows EXCEPT ![t] = q]
    PROVE  rows' \in [Tasks -> Rows] /\ \A u \in Tasks : Outside(rows[u], rows'[u])
  BY OutsideSame DEF Outside, Keeps

\* Create, Queue, Cancel's statement and Recover's QueuePending, whether they
\* succeed or fail.
LEMMA ClientPreserves ==
    ASSUME IInv, NEW t \in Tasks,
           \/ CreateTask(t) \/ QueueTask(t) \/ QueueTaskFails(t)
           \/ CancelRequest(t) \/ CancelRequestFails(t) \/ RecoverQueue(t)
    PROVE  IInv' /\ \A u \in Tasks : Keeps(rows[u], rows'[u])
  <1>1. rows' \in [Tasks -> Rows] /\ \A u \in Tasks : Outside(rows[u], rows'[u])
    <2>1. CASE CreateTask(t)
      <3>1. Outside(rows[t], CreatedRow(clock))
        BY <2>1, OutsideCreated, BoundsAssumption DEF CreateTask, RowInv, NotStarted, Unstarted
      <3> QED BY <2>1, <3>1, OneRow DEF CreateTask
    <2>2. CASE \/ QueueTask(t) \/ QueueTaskFails(t) \/ RecoverQueue(t)
      <3>1. Outside(rows[t], QueuePending(rows[t])) BY OutsideQueued
      <3>2. rows' = rows \/ rows' = [rows EXCEPT ![t] = QueuePending(rows[t])]
        BY <2>2 DEF QueueTask, QueueTaskFails, RecoverQueue
      <3> QED BY <3>1, <3>2, OneRow, OutsideSame
    <2>3. CASE CancelRequest(t) \/ CancelRequestFails(t)
      <3>1. Outside(rows[t], RequestCancel(rows[t], clock))
        BY OutsideCancelled, BoundsAssumption
      <3>2. rows' = [rows EXCEPT ![t] = RequestCancel(rows[t], clock)]
        BY <2>3 DEF CancelRequest, CancelRequestFails
      <3> QED BY <3>1, <3>2, OneRow
    <2> QED BY <2>1, <2>2, <2>3
  <1>2. TypeOK'
    <2>1. DatabaseOK' /\ RunOK' /\ WorkersOK'
      BY <1>1 DEF CreateTask, QueueTask, QueueTaskFails, CancelRequest, CancelRequestFails,
                  RecoverQueue
    <2>2. MemoryOK'
      BY DEF CreateTask, QueueTask, QueueTaskFails, CancelRequest, CancelRequestFails,
             RecoverQueue, Notify
    <2>3. ClientsOK'
      BY DEF CreateTask, QueueTask, QueueTaskFails, CancelRequest, CancelRequestFails,
             RecoverQueue
    <2>4. faults' \in 0 .. MaxFaults
      BY BoundsAssumption DEF CreateTask, QueueTask, QueueTaskFails, CancelRequest,
                              CancelRequestFails, RecoverQueue, Fault
    <2> QED BY <2>1, <2>2, <2>3, <2>4
  <1>3. \A u \in Tasks : canceller'[u] # "none" =>
           canceller[u] # "none" \/ rows'[u].cancelRequested # Never
    <2>1. CASE CancelRequest(t)
      <3>1. RequestCancel(rows[t], clock).status = "RUNNING"
               => RequestCancel(rows[t], clock).cancelRequested # Never
        BY OutsideCancelled, BoundsAssumption
      <3> QED BY <2>1, <3>1 DEF CancelRequest
    <2> QED BY <2>1 DEF CreateTask, QueueTask, QueueTaskFails, CancelRequestFails, RecoverQueue
  <1>4. IInv'
    BY <1>1, <1>2, <1>3, OutsidePreserves
       DEF CreateTask, QueueTask, QueueTaskFails, CancelRequest, CancelRequestFails, RecoverQueue
  <1> QED BY <1>1, <1>4 DEF Outside

\* InterruptRunning of every row.
LEMMA InterruptedRows ==
    ASSUME IInv, proc = "interrupt", InterruptAll(recoverNow)
    PROVE  /\ rows' \in [Tasks -> Rows]
           /\ \A t \in Tasks : /\ Keeps(rows[t], rows'[t])
                               /\ rows'[t].started = rows[t].started
                               /\ rows'[t].status # "RUNNING"
  <1>1. \A t \in Tasks : rows'[t] = Interrupt(rows[t], recoverNow) /\ rows[t].started <= recoverNow
    BY DEF InterruptAll, Times
  <1>2. recoverNow \in Nat BY BoundsAssumption
  <1>3. \A t \in Tasks : /\ Keeps(rows[t], rows'[t])
                         /\ rows'[t].started = rows[t].started
                         /\ rows'[t].status # "RUNNING"
    BY <1>1, <1>2, InterruptRow
  <1> QED BY <1>3 DEF InterruptAll, Keeps

\* Recover finds no worker, and leaves no RUNNING row.
LEMMA RecoverInterruptPreserves ==
    ASSUME IInv, RecoverInterrupt
    PROVE  IInv' /\ \A t \in Tasks : Keeps(rows[t], rows'[t])
  <1>1. /\ rows' \in [Tasks -> Rows]
        /\ \A t \in Tasks : /\ Keeps(rows[t], rows'[t])
                            /\ rows'[t].started = rows[t].started
                            /\ rows'[t].status # "RUNNING"
    BY InterruptedRows DEF RecoverInterrupt
  <1>2. TypeOK' BY <1>1 DEF RecoverInterrupt, RunStates
  <1>3. RowInv' BY <1>1, <1>2, RowsKept DEF RecoverInterrupt
  <1>4. Times' BY <1>1 DEF Times, RecoverInterrupt
  <1>5. WorkerInv'
    BY <1>1 DEF WorkerInv, Offline, Owners, Claimed, InHand, Ended, Fresh, Owned, Executing,
                InExecution, RecoverInterrupt
  <1>6. FinalInv' BY DEF FinalInv, Attempts, FewConflicts, WorkerInv, Offline, RecoverInterrupt
  <1>7. SignalInv' BY DEF SignalInv, RegistryExact, Signalled, RecoverInterrupt
  <1> QED BY <1>1, <1>2, <1>3, <1>4, <1>5, <1>6, <1>7

\* Every way the process ends.
LEMMA ProcessEnds ==
    ASSUME IInv, \/ Crash \/ RunReturns \/ RecoverFails
                 \/ \E t \in Tasks : RecoverConflict(t)
    PROVE  IInv' /\ \A t \in Tasks : Keeps(rows[t], rows'[t])
  <1>1. Exit /\ clock' = clock
    BY DEF Crash, RunReturns, RecoverFails, RecoverConflict
  <1>2. faults' \in 0 .. MaxFaults
    BY BoundsAssumption DEF Crash, RunReturns, RecoverFails, RecoverConflict, Fault
  <1>3. /\ rows' \in [Tasks -> Rows]
        /\ \A t \in Tasks : Keeps(rows[t], rows'[t]) /\ rows'[t].started = rows[t].started
    <2>1. CASE UNCHANGED rows BY <2>1, OutsideSame DEF Outside
    <2>2. CASE proc = "interrupt" /\ InterruptAll(recoverNow) BY <2>2, InterruptedRows
    <2>3. CASE \E t \in toQueue : rows' = [rows EXCEPT ![t] = QueuePending(@)]
      <3>1. PICK t \in Tasks : rows' = [rows EXCEPT ![t] = QueuePending(rows[t])] BY <2>3
      <3>2. Outside(rows[t], QueuePending(rows[t])) BY OutsideQueued
      <3> QED BY <3>1, <3>2, OneRow DEF Outside
    <2> QED BY <2>1, <2>2, <2>3 DEF Crash, RunReturns, RecoverFails, RecoverConflict
  <1> QED BY <1>1, <1>2, <1>3, ExitPreserves

\* The claim of a row: nobody has it, and it was never handled.
LEMMA ClaimedRow ==
    ASSUME IInv, NEW w \in Workers, wpc[w] = "claim", NEW t \in Candidates(w),
           rows' = [rows EXCEPT ![t] = Claim(@, wnow[w])]
    PROVE  /\ t \in Tasks
           /\ rows' \in [Tasks -> Rows]
           /\ \A u \in Tasks : Keeps(rows[u], rows'[u])
           /\ \A u \in Tasks : u # t => rows'[u] = rows[u]
           /\ rows'[t].status = "RUNNING"
           /\ rows'[t].started # Never /\ rows'[t].started <= clock
           /\ handled[t] = 0
           /\ \A v \in Workers : wtask[v] # t
  <1>1. t \in Tasks /\ rows[t].status = "QUEUED" BY DEF Candidates, Queued
  <1>2. rows[t].started = Never BY <1>1 DEF RowInv, NotStarted, Unstarted
  <1>3. wnow[w] \in Nat /\ wnow[w] # Never /\ wnow[w] <= clock
    BY BoundsAssumption DEF Times, Never
  <1>4. /\ Keeps(rows[t], Claim(rows[t], wnow[w]))
        /\ Claim(rows[t], wnow[w]).status = "RUNNING"
        /\ Claim(rows[t], wnow[w]).started = wnow[w]
    BY <1>1, <1>2, <1>3, ClaimRow
  <1>5. rows'[t] = Claim(rows[t], wnow[w]) /\ \A u \in Tasks : u # t => rows'[u] = rows[u]
    BY <1>1
  <1>6. \A u \in Tasks : Keeps(rows[u], rows'[u])
    BY <1>4, <1>5, OutsideSame DEF Outside
  <1>7. rows' \in [Tasks -> Rows] BY <1>1, <1>4 DEF Keeps
  <1>8. handled[t] = 0 BY <1>1, <1>2 DEF RowInv, AtMostOnce
  <1>9. \A v \in Workers : wtask[v] # t
    BY <1>1, <1>2, NobodyAssumption DEF WorkerInv, Owners, Claimed
  <1> QED BY <1>1, <1>3, <1>4, <1>5, <1>6, <1>7, <1>8, <1>9

\* A claim that takes the worker into execute.
LEMMA ClaimPreserves ==
    ASSUME IInv, NEW w \in Workers, ClaimNextQueued(w),
           wpc'[w] = "register"
    PROVE  IInv' /\ \A t \in Tasks : Keeps(rows[t], rows'[t])
  <1>1. PICK t \in Candidates(w) :
           /\ rows' = [rows EXCEPT ![t] = Claim(@, wnow[w])]
           /\ wtask' = [wtask EXCEPT ![w] = t]
           /\ wpc' = [wpc EXCEPT ![w] = "register"]
           /\ ctxDone' = ctxDone
    BY DEF ClaimNextQueued, WorkerError
  <1>2. /\ t \in Tasks
        /\ rows' \in [Tasks -> Rows]
        /\ \A u \in Tasks : Keeps(rows[u], rows'[u])
        /\ \A u \in Tasks : u # t => rows'[u] = rows[u]
        /\ rows'[t].status = "RUNNING"
        /\ rows'[t].started # Never /\ rows'[t].started <= clock
        /\ handled[t] = 0
        /\ \A v \in Workers : wtask[v] # t
    BY <1>1, ClaimedRow DEF ClaimNextQueued
  <1>3. wpc[w] = "claim" /\ proc = "running"
    BY DEF ClaimNextQueued, WorkerInv, Offline
  <1>4. TypeOK'
    <2>1. WorkersOK' BY <1>1, <1>2, BoundsAssumption DEF ClaimNextQueued, WorkerStates, Never
    <2> QED BY <1>1, <1>2, <2>1 DEF ClaimNextQueued
  <1>5. RowInv' BY <1>2, <1>4, RowsKept DEF ClaimNextQueued
  <1>6. Times' BY <1>1, <1>2, <1>3 DEF Times, ClaimNextQueued
  <1>7. WorkerInv'
    <2>1. Offline' BY <1>3 DEF Offline, ClaimNextQueued
    <2>2. Owners' BY <1>1, <1>2, NobodyAssumption DEF WorkerInv, Owners, Executing
    <2>3. Claimed' /\ InHand'
      BY <1>1, <1>2, <1>3 DEF WorkerInv, Owners, Claimed, InHand, Executing, InExecution
    <2>4. Ended' BY <1>1, <1>2, <1>3 DEF WorkerInv, Owners, Ended, Executing
    <2>5. Fresh' BY <1>1, <1>2, <1>3 DEF WorkerInv, Owners, Fresh, Executing, ClaimNextQueued
    <2>6. Owned'
      <3>1. wtask[w] = Nobody BY <1>3 DEF WorkerInv, Owners, Executing
      <3> QED BY <1>1, <1>2, <1>3, <3>1, NobodyAssumption DEF WorkerInv, Owned, ClaimNextQueued
    <2> QED BY <2>1, <2>2, <2>3, <2>4, <2>5, <2>6 DEF WorkerInv
  <1>8. FinalInv'
    BY <1>1, <1>2, <1>3 DEF FinalInv, Attempts, FewConflicts, WorkerInv, Owners, Executing,
                            ClaimNextQueued
  <1>9. SignalInv'
    <2>1. \A v \in Workers : running[t] # v
      BY <1>2 DEF SignalInv, RegistryExact
    <2>2. wtask[w] = Nobody BY <1>3 DEF WorkerInv, Owners, Executing
    <2>3. RegistryExact'
      BY <1>1, <1>2, <1>3, <2>1, <2>2, NobodyAssumption DEF SignalInv, RegistryExact, ClaimNextQueued
    <2>4. Signalled' BY <1>1, <1>2, <1>3 DEF SignalInv, Signalled, ClaimNextQueued
    <2> QED BY <2>3, <2>4 DEF SignalInv
  <1> QED BY <1>2, <1>4, <1>5, <1>6, <1>7, <1>8, <1>9

\* A claim that fails, or whose row does not validate, takes the scheduler
\* down; the row may be RUNNING all the same, for the next Recover.
LEMMA ClaimErrorPreserves ==
    ASSUME IInv, NEW w \in Workers,
           ClaimFails(w) \/ (ClaimNextQueued(w) /\ wpc'[w] # "register")
    PROVE  IInv' /\ \A t \in Tasks : Keeps(rows[t], rows'[t])
  <1>1. /\ wpc[w] = "claim"
        /\ wpc' = [wpc EXCEPT ![w] = "stopped"]
        /\ wtask' = wtask /\ ctxDone' = TRUE
        /\ UNCHANGED <<clock, proc, recoverNow, toQueue, wversion, wfinal, wtry, memVars,
                       clientVars, handled>>
        /\ wnow' = [wnow EXCEPT ![w] = Never]
    BY DEF ClaimFails, ClaimNextQueued, WorkerError
  <1>2. proc = "running" BY <1>1 DEF WorkerInv, Offline
  <1>3. rows' = rows \/ \E t \in Candidates(w) : rows' = [rows EXCEPT ![t] = Claim(@, wnow[w])]
    BY DEF ClaimFails, ClaimNextQueued
  <1>4. /\ rows' \in [Tasks -> Rows]
        /\ \A u \in Tasks : Keeps(rows[u], rows'[u]) /\ rows'[u].started <= clock
        /\ \A v \in Workers : wtask[v] # Nobody => rows'[wtask[v]] = rows[wtask[v]]
    <2>1. CASE rows' = rows BY <2>1, OutsideSame DEF Outside, Times
    <2>2. ASSUME NEW t \in Candidates(w), rows' = [rows EXCEPT ![t] = Claim(@, wnow[w])]
          PROVE  /\ rows' \in [Tasks -> Rows]
                 /\ \A u \in Tasks : Keeps(rows[u], rows'[u]) /\ rows'[u].started <= clock
                 /\ \A v \in Workers : wtask[v] # Nobody => rows'[wtask[v]] = rows[wtask[v]]
      <3>1. /\ t \in Tasks
            /\ rows' \in [Tasks -> Rows]
            /\ \A u \in Tasks : Keeps(rows[u], rows'[u])
            /\ \A u \in Tasks : u # t => rows'[u] = rows[u]
            /\ rows'[t].started <= clock
            /\ \A v \in Workers : wtask[v] # t
        BY <1>1, <2>2, ClaimedRow
      <3>2. \A u \in Tasks : rows'[u].started <= clock BY <3>1 DEF Times
      <3> QED BY <3>1, <3>2
    <2> QED BY <1>3, <2>1, <2>2
  <1>5. TypeOK'
    <2>1. WorkersOK' BY <1>1, BoundsAssumption DEF WorkerStates, Never
    <2>2. RunOK' /\ MemoryOK' /\ ClientsOK' BY <1>1
    <2>3. faults' \in 0 .. MaxFaults BY BoundsAssumption DEF ClaimFails, ClaimNextQueued, Fault
    <2> QED BY <1>1, <1>4, <2>1, <2>2, <2>3
  <1>6. RowInv' BY <1>1, <1>4, <1>5, RowsKept
  <1>7. Times' BY <1>1, <1>2, <1>4 DEF Times
  <1>8. WorkerInv'
    BY <1>1, <1>2, <1>4 DEF WorkerInv, Offline, Owners, Claimed, InHand, Ended, Fresh, Owned,
                            Executing, InExecution
  <1>9. FinalInv'
    BY <1>1, <1>4 DEF FinalInv, Attempts, FewConflicts, WorkerInv, Owners, Executing
  <1>10. SignalInv' BY <1>1 DEF SignalInv, RegistryExact, Signalled
  <1> QED BY <1>4, <1>5, <1>6, <1>7, <1>8, <1>9, <1>10

\* Save: the worker ends its own RUNNING row; a failed one may have.
LEMMA SavePreserves ==
    ASSUME IInv, NEW w \in Workers, FinalizeSave(w) \/ FinalizeFails(w)
    PROVE  IInv' /\ \A t \in Tasks : Keeps(rows[t], rows'[t])
  <1>1. /\ wtask[w] \in Tasks
        /\ \A v \in Workers : v # w => wtask[v] # wtask[w]
        /\ wfinal[w] \in Terminal
    BY NobodyAssumption DEF WorkerInv, Owners, Executing, FinalInv, Attempts, FinalizeSave,
                            FinalizeFails
  <1>2. /\ wpc[w] \in {"get", "save"}
        /\ \/ wpc' = [wpc EXCEPT ![w] = "unregister"]
           \/ wpc' = [wpc EXCEPT ![w] = "bail"]
        /\ UNCHANGED <<clock, runVars, wtask, wnow, wversion, wfinal, wtry, memVars,
                       clientVars, handled>>
    BY DEF FinalizeSave, FinalizeFails
  <1>3. proc = "running" BY <1>2 DEF WorkerInv, Offline
  <1>4. \/ rows' = rows /\ wpc' = [wpc EXCEPT ![w] = "bail"]
        \/ CanFinalize(w) /\ rows' = [rows EXCEPT ![wtask[w]] = Finalized(w)]
    BY DEF FinalizeSave, FinalizeFails
  <1>5. CanFinalize(w) => Keeps(rows[wtask[w]], Finalized(w)) /\ Finalized(w).status \in Terminal
                          /\ Finalized(w).started = rows[wtask[w]].started
    BY <1>1, TransitionRow, BoundsAssumption DEF CanFinalize, Finalized
  <1>6. /\ rows' \in [Tasks -> Rows]
        /\ \A t \in Tasks : Keeps(rows[t], rows'[t]) /\ rows'[t].started = rows[t].started
        /\ \A t \in Tasks : t # wtask[w] => rows'[t] = rows[t]
        /\ \A t \in Tasks : rows'[t].status = "RUNNING" => rows[t].status = "RUNNING"
        /\ wpc'[w] = "unregister" => rows'[wtask[w]].status \in Terminal
    <2>1. CASE rows' = rows /\ wpc' = [wpc EXCEPT ![w] = "bail"]
      BY <2>1, OutsideSame DEF Outside
    <2>2. CASE CanFinalize(w) /\ rows' = [rows EXCEPT ![wtask[w]] = Finalized(w)]
      BY <1>1, <1>5, <2>2, OutsideSame DEF Outside, Keeps, Terminal
    <2> QED BY <1>4, <2>1, <2>2
  <1>7. TypeOK'
    <2>1. WorkersOK' BY <1>2 DEF WorkerStates
    <2>2. RunOK' /\ MemoryOK' /\ ClientsOK' BY <1>2
    <2>3. faults' \in 0 .. MaxFaults BY BoundsAssumption DEF FinalizeSave, FinalizeFails, Fault
    <2> QED BY <1>2, <1>6, <2>1, <2>2, <2>3
  <1>8. RowInv' BY <1>2, <1>6, <1>7, RowsKept
  <1>9. Times' BY <1>2, <1>6 DEF Times
  <1>10. WorkerInv'
    <2>1. Offline' /\ Owners' BY <1>2, <1>3 DEF WorkerInv, Offline, Owners, Executing
    <2>2. Claimed' /\ InHand' /\ Ended' /\ Fresh'
      BY <1>1, <1>2, <1>6 DEF WorkerInv, Owners, Claimed, InHand, Ended, Fresh, Executing, InExecution
    <2>3. Owned' BY <1>2, <1>6 DEF WorkerInv, Owned
    <2> QED BY <2>1, <2>2, <2>3 DEF WorkerInv
  <1>11. FinalInv'
    BY <1>1, <1>2, <1>6 DEF FinalInv, Attempts, FewConflicts, WorkerInv, Owners, Executing
  <1>12. SignalInv' BY <1>2 DEF SignalInv, RegistryExact, Signalled
  <1> QED BY <1>6, <1>7, <1>8, <1>9, <1>10, <1>11, <1>12

-----------------------------------------------------------------------------
(***************************************************************************)
(* The theorems                                                            *)
(***************************************************************************)

\* An empty table and no process satisfy the invariant.
LEMMA InitEstablishes ==
    ASSUME Init
    PROVE  IInv
  <1>1. NoRow \in Rows BY DEF NoRow, Rows, Never
  <1>2. TypeOK
    <2>1. DatabaseOK BY <1>1, BoundsAssumption DEF Init
    <2>2. RunOK
      <3>1. ctxDone \in BOOLEAN /\ toQueue \subseteq Tasks BY DEF Init
      <3>2. recoverNow \in 0 .. MaxClock BY BoundsAssumption DEF Init, Never
      <3> QED BY <3>1, <3>2 DEF Init
    <2>3. WorkersOK BY BoundsAssumption DEF Init, WorkerStates, FinalizeAttempts, Never
    <2>4. MemoryOK /\ ClientsOK BY DEF Init
    <2>5. faults \in 0 .. MaxFaults BY BoundsAssumption DEF Init
    <2> QED BY <2>1, <2>2, <2>3, <2>4, <2>5
  <1>3. RowInv BY DEF RowInv, NotStarted, AtMostOnce, Requested, Init, NoRow
  <1>4. Times BY DEF Times, Init, NoRow, Never
  <1>5. WorkerInv
    BY DEF WorkerInv, Offline, Owners, Claimed, InHand, Ended, Fresh, Owned, Executing,
           InExecution, Init
  <1>6. FinalInv BY DEF FinalInv, Attempts, FewConflicts, Init
  <1>7. SignalInv BY NobodyAssumption DEF SignalInv, RegistryExact, Signalled, Init
  <1> QED BY <1>2, <1>3, <1>4, <1>5, <1>6, <1>7

\* Every step keeps the invariant and moves every row along the table.
LEMMA NextPreserves ==
    ASSUME IInv, [Next]_vars
    PROVE  IInv' /\ \A t \in Tasks : Keeps(rows[t], rows'[t])
  <1>0. rows' = rows => \A t \in Tasks : Keeps(rows[t], rows'[t])
    BY OutsideSame DEF Outside
  <1>1. CASE Tick \/ Start \/ Shutdown \/ RecoverBegin \/ RecoverList
    BY <1>0, <1>1, ClockworkPreserves DEF Tick, Start, Shutdown, RecoverBegin, RecoverList
  <1>2. CASE StartWorkers
    BY <1>0, <1>2, StartWorkersPreserves DEF StartWorkers
  <1>3. CASE Crash \/ RunReturns \/ RecoverFails \/ \E t \in Tasks : RecoverConflict(t)
    BY <1>3, ProcessEnds
  <1>4. CASE RecoverInterrupt
    BY <1>4, RecoverInterruptPreserves
  <1>5. ASSUME NEW t \in Tasks,
               \/ CreateTask(t) \/ (\E source \in Tasks : Retry(source, t))
               \/ QueueTask(t) \/ QueueTaskFails(t)
               \/ CancelRequest(t) \/ CancelRequestFails(t) \/ RecoverQueue(t)
        PROVE  IInv' /\ \A u \in Tasks : Keeps(rows[u], rows'[u])
    BY <1>5, ClientPreserves DEF Retry
  <1>6. ASSUME NEW t \in Tasks, CancelLookup(t) \/ CancelCall(t)
        PROVE  IInv' /\ \A u \in Tasks : Keeps(rows[u], rows'[u])
    BY <1>0, <1>6, CancelSignalsPreserves DEF CancelLookup, CancelCall
  <1>7. ASSUME NEW w \in Workers, WorkerStep(w) \/ ClaimFails(w) \/ ReloadFails(w) \/ FinalizeFails(w)
        PROVE  IInv' /\ \A u \in Tasks : Keeps(rows[u], rows'[u])
    <2>1. CASE \/ WorkerLoop(w) \/ ClaimNothing(w)
               \/ WorkerWoken(w) \/ WorkerTicks(w) \/ WorkerStops(w)
      BY <1>0, <2>1, IdlePreserves
         DEF WorkerLoop, ClaimNothing, WorkerWoken, WorkerTicks, WorkerStops
    <2>2. CASE ClaimNextQueued(w) \/ ClaimFails(w)
      BY <2>2, ClaimPreserves, ClaimErrorPreserves
    <2>3. CASE Register(w)
      BY <1>0, <2>3, RegisterPreserves DEF Register
    <2>4. CASE Reload(w) \/ ReloadFails(w)
      BY <1>0, <2>4, ReloadPreserves, ReloadFailsPreserves DEF Reload, ReloadFails
    <2>5. CASE StartHandler(w)
      BY <1>0, <2>5, StartHandlerPreserves DEF StartHandler
    <2>6. CASE SkipHandler(w) \/ HandlerEnds(w)
      BY <1>0, <2>6, HandlerEndsPreserves DEF SkipHandler, HandlerEnds
    <2>7. CASE FinalizeGet(w)
      BY <1>0, <2>7, FinalizeGetPreserves DEF FinalizeGet
    <2>8. CASE FinalizeConflict(w)
      BY <1>0, <2>8, FinalizeConflictPreserves DEF FinalizeConflict
    <2>9. CASE FinalizeSave(w) \/ FinalizeFails(w)
      BY <2>9, SavePreserves
    <2>10. CASE Unregister(w)
      BY <1>0, <2>10, UnregisterPreserves DEF Unregister
    <2> QED BY <1>7, <2>1, <2>2, <2>3, <2>4, <2>5, <2>6, <2>7, <2>8, <2>9, <2>10 DEF WorkerStep
  <1>8. CASE UNCHANGED vars
    <2>1. TypeOK' /\ RowInv' /\ Times'
      BY <1>8 DEF vars, RowInv, NotStarted, AtMostOnce, Requested, Times
    <2>2. WorkerInv'
      BY <1>8 DEF vars, WorkerInv, Offline, Owners, Claimed, InHand, Ended, Fresh, Owned
    <2>3. FinalInv' /\ SignalInv'
      BY <1>8 DEF vars, FinalInv, Attempts, FewConflicts, SignalInv, RegistryExact, Signalled
    <2> QED BY <1>0, <1>8, <2>1, <2>2, <2>3 DEF vars
  <1>9. CASE Next
    BY <1>1, <1>2, <1>3, <1>4, <1>5, <1>6, <1>7, <1>9 DEF Next, Recovery
  <1> QED BY <1>8, <1>9

\* The inductive invariant holds in every behaviour of the scheduler.
THEOREM Inductive == Spec => []IInv
  <1>1. Init => IInv BY InitEstablishes
  <1>2. IInv /\ [Next]_vars => IInv' BY NextPreserves
  <1> QED BY <1>1, <1>2, PTL DEF Spec

\* The type invariant, for every number of tasks, workers and faults.
THEOREM TypeCorrect == Spec => []TypeOK
  <1>1. IInv => TypeOK OBVIOUS
  <1> QED BY <1>1, Inductive, PTL

\* A task's handler is started at most once, over any number of workers,
\* crashes, shutdowns and recoveries, and only after a claim.
THEOREM HandledAtMostOnce == Spec => []AtMostOnce
  <1>1. IInv => AtMostOnce BY DEF RowInv
  <1> QED BY <1>1, Inductive, PTL

\* Until its worker has saved the result, a claimed row stays RUNNING: no
\* cancel, no other worker and no recovery takes it away.
THEOREM ResultsAreKept == Spec => []ResultIsKept
  <1>1. IInv => ResultIsKept BY DEF WorkerInv, InHand, InExecution, ResultIsKept
  <1> QED BY <1>1, Inductive, PTL

\* finalize meets at most one conflict, so its three attempts suffice.
THEOREM AtMostOneConflict == Spec => []FewConflicts
  <1>1. IInv => FewConflicts BY DEF FinalInv
  <1> QED BY <1>1, Inductive, PTL

\* The running map names a worker exactly while it executes the task.
THEOREM RegistryIsExact == Spec => []RegistryExact
  <1>1. IInv => RegistryExact BY DEF SignalInv
  <1> QED BY <1>1, Inductive, PTL

\* A Cancel that returned a RUNNING task has cancelled the handler's context,
\* wherever it fell between the claim, the registration and the reload.
THEOREM CancelsReachHandlers == Spec => []CancelReachesHandler
  <1>1. IInv => CancelReachesHandler BY DEF SignalInv, Signalled, CancelReachesHandler
  <1> QED BY <1>1, Inductive, PTL

\* While the scheduler runs, every RUNNING row has exactly one worker.
THEOREM RunningRowsAreOwned == Spec => []RunningIsOwned
  <1>1. ASSUME IInv, proc = "running", ~ctxDone, NEW t \in Tasks, rows[t].status = "RUNNING"
        PROVE  Cardinality({w \in Workers : wtask[w] = t}) = 1
    <2>1. PICK w \in Workers : wtask[w] = t BY <1>1 DEF WorkerInv, Owned
    <2>2. {v \in Workers : wtask[v] = t} = {w}
      BY <1>1, <2>1, NobodyAssumption DEF WorkerInv, Owners
    <2> QED BY <2>2, FS_Singleton
  <1>2. IInv => RunningIsOwned BY <1>1 DEF RunningIsOwned
  <1> QED BY <1>2, Inductive, PTL

\* The scheduler, its clients, crashes and recoveries included, implements the
\* task machine: rows move along allowedTransitions and an ended task stays as
\* it ended.
THEOREM RefinesTaskMachine == Spec => ImplementsTaskMachine
  <1>1. Init => Machine!Init
    BY DEF Init, Machine!Init, NoRow, NoTask, Machine!NoTask
  <1>2. IInv /\ [Next]_vars => [Machine!Next]_([t \in Tasks |-> rows[t].status])
    <2> SUFFICES ASSUME IInv, [Next]_vars PROVE Machine!Next
      OBVIOUS
    <2>1. \A t \in Tasks : Keeps(rows[t], rows'[t]) BY NextPreserves
    <2>2. \A t \in Tasks : Moves(rows[t], rows'[t]) /\ rows'[t].status \in Statuses \cup {NoTask}
      BY <2>1 DEF Keeps, Rows
    <2>3. /\ Machine!NoTask = NoTask /\ Machine!Statuses = Statuses
          /\ \A from, to : Machine!CanTransitionTo(from, to) <=> CanTransitionTo(from, to)
      BY DEF NoTask, Machine!NoTask, Statuses, Machine!Statuses, Terminal, Machine!Terminal,
             CanTransitionTo, Machine!CanTransitionTo, AllowedTransitions,
             Machine!AllowedTransitions
    <2> QED BY <2>2, <2>3 DEF Machine!Next, Machine!Move, Moves
  <1> QED BY <1>1, <1>2, Inductive, PTL DEF Spec, ImplementsTaskMachine, Machine!Spec
=============================================================================
