---------------------------- MODULE TaskLifecycle ----------------------------
(***************************************************************************)
(* A task row: the statuses and the transition table of                    *)
(* internal/domain/task/task.go, Task.Validate and Task.Transition, and    *)
(* the UPDATE statements of internal/infrastructure/postgres/              *)
(* task_repository.go as operators from a row to a row.                    *)
(*                                                                         *)
(* A row keeps the columns the statements and the checks read: status,     *)
(* version and the four timestamps.  Times are positive naturals of one    *)
(* clock; Never is the SQL NULL.                                           *)
(***************************************************************************)
EXTENDS Naturals

Never == 0

Terminal == {"SUCCESS", "PARTIAL_SUCCESS", "FAILED", "CANCELLED", "INTERRUPTED"}
Statuses == {"PENDING", "QUEUED", "RUNNING"} \cup Terminal

\* Not a status: the row does not exist.
NoTask == "NONE"

\* allowedTransitions.
AllowedTransitions ==
    ({"PENDING"} \X {"QUEUED", "CANCELLED"})
    \cup ({"QUEUED"} \X {"RUNNING", "CANCELLED"})
    \cup ({"RUNNING"} \X Terminal)

CanTransitionTo(from, to) == <<from, to>> \in AllowedTransitions

Rows == [status : Statuses \cup {NoTask}, version : Nat, created : Nat,
         started : Nat, finished : Nat, cancelRequested : Nat]

NoRow == [status |-> NoTask, version |-> 0, created |-> Never,
          started |-> Never, finished |-> Never, cancelRequested |-> Never]

-----------------------------------------------------------------------------
(***************************************************************************)
(* Task.Validate, the part about status and timestamps                     *)
(***************************************************************************)

\* "task start time cannot precede created time"
StartNotBeforeCreation(r) == r.started # Never => r.started >= r.created

\* "task cancellation request cannot follow finish time"
CancelNotAfterFinish(r) ==
    r.cancelRequested # Never /\ r.finished # Never => r.cancelRequested <= r.finished

Validate(r) ==
    /\ r.version >= 1
    /\ StartNotBeforeCreation(r)
    /\ r.finished # Never /\ r.started = Never => r.status = "CANCELLED"
    /\ r.finished # Never /\ r.started # Never => r.finished >= r.started
    /\ r.cancelRequested # Never => r.cancelRequested >= r.created
    /\ CancelNotAfterFinish(r)
    /\ r.status \in {"PENDING", "QUEUED"} => r.started = Never
    /\ r.status = "RUNNING" => r.started # Never
    /\ (r.status \in Terminal) = (r.finished # Never)

\* Task.Transition for a row that was read as valid: legality, the clock, the
\* timestamps and the version.  CanTransition is its error checks.
CanTransition(r, next, at) ==
    /\ CanTransitionTo(r.status, next)
    /\ at >= r.created
    /\ next \in Terminal /\ next # "CANCELLED" => r.started # Never

Transition(r, next, at) ==
    [r EXCEPT !.status = next,
              !.started = IF next = "RUNNING" THEN at ELSE @,
              !.finished = IF next \in Terminal THEN at ELSE @,
              !.version = @ + 1]

-----------------------------------------------------------------------------
(***************************************************************************)
(* The statements of TaskRepository                                        *)
(***************************************************************************)

\* Create: a PENDING row at version 1.
CreatedRow(at) == [NoRow EXCEPT !.status = "PENDING", !.version = 1, !.created = at]

\* QueuePending: WHERE status='PENDING'.
QueuePending(r) ==
    IF r.status = "PENDING" THEN [r EXCEPT !.status = "QUEUED", !.version = @ + 1] ELSE r

\* RequestCancel: the WHERE clause ...
CancelApplies(r) ==
    \/ r.status \in {"PENDING", "QUEUED"}
    \/ r.status = "RUNNING" /\ r.cancelRequested = Never

\* Mutants: every repeated request bumps the version again; a request for a
\* RUNNING task cancels the row at once.
RequestCancelBumping(r, at) ==
    IF r.status \in {"PENDING", "QUEUED"}
    THEN [r EXCEPT !.status = "CANCELLED", !.cancelRequested = at,
                   !.finished = at, !.version = @ + 1]
    ELSE IF r.status = "RUNNING"
         THEN [r EXCEPT !.cancelRequested = at, !.version = @ + 1] ELSE r
RequestCancelForcing(r, at) ==
    IF CancelApplies(r)
    THEN [r EXCEPT !.status = "CANCELLED", !.cancelRequested = at,
                   !.finished = at, !.version = @ + 1]
    ELSE r

\* ... and the SET clause: a task that did not start is cancelled, a RUNNING
\* one gets a cooperative request.
RequestCancel(r, at) ==
    IF ~CancelApplies(r) THEN r
    ELSE IF r.status = "RUNNING"
    THEN [r EXCEPT !.cancelRequested = at, !.version = @ + 1]
    ELSE [r EXCEPT !.status = "CANCELLED", !.cancelRequested = at,
                   !.finished = at, !.version = @ + 1]

\* ClaimNextQueued, for the candidate row.
Claim(r, at) == [r EXCEPT !.status = "RUNNING", !.started = at, !.version = @ + 1]

\* InterruptRunning: WHERE status='RUNNING' AND started_at <= at.
Interrupt(r, at) ==
    IF r.status = "RUNNING" /\ r.started <= at
    THEN [r EXCEPT !.status = "INTERRUPTED", !.finished = at, !.version = @ + 1]
    ELSE r
=============================================================================
