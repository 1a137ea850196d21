----------------------------- MODULE TaskMachine -----------------------------
(***************************************************************************)
(* What the task store promises its clients, whatever workers, cancels,    *)
(* crashes and recoveries do: a task is created PENDING, moves along       *)
(* allowedTransitions of internal/domain/task/task.go one step at a time,  *)
(* and a terminal status is its last ("Terminal reports whether no further *)
(* state transition is permitted").  Recovery may move several tasks at    *)
(* once.                                                                   *)
(***************************************************************************)
EXTENDS TaskLifecycle

CONSTANT Tasks
VARIABLE status

Init == status = [t \in Tasks |-> NoTask]

Move(t) ==
    \/ status'[t] = status[t]
    \/ status[t] = NoTask /\ status'[t] = "PENDING"
    \/ CanTransitionTo(status[t], status'[t])

Next ==
    /\ status' \in [Tasks -> Statuses \cup {NoTask}]
    /\ \A t \in Tasks : Move(t)

Spec == Init /\ [][Next]_status
=============================================================================
