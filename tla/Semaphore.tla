------------------------------ MODULE Semaphore ------------------------------
(***************************************************************************)
(* One Semaphore of internal/concurrency/semaphore.go and the goroutines   *)
(* that call Acquire(ctx) and Permit.Release() on it.  A step is a         *)
(* critical section under Semaphore.mu, a read of the context, or a choice *)
(* of the select; a context may be cancelled between any two of them.      *)
(***************************************************************************)
EXTENDS SemaphoreOps, FiniteSets

CONSTANTS Callers,    \* the goroutines that share the semaphore
          Capacity    \* NewSemaphore's argument

\* NewSemaphore rejects a capacity that is not positive.
ASSUME CapacityAssumption == Capacity \in Nat \ {0}
ASSUME CallersAssumption == IsFiniteSet(Callers)

VARIABLES sem,        \* the semaphore (see SemaphoreOps)
          pc,         \* where each caller is
          cancelled   \* whether the context of its current call is done

vars == <<sem, pc, cancelled>>

(***************************************************************************)
(* "idle"      outside Acquire, without a permit                           *)
(* "checked"   ctx.Err() was nil, the lock not taken yet                   *)
(* "waiting"   in the select                                               *)
(* "givingUp"  took the <-ready branch, found ctx done: before releaseOne  *)
(* "aborting"  took the <-ctx.Done() branch: before its critical section   *)
(* "holding"   has a permit                                                *)
(* "released"  has called Release and still keeps the used permit          *)
(***************************************************************************)
PCs == {"idle", "checked", "waiting", "givingUp", "aborting", "holding", "released"}

Init ==
    /\ sem = NewSemaphore
    /\ pc = [c \in Callers |-> "idle"]
    /\ cancelled = [c \in Callers |-> FALSE]

Goto(c, label) == pc' = [pc EXCEPT ![c] = label]

\* The caller's context is cancelled, before the call or at any time in it.
CancelContext(c) ==
    /\ pc[c] # "released"
    /\ ~cancelled[c]
    /\ cancelled' = [cancelled EXCEPT ![c] = TRUE]
    /\ UNCHANGED <<sem, pc>>

\* A call that ends in ctx.Err(): the next call has a context of its own.
Fail(c) ==
    /\ Goto(c, "idle")
    /\ cancelled' = [cancelled EXCEPT ![c] = FALSE]

\* Acquire, the entry: a context that is already done fails the call before it
\* touches the semaphore.
AcquireEnter(c) ==
    /\ pc[c] = "idle"
    /\ IF cancelled[c] THEN Fail(c) ELSE Goto(c, "checked") /\ UNCHANGED cancelled
    /\ UNCHANGED sem

\* Acquire, its critical section: the fast path or the queue.
AcquireLock(c) ==
    /\ pc[c] = "checked"
    /\ IF CanTake(sem, Capacity)
       THEN sem' = Take(sem) /\ Goto(c, "holding")
       ELSE sem' = Enqueue(sem, c) /\ Goto(c, "waiting")
    /\ UNCHANGED cancelled

\* The <-ready branch of the select.  "Prefer cancellation": a caller whose
\* context is done as well will hand its slot back.
AcquireReady(c) ==
    /\ pc[c] = "waiting"
    /\ c \in sem.granted
    /\ sem' = Wake(sem, c)
    /\ Goto(c, IF cancelled[c] THEN "givingUp" ELSE "holding")
    /\ UNCHANGED cancelled

\* ... releaseOne on that path, and the error return.
AcquireGiveUp(c) ==
    /\ pc[c] = "givingUp"
    /\ sem' = ReleaseOne(sem, Capacity)
    /\ Fail(c)

\* The <-ctx.Done() branch of the select; a grant may still arrive before the
\* lock is taken.
AcquireDone(c) ==
    /\ pc[c] = "waiting"
    /\ cancelled[c]
    /\ Goto(c, "aborting")
    /\ UNCHANGED <<sem, cancelled>>

\* ... its critical section, and the error return.
AcquireAbort(c) ==
    /\ pc[c] = "aborting"
    /\ sem' = Withdraw(sem, c, Capacity)
    /\ Fail(c)

\* Permit.Release: the first call gives the slot back; the caller keeps the
\* used permit or drops it.
Release(c) ==
    /\ pc[c] = "holding"
    /\ sem' = ReleaseOne(sem, Capacity)
    /\ \E label \in {"released", "idle"} : Goto(c, label)
    /\ cancelled' = [cancelled EXCEPT ![c] = FALSE]

\* Mutant: Release without the sync.Once.
ReleaseAgainUnguarded(c) ==
    /\ pc[c] = "released"
    /\ sem' = ReleaseOne(sem, Capacity)
    /\ Goto(c, "idle")
    /\ UNCHANGED cancelled

\* Permit.Release once more (a deferred one after an explicit one): sync.Once
\* makes it a no-op.  The caller then drops the permit.
ReleaseAgain(c) ==
    /\ pc[c] = "released"
    /\ Goto(c, "idle")
    /\ UNCHANGED <<sem, cancelled>>

Next ==
    \E c \in Callers :
        \/ CancelContext(c)
        \/ AcquireEnter(c)
        \/ AcquireLock(c)
        \/ AcquireReady(c)
        \/ AcquireGiveUp(c)
        \/ AcquireDone(c)
        \/ AcquireAbort(c)
        \/ Release(c)
        \/ ReleaseAgain(c)

Spec == Init /\ [][Next]_vars

(***************************************************************************)
(* Fairness.  A goroutine that can run does run, and whoever holds a       *)
(* permit releases it some day (Controller.Do defers the release and       *)
(* operations run under a context).  Nobody has to call Acquire and no     *)
(* context has to be cancelled.                                            *)
(***************************************************************************)
Fairness ==
    \A c \in Callers :
        WF_vars(AcquireLock(c) \/ AcquireReady(c) \/ AcquireGiveUp(c)
                \/ AcquireDone(c) \/ AcquireAbort(c) \/ Release(c))

FairSpec == Spec /\ Fairness

-----------------------------------------------------------------------------
(***************************************************************************)
(* Properties                                                              *)
(***************************************************************************)

\* A caller whose waiter is still in the code: in the select, or in the
\* <-ctx.Done() branch before its critical section.
Waiters == {c \in Callers : pc[c] \in {"waiting", "aborting"}}

\* The callers a slot is accounted to: permit holders, callers that were
\* granted and have not noticed, callers about to give their slot back.
SlotOwners ==
    {c \in Callers : pc[c] \in {"holding", "givingUp"}} \cup sem.granted

Queued == {sem.queue[i] : i \in 1 .. Len(sem.queue)}

\* Shape of the state: the counters are naturals and the waiters are callers.
TypeOK ==
    /\ sem \in [active : Nat, queue : Seq(Callers), granted : SUBSET Callers]
    /\ pc \in [Callers -> PCs]
    /\ cancelled \in [Callers -> BOOLEAN]

\* Semaphore.active counts exactly the slots somebody owns, through every race
\* of a grant, a cancellation and a repeated Release: a slot that leaks or is
\* freed twice (semaphore.go:86-103, 111-119) breaks the equation.
SlotsAccounted == sem.active = Cardinality(SlotOwners)

\* What the semaphore is for: never more than Capacity callers hold a permit.
WithinCapacity == Cardinality({c \in Callers : pc[c] = "holding"}) <= Capacity

\* A caller waits only while every slot is in use: no release, no withdrawal
\* and no late abort may leave a free slot beside a non-empty queue, since
\* nobody would ever come to hand it out (grantLocked runs only on release).
NoLostGrant == sem.queue # <<>> => sem.active = Capacity

\* The queue holds exactly the waiters that were not granted, each once: a
\* waiter dropped from the queue without a grant sleeps for ever, and one that
\* stays after its call returned swallows a slot (removeWaiterLocked).
QueueIsWaiters ==
    /\ Queued = Waiters \ sem.granted
    /\ sem.granted \subseteq Waiters
    /\ \A i, j \in 1 .. Len(sem.queue) : sem.queue[i] = sem.queue[j] => i = j

\* "Acquire waits in FIFO order": when a waiter is granted, everybody who was
\* ahead of it in the queue is granted as well or has withdrawn, and a
\* newcomer gets a permit only when nobody is queued.
FIFOStep ==
    /\ \A i, j \in 1 .. Len(sem.queue) :
          i < j /\ sem.queue[j] \in sem'.granted
             => sem.queue[i] \notin {sem'.queue[k] : k \in 1 .. Len(sem'.queue)}
    /\ \A c \in Callers : pc[c] = "checked" /\ pc'[c] = "holding" => Queued = {}

FIFO == [][FIFOStep]_vars

\* Nobody waits for ever: an Acquire that joined the queue comes back, with a
\* permit or with its context's error.
EveryWaitEnds == \A c \in Callers : pc[c] = "waiting" ~> pc[c] \in {"holding", "idle"}
=============================================================================
