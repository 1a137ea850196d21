---------------------------- MODULE SemaphoreOps ----------------------------
(***************************************************************************)
(* The critical sections of the FIFO semaphore of                          *)
(* internal/concurrency/semaphore.go, as operators on its state.  A        *)
(* semaphore is a record                                                   *)
(*   active   the slots in use (Semaphore.active)                          *)
(*   queue    the callers that wait, oldest first (Semaphore.queue)        *)
(*   granted  the callers whose waiter has granted = TRUE and that have    *)
(*            not come out of their select yet (a caller has at most one   *)
(*            waiter at a time, so the caller names its waiter)            *)
(* Every operator is what one holder of Semaphore.mu does between Lock and *)
(* Unlock; the modules that use them interleave them freely.               *)
(***************************************************************************)
EXTENDS Integers, Sequences

\* NewSemaphore: no slot in use, nobody waiting.
NewSemaphore == [active |-> 0, queue |-> <<>>, granted |-> {}]

\* How many waiters the loop of grantLocked wakes: one per free slot while
\* the queue lasts.
GrantCount(s, capacity) ==
    IF s.active >= capacity THEN 0
    ELSE IF capacity - s.active < Len(s.queue) THEN capacity - s.active
    ELSE Len(s.queue)

\* Mutants: the loop wakes nobody; it serves the youngest waiter.
GrantLockedForgotten(s, capacity) == s
GrantLockedLIFO(s, capacity) ==
    IF GrantCount(s, capacity) = 0 THEN s
    ELSE [active  |-> s.active + 1,
          queue   |-> SubSeq(s.queue, 1, Len(s.queue) - 1),
          granted |-> s.granted \cup {s.queue[Len(s.queue)]}]

\* grantLocked: hand the free slots to the head of the queue.
GrantLocked(s, capacity) ==
    LET n == GrantCount(s, capacity)
    IN  [active  |-> s.active + n,
         queue   |-> SubSeq(s.queue, n + 1, Len(s.queue)),
         granted |-> s.granted \cup {s.queue[i] : i \in 1 .. n}]

\* The condition of the fast path of Acquire.
CanTake(s, capacity) == s.active < capacity /\ s.queue = <<>>

\* Acquire up to its select: take a slot at once, or join the queue.
Take(s) == [s EXCEPT !.active = @ + 1]
Enqueue(s, c) == [s EXCEPT !.queue = Append(@, c)]

\* releaseOne: give one slot back and pass it on.
ReleaseOne(s, capacity) ==
    IF s.active = 0 THEN s
    ELSE GrantLocked([s EXCEPT !.active = @ - 1], capacity)

\* removeWaiterLocked: close the gap the first occurrence of c leaves.
RemoveWaiterLocked(q, c) ==
    IF \A i \in 1 .. Len(q) : q[i] # c THEN q
    ELSE LET index == CHOOSE i \in 1 .. Len(q) :
                         q[i] = c /\ \A j \in 1 .. (i - 1) : q[j] # c
         IN  [i \in 1 .. (Len(q) - 1) |-> IF i < index THEN q[i] ELSE q[i + 1]]

\* Mutant: the cancelled waiter forgets that it may have been granted.
WithdrawIgnoringGrant(s, c, capacity) ==
    [s EXCEPT !.queue = RemoveWaiterLocked(@, c), !.granted = @ \ {c}]

\* Mutant: a waiter that was never granted gives a slot back too.
WithdrawAlwaysReturns(s, c, capacity) ==
    [s EXCEPT !.active = @ - 1, !.queue = RemoveWaiterLocked(@, c), !.granted = @ \ {c}]

\* The critical section of the <-ctx.Done() branch: a waiter that was granted
\* in the meantime passes its slot on, any other leaves the queue.
Withdraw(s, c, capacity) ==
    IF c \in s.granted
    THEN GrantLocked([s EXCEPT !.active = @ - 1, !.granted = @ \ {c}], capacity)
    ELSE [s EXCEPT !.queue = RemoveWaiterLocked(@, c)]

\* The caller of a granted waiter comes out of its select.
Wake(s, c) == [s EXCEPT !.granted = @ \ {c}]
=============================================================================
