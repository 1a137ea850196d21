--------------------------- MODULE SemaphoreProofs ---------------------------
(***************************************************************************)
(* Proofs about Semaphore, for every finite set of callers and every       *)
(* capacity.  What a critical section does to a consistent semaphore is in *)
(* SemaphoreLemmas; here every step of Semaphore is matched with one of    *)
(* them and the sets of owners and waiters it moves its caller between.    *)
(***************************************************************************)
EXTENDS Semaphore, SemaphoreLemmas

\* The callers that own a slot outside the semaphore's code.
Owners == {c \in Callers : pc[c] \in {"holding", "givingUp"}}

\* The inductive invariant.
IInv == TypeOK /\ Consistent(sem, Owners, Waiters, Callers, Capacity)

\* The properties of Semaphore are what Consistent says of its state.
LEMMA Meaning ==
    ASSUME IInv
    PROVE  SlotsAccounted /\ NoLostGrant /\ QueueIsWaiters /\ sem.active <= Capacity
<1>1. SlotOwners = Owners \cup sem.granted /\ Queued = Members(sem.queue)
  BY DEF SlotOwners, Owners, Queued, Members
<1> QED BY <1>1 DEF IInv, Consistent, Distinct, SlotsAccounted, NoLostGrant, QueueIsWaiters

-----------------------------------------------------------------------------
\* The initial state satisfies the invariant.
LEMMA InitIInv == Init => IInv
<1> SUFFICES ASSUME Init PROVE IInv
  OBVIOUS
<1> USE CapacityAssumption DEF Init, NewSemaphore
<1>1. TypeOK
  BY DEF TypeOK, PCs
<1>2. Owners = {} /\ Waiters = {}
  BY DEF Owners, Waiters
<1>3. Consistent(NewSemaphore, {}, {}, Callers, Capacity)
  BY NewConsistent
<1> QED BY <1>1, <1>2, <1>3 DEF IInv

\* How a step moves its caller c between the sets: it leaves the other callers
\* where they are.
Moves(c) ==
    /\ pc' \in [Callers -> PCs]
    /\ cancelled' \in [Callers -> BOOLEAN]
    /\ \A d \in Callers \ {c} : pc'[d] = pc[d]

\* The invariant after a step, from the lemma about its critical section.
LEMMA StepIInv ==
    ASSUME NEW c \in Callers, Moves(c), NEW H, NEW W, Owners' = H, Waiters' = W,
           Consistent(sem', H, W, Callers, Capacity)
    PROVE  IInv'
<1>1. TypeOK'
  BY DEF TypeOK, Moves, Consistent, SemaphoresOf
<1> QED BY <1>1 DEF IInv

\* A step of a caller does to the semaphore and the two sets one of the
\* following, and grants at most the head of the queue.
LEMMA NextStep ==
    ASSUME IInv, NEW c \in Callers,
           \/ CancelContext(c) \/ AcquireEnter(c) \/ AcquireLock(c) \/ AcquireReady(c)
           \/ AcquireGiveUp(c) \/ AcquireDone(c) \/ AcquireAbort(c) \/ Release(c)
           \/ ReleaseAgain(c)
    PROVE  /\ IInv'
           /\ sem'.granted \subseteq
                 sem.granted \cup (IF sem.queue = <<>> THEN {} ELSE {sem.queue[1]})
           /\ \A d \in Callers : pc[d] = "checked" /\ pc'[d] = "holding" => sem.queue = <<>>
<1> DEFINE Granting == sem'.granted \subseteq
                          sem.granted \cup (IF sem.queue = <<>> THEN {} ELSE {sem.queue[1]})
           Overtaking == \A d \in Callers :
                            pc[d] = "checked" /\ pc'[d] = "holding" => sem.queue = <<>>
<1> USE CapacityAssumption, CallersAssumption
<1>0. /\ TypeOK /\ Consistent(sem, Owners, Waiters, Callers, Capacity)
      /\ sem \in SemaphoresOf(Callers) /\ sem.granted \subseteq Waiters
  BY DEF IInv, Consistent
\* The steps that leave the semaphore alone.
<1>1. CASE CancelContext(c) \/ AcquireEnter(c) \/ AcquireDone(c) \/ ReleaseAgain(c)
  <2>1. /\ sem' = sem /\ Moves(c) /\ ~(pc[c] = "checked" /\ pc'[c] = "holding")
        /\ \/ pc'[c] = pc[c]
           \/ pc[c] = "idle" /\ pc'[c] = "checked"
           \/ pc[c] = "waiting" /\ pc'[c] = "aborting"
           \/ pc[c] = "released" /\ pc'[c] = "idle"
    BY <1>0, <1>1 DEF CancelContext, AcquireEnter, AcquireDone, ReleaseAgain, Fail, Goto,
                      Moves, TypeOK, PCs
  <2>2. Owners' = Owners /\ Waiters' = Waiters
    BY <2>1 DEF Owners, Waiters, Moves
  <2>3. IInv'
    BY <1>0, <2>1, <2>2, StepIInv
  <2> QED BY <2>1, <2>3 DEF Moves
<1>2. CASE AcquireLock(c)
  <2>1. /\ pc[c] = "checked" /\ c \notin Owners \cup Waiters
        /\ cancelled' = cancelled
    BY <1>2 DEF AcquireLock, Owners, Waiters
  <2>2. CASE CanTake(sem, Capacity)
    <3>1. sem' = Take(sem) /\ pc' = [pc EXCEPT ![c] = "holding"]
      BY <1>2, <2>2 DEF AcquireLock, Goto
    <3>2. Moves(c) /\ Owners' = Owners \cup {c} /\ Waiters' = Waiters
      BY <1>0, <2>1, <3>1 DEF Moves, TypeOK, PCs, Owners, Waiters
    <3>3. Consistent(sem', Owners \cup {c}, Waiters, Callers, Capacity)
      BY <1>0, <2>1, <2>2, <3>1, TakeConsistent
    <3>4. IInv'
      BY <3>2, <3>3, StepIInv
    <3>5. sem'.granted = sem.granted /\ sem.queue = <<>>
      BY <1>0, <2>2, <3>1 DEF Take, CanTake, SemaphoresOf
    <3> QED BY <3>4, <3>5
  <2>3. CASE ~CanTake(sem, Capacity)
    <3>1. sem' = Enqueue(sem, c) /\ pc' = [pc EXCEPT ![c] = "waiting"]
      BY <1>2, <2>3 DEF AcquireLock, Goto
    <3>2. /\ Moves(c) /\ Owners' = Owners /\ Waiters' = Waiters \cup {c}
          /\ pc'[c] = "waiting"
      BY <1>0, <2>1, <3>1 DEF Moves, TypeOK, PCs, Owners, Waiters
    <3>3. Consistent(sem', Owners, Waiters \cup {c}, Callers, Capacity)
      BY <1>0, <2>1, <2>3, <3>1, EnqueueConsistent
    <3>4. IInv'
      BY <3>2, <3>3, StepIInv
    <3>5. sem'.granted = sem.granted
      BY <1>0, <3>1 DEF Enqueue, SemaphoresOf
    <3> QED BY <3>2, <3>4, <3>5 DEF Moves
  <2> QED BY <2>2, <2>3
<1>3. CASE AcquireReady(c)
  <2>1. /\ sem' = Wake(sem, c) /\ c \in sem.granted
        /\ pc[c] = "waiting" /\ pc'[c] \in {"givingUp", "holding"} /\ Moves(c)
    BY <1>0, <1>3 DEF AcquireReady, Goto, Moves, TypeOK, PCs
  <2>2. Owners' = Owners \cup {c} /\ Waiters' = Waiters \ {c}
    BY <2>1 DEF Owners, Waiters, Moves
  <2>3. Consistent(sem', Owners \cup {c}, Waiters \ {c}, Callers, Capacity)
    BY <1>0, <2>1, WakeConsistent
  <2>4. IInv'
    BY <2>1, <2>2, <2>3, StepIInv
  <2>5. sem'.granted = sem.granted \ {c}
    BY <1>0, <2>1 DEF Wake, SemaphoresOf
  <2> QED BY <2>1, <2>4, <2>5 DEF Moves
<1>4. CASE AcquireGiveUp(c) \/ Release(c)
  <2>1. /\ sem' = ReleaseOne(sem, Capacity)
        /\ pc[c] \in {"givingUp", "holding"} /\ pc'[c] \in {"idle", "released"} /\ Moves(c)
    BY <1>0, <1>4 DEF AcquireGiveUp, Release, Fail, Goto, Moves, TypeOK, PCs
  <2>2. c \in Owners /\ Owners' = Owners \ {c} /\ Waiters' = Waiters
    BY <2>1 DEF Owners, Waiters, Moves
  <2>3. /\ Consistent(sem', Owners \ {c}, Waiters, Callers, Capacity)
        /\ Granting
    BY <1>0, <2>1, <2>2, ReleaseConsistent
  <2>4. IInv'
    BY <2>1, <2>2, <2>3, StepIInv
  <2> QED BY <2>1, <2>3, <2>4 DEF Moves
<1>5. CASE AcquireAbort(c)
  <2>1. /\ sem' = Withdraw(sem, c, Capacity)
        /\ pc[c] = "aborting" /\ pc'[c] = "idle" /\ Moves(c)
    BY <1>0, <1>5 DEF AcquireAbort, Fail, Goto, Moves, TypeOK, PCs
  <2>2. c \in Waiters /\ Owners' = Owners /\ Waiters' = Waiters \ {c}
    BY <2>1 DEF Owners, Waiters, Moves
  <2>3. /\ Consistent(sem', Owners, Waiters \ {c}, Callers, Capacity)
        /\ Granting
    BY <1>0, <2>1, <2>2, WithdrawConsistent
  <2>4. IInv'
    BY <2>1, <2>2, <2>3, StepIInv
  <2> QED BY <2>1, <2>3, <2>4 DEF Moves
<1> QED BY <1>1, <1>2, <1>3, <1>4, <1>5

\* Every step preserves the inductive invariant.
LEMMA NextIInv == IInv /\ [Next]_vars => IInv'
<1> SUFFICES ASSUME IInv, [Next]_vars PROVE IInv'
  OBVIOUS
<1>1. CASE UNCHANGED vars
  BY <1>1 DEF vars, IInv, TypeOK, Owners, Waiters
<1>2. CASE Next
  BY <1>2, NextStep DEF Next
<1> QED BY <1>1, <1>2

\* The invariant holds in every state of every behaviour.
THEOREM Inductive == Spec => []IInv
<1> QED BY InitIInv, NextIInv, PTL DEF Spec

\* The state of the semaphore is well-formed in every reachable state.
THEOREM TypeCorrect == Spec => []TypeOK
<1>1. IInv => TypeOK
  BY DEF IInv
<1> QED BY <1>1, Inductive, PTL

\* Semaphore.active is the number of slots somebody owns, whatever the races
\* of grants, cancellations and repeated releases.
THEOREM ActiveIsOwners == Spec => []SlotsAccounted
<1>1. IInv => SlotsAccounted
  BY Meaning
<1> QED BY <1>1, Inductive, PTL

\* At most Capacity callers hold a permit at a time.
THEOREM CapacityRespected == Spec => []WithinCapacity
<1>1. IInv => WithinCapacity
  <2> SUFFICES ASSUME IInv PROVE WithinCapacity
    OBVIOUS
  <2> DEFINE Holders == {c \in Callers : pc[c] = "holding"}
             S == Owners \cup sem.granted
  <2>1. Consistent(sem, Owners, Waiters, Callers, Capacity)
    BY DEF IInv
  <2>2. IsFiniteSet(S) /\ Holders \in SUBSET S
    BY <2>1, CallersAssumption, OwnersFinite DEF Owners
  <2>3. Cardinality(S) <= Capacity
    BY <2>1 DEF Consistent
  <2> SUFFICES Cardinality(Holders) <= Capacity
    BY DEF WithinCapacity
  <2> HIDE DEF Holders, S
  <2>4. Cardinality(Holders) <= Cardinality(S) /\ IsFiniteSet(Holders)
    BY <2>2, FS_Subset
  <2>5. Cardinality(Holders) \in Nat /\ Cardinality(S) \in Nat
    BY <2>2, <2>4, FS_CardinalityType
  <2> QED BY <2>3, <2>4, <2>5, CapacityAssumption
<1> QED BY <1>1, Inductive, PTL

\* A slot is never free while somebody queues for it.
THEOREM NoGrantIsLost == Spec => []NoLostGrant
<1>1. IInv => NoLostGrant
  BY Meaning
<1> QED BY <1>1, Inductive, PTL

\* The queue is exactly the set of waiters that were not granted, each once.
THEOREM QueueExact == Spec => []QueueIsWaiters
<1>1. IInv => QueueIsWaiters
  BY Meaning
<1> QED BY <1>1, Inductive, PTL

\* Nobody is granted in front of a caller that stays queued, and no newcomer
\* overtakes the queue.
THEOREM ServesInOrder == Spec => FIFO
<1>1. IInv /\ [Next]_vars => [FIFOStep]_vars
  <2> SUFFICES ASSUME IInv, [Next]_vars, ~UNCHANGED vars PROVE FIFOStep
    OBVIOUS
  <2> DEFINE q == sem.queue
  <2>0. /\ q \in Seq(Callers) /\ Len(q) \in Nat
        /\ \A j \in 1 .. Len(q) : q[j] \notin sem.granted
        /\ \A i, j \in 1 .. Len(q) : q[i] = q[j] => i = j
    BY DEF IInv, Consistent, SemaphoresOf, Members, Distinct
  \* Nobody but the head of the queue is granted.
  <2>1. /\ sem'.granted \subseteq sem.granted \cup (IF q = <<>> THEN {} ELSE {q[1]})
        /\ \A c \in Callers : pc[c] = "checked" /\ pc'[c] = "holding" => q = <<>>
    BY NextStep DEF Next
  <2>2. \A i, j \in 1 .. Len(q) : i < j /\ q[j] \in sem'.granted => FALSE
    <3> SUFFICES ASSUME NEW i \in 1 .. Len(q), NEW j \in 1 .. Len(q),
                        i < j, q[j] \in sem'.granted
                 PROVE  FALSE
      OBVIOUS
    <3>1. q[j] = q[1] /\ 1 \in 1 .. Len(q)
      BY <2>0, <2>1
    <3> QED BY <2>0, <3>1
  <2>3. q = <<>> => Queued = {}
    BY Len(<<>>) = 0 DEF Queued
  <2> QED BY <2>1, <2>2, <2>3 DEF FIFOStep
<1> QED BY <1>1, Inductive, PTL DEF Spec, FIFO
=============================================================================
