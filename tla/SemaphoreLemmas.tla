--------------------------- MODULE SemaphoreLemmas ---------------------------
(***************************************************************************)
(* What the critical sections of semaphore.go do to a semaphore in a       *)
(* consistent state, whoever uses it.  A state is the record s of          *)
(* SemaphoreOps together with the sets H of the callers that own a slot    *)
(* outside the semaphore's code (permit holders, and callers about to give *)
(* their slot back) and W of those that wait in it.                        *)
(*                                                                         *)
(* The argument: the queue is non-empty only while every slot is owned, so *)
(* the loop of grantLocked never wakes more than one waiter, and a slot    *)
(* that is given back either stays free with nobody queued or changes      *)
(* hands to the head of the queue.                                         *)
(***************************************************************************)
EXTENDS SemaphoreOps, FiniteSetTheorems, SequenceTheorems, TLAPS

SemaphoresOf(C) == [active : Nat, queue : Seq(C), granted : SUBSET C]

Members(q) == {q[i] : i \in 1 .. Len(q)}
Distinct(q) == \A i, j \in 1 .. Len(q) : q[i] = q[j] => i = j

\* A consistent semaphore of capacity k among the callers C: active counts the
\* owners of slots, nobody queues beside a free slot, and the queue holds the
\* waiters that were not granted, each once.
Consistent(s, H, W, C, k) ==
    /\ s \in SemaphoresOf(C) /\ H \subseteq C /\ W \subseteq C /\ H \cap W = {}
    /\ s.active = Cardinality(H \cup s.granted) /\ s.active <= k
    /\ s.queue # <<>> => s.active = k
    /\ Members(s.queue) = W \ s.granted /\ s.granted \subseteq W /\ Distinct(s.queue)

-----------------------------------------------------------------------------
\* grantLocked with an empty queue wakes nobody.
LEMMA GrantNobody ==
    ASSUME NEW C, NEW k \in Nat \ {0}, NEW s \in SemaphoresOf(C), s.queue = <<>>
    PROVE  GrantLocked(s, k) = s
<1>1. GrantCount(s, k) = 0
  BY DEF GrantCount, SemaphoresOf
<1>2. SubSeq(s.queue, 0 + 1, Len(s.queue)) = s.queue
  BY SubSeqEmpty, Len(<<>>) = 0
<1>3. {s.queue[i] : i \in 1 .. 0} = {}
  OBVIOUS
<1>4. s.active + 0 = s.active
  BY DEF SemaphoresOf
<1>5. s = [active |-> s.active, queue |-> s.queue, granted |-> s.granted]
  BY DEF SemaphoresOf
<1> QED BY <1>1, <1>2, <1>3, <1>4, <1>5 DEF GrantLocked

\* grantLocked with one free slot and a queue hands that slot to its head.
LEMMA GrantHead ==
    ASSUME NEW C, NEW k \in Nat \ {0}, NEW s \in SemaphoresOf(C),
           s.queue # <<>>, s.active + 1 = k
    PROVE  GrantLocked(s, k) = [active  |-> k,
                                queue   |-> Tail(s.queue),
                                granted |-> s.granted \cup {s.queue[1]}]
<1>1. Len(s.queue) \in Nat /\ Len(s.queue) # 0
  BY EmptySeq DEF SemaphoresOf
<1>2. GrantCount(s, k) = 1
  <2>1. s.active \in Nat /\ k \in Nat
    BY DEF SemaphoresOf
  <2>2. ~(s.active >= k) /\ k - s.active = 1
    BY <2>1
  <2>3. \A n \in Nat : n # 0 /\ ~(1 < n) => n = 1
    OBVIOUS
  <2> QED BY <1>1, <2>2, <2>3 DEF GrantCount
<1>3. SubSeq(s.queue, 1 + 1, Len(s.queue)) = Tail(s.queue)
  BY TailIsSubSeq DEF SemaphoresOf
<1>4. {s.queue[i] : i \in 1 .. 1} = {s.queue[1]}
  OBVIOUS
<1> QED BY <1>2, <1>3, <1>4 DEF GrantLocked

\* removeWaiterLocked takes one waiter out and keeps the order of the others.
LEMMA RemoveWaiter ==
    ASSUME NEW q, NEW c, NEW k \in 1 .. Len(q), q[k] = c, Distinct(q), Len(q) \in Nat
    PROVE  RemoveWaiterLocked(q, c) =
               [i \in 1 .. (Len(q) - 1) |-> IF i < k THEN q[i] ELSE q[i + 1]]
<1>1. ~ \A i \in 1 .. Len(q) : q[i] # c
  OBVIOUS
<1> DEFINE P(i) == q[i] = c /\ \A j \in 1 .. (i - 1) : q[j] # c
<1>2. P(k)
  <2>1. \A j \in 1 .. (k - 1) : j \in 1 .. Len(q) /\ j # k
    OBVIOUS
  <2> QED BY <2>1 DEF Distinct
<1>3. \A i \in 1 .. Len(q) : P(i) => i = k
  BY DEF Distinct
<1>4. (CHOOSE i \in 1 .. Len(q) : P(i)) = k
  BY <1>2, <1>3
<1> QED BY <1>1, <1>4 DEF RemoveWaiterLocked

\* releaseOne while at least one slot is in use, and all are if anybody queues.
LEMMA ReleaseStep ==
    ASSUME NEW C, NEW k \in Nat \ {0}, NEW s \in SemaphoresOf(C), s.active # 0,
           s.active <= k, s.queue # <<>> => s.active = k
    PROVE  ReleaseOne(s, k) =
             IF s.queue = <<>>
             THEN [s EXCEPT !.active = @ - 1]
             ELSE [active  |-> k,
                   queue   |-> Tail(s.queue),
                   granted |-> s.granted \cup {s.queue[1]}]
<1> DEFINE t == [s EXCEPT !.active = @ - 1]
<1>1. t \in SemaphoresOf(C) /\ t.active = s.active - 1 /\ t.queue = s.queue
      /\ t.granted = s.granted
  BY DEF SemaphoresOf
<1>2. ReleaseOne(s, k) = GrantLocked(t, k)
  BY DEF ReleaseOne
<1>3. CASE s.queue = <<>>
  BY <1>1, <1>2, <1>3, GrantNobody
<1>4. CASE s.queue # <<>>
  <2>1. t.active + 1 = k
    BY <1>1, <1>4 DEF SemaphoresOf
  <2> HIDE DEF t
  <2>2. GrantLocked(t, k) = [active  |-> k, queue |-> Tail(t.queue),
                             granted |-> t.granted \cup {t.queue[1]}]
    BY <1>1, <1>4, <2>1, GrantHead
  <2> QED BY <1>1, <1>2, <1>4, <2>2
<1> QED BY <1>3, <1>4

-----------------------------------------------------------------------------
(***************************************************************************)
(* Consistent states and the critical sections                             *)
(***************************************************************************)

\* The owners of slots are finitely many, and a caller that owns one uses one.
LEMMA OwnersFinite ==
    ASSUME NEW C, IsFiniteSet(C), NEW k, NEW s, NEW H, NEW W, Consistent(s, H, W, C, k)
    PROVE  /\ IsFiniteSet(H \cup s.granted)
           /\ H \cup s.granted # {} => s.active # 0
<1>1. H \cup s.granted \subseteq C
  BY DEF Consistent, SemaphoresOf
<1>2. IsFiniteSet(H \cup s.granted)
  BY <1>1, FS_Subset
<1> QED BY <1>2, FS_EmptySet DEF Consistent

\* NewSemaphore, before anybody has called Acquire.
LEMMA NewConsistent ==
    ASSUME NEW C, NEW k \in Nat \ {0}
    PROVE  Consistent(NewSemaphore, {}, {}, C, k)
<1>1. /\ NewSemaphore \in SemaphoresOf(C) /\ NewSemaphore.active = 0
      /\ NewSemaphore.queue = <<>> /\ NewSemaphore.granted = {}
  BY DEF NewSemaphore, SemaphoresOf
<1>2. Members(<<>>) = {} /\ Distinct(<<>>)
  BY Len(<<>>) = 0 DEF Members, Distinct
<1>3. Cardinality({} \cup {}) = 0
  BY FS_EmptySet
<1> QED BY <1>1, <1>2, <1>3 DEF Consistent

\* A semaphore that nobody owns a slot of or waits in is as NewSemaphore made it.
LEMMA UnusedIsNew ==
    ASSUME NEW C, NEW k \in Nat \ {0}, NEW s, Consistent(s, {}, {}, C, k)
    PROVE  s = NewSemaphore
<1>1. s \in SemaphoresOf(C) /\ s.granted = {} /\ Members(s.queue) = {}
  BY DEF Consistent
<1>2. s.active = 0
  BY <1>1, {} \cup {} = {}, FS_EmptySet DEF Consistent
<1>3. s.queue = <<>>
  <2>1. s.queue \in Seq(C) /\ Len(s.queue) \in Nat
    BY <1>1 DEF SemaphoresOf
  <2>2. ASSUME Len(s.queue) # 0 PROVE FALSE
    <3>1. 1 \in 1 .. Len(s.queue)
      BY <2>1, <2>2
    <3>2. s.queue[1] \in Members(s.queue)
      BY <3>1 DEF Members
    <3> QED BY <1>1, <3>2
  <2> QED BY <2>1, <2>2, EmptySeq
<1>4. s = [active |-> s.active, queue |-> s.queue, granted |-> s.granted]
  BY <1>1 DEF SemaphoresOf
<1> QED BY <1>1, <1>2, <1>3, <1>4 DEF NewSemaphore

\* The fast path of Acquire.
LEMMA TakeConsistent ==
    ASSUME NEW C, IsFiniteSet(C), NEW k \in Nat \ {0}, NEW s, NEW H, NEW W,
           Consistent(s, H, W, C, k), NEW c \in C, c \notin H \cup W, CanTake(s, k)
    PROVE  Consistent(Take(s), H \cup {c}, W, C, k)
<1> DEFINE t == Take(s)
<1> SUFFICES Consistent(t, H \cup {c}, W, C, k)
  OBVIOUS
<1>1. /\ t \in SemaphoresOf(C) /\ t.active = s.active + 1 /\ t.queue = s.queue
      /\ t.granted = s.granted
  <2>1. s \in SemaphoresOf(C)
    BY DEF Consistent
  <2> QED BY <2>1 DEF SemaphoresOf, Take
<1>2. c \notin H \cup s.granted /\ (H \cup {c}) \cup s.granted = (H \cup s.granted) \cup {c}
  BY DEF Consistent
<1>3. Cardinality((H \cup s.granted) \cup {c}) = Cardinality(H \cup s.granted) + 1
  <2>1. IsFiniteSet(H \cup s.granted)
    BY OwnersFinite
  <2> QED BY <1>2, <2>1, FS_AddElement
<1>4. t.active = Cardinality((H \cup {c}) \cup t.granted)
  BY <1>1, <1>2, <1>3 DEF Consistent
<1>5. t.active <= k /\ t.queue = <<>>
  BY <1>1 DEF Consistent, CanTake, SemaphoresOf
<1> HIDE DEF t
<1> QED BY <1>1, <1>4, <1>5 DEF Consistent

\* The slow path of Acquire.
LEMMA EnqueueConsistent ==
    ASSUME NEW C, IsFiniteSet(C), NEW k \in Nat \ {0}, NEW s, NEW H, NEW W,
           Consistent(s, H, W, C, k), NEW c \in C, c \notin H \cup W, ~CanTake(s, k)
    PROVE  Consistent(Enqueue(s, c), H, W \cup {c}, C, k)
<1> DEFINE q == s.queue
           t == Enqueue(s, c)
<1> SUFFICES Consistent(t, H, W \cup {c}, C, k)
  OBVIOUS
<1>1. q \in Seq(C) /\ Len(q) \in Nat /\ Append(q, c) \in Seq(C)
  BY DEF Consistent, SemaphoresOf
<1>2. /\ t \in SemaphoresOf(C) /\ t.active = s.active /\ t.queue = Append(q, c)
      /\ t.granted = s.granted
  BY <1>1 DEF Consistent, SemaphoresOf, Enqueue
<1>3. /\ Len(t.queue) = Len(q) + 1
      /\ \A i \in 1 .. Len(q) : t.queue[i] = q[i] /\ i \in 1 .. Len(t.queue)
      /\ t.queue[Len(q) + 1] = c /\ Len(q) + 1 \in 1 .. Len(t.queue)
      /\ \A i \in 1 .. Len(t.queue) : i \in 1 .. Len(q) \/ i = Len(q) + 1
  BY <1>1, <1>2
<1> HIDE DEF t
<1>4. Members(t.queue) = Members(q) \cup {c}
  <2>1. Members(t.queue) \subseteq Members(q) \cup {c}
    BY <1>3 DEF Members
  <2>2. Members(q) \cup {c} \subseteq Members(t.queue)
    BY <1>3 DEF Members
  <2> QED BY <2>1, <2>2
<1>5. Distinct(t.queue)
  <2>1. \A i \in 1 .. Len(q) : q[i] # c
    BY DEF Consistent, Members
  <2>2. \A i, j \in 1 .. Len(q) : q[i] = q[j] => i = j
    BY DEF Consistent, Distinct
  <2> QED BY <1>3, <2>1, <2>2 DEF Distinct
<1>6. t.queue # <<>> => t.active = k
  BY <1>2 DEF Consistent, CanTake, SemaphoresOf
<1> QED BY <1>2, <1>4, <1>5, <1>6 DEF Consistent

\* The <-ready branch: a granted waiter becomes the owner of its slot.
LEMMA WakeConsistent ==
    ASSUME NEW C, NEW k, NEW s, NEW H, NEW W, Consistent(s, H, W, C, k),
           NEW c, c \in s.granted
    PROVE  Consistent(Wake(s, c), H \cup {c}, W \ {c}, C, k)
<1> DEFINE t == Wake(s, c)
<1> SUFFICES Consistent(t, H \cup {c}, W \ {c}, C, k)
  OBVIOUS
<1>1. /\ t \in SemaphoresOf(C) /\ t.active = s.active /\ t.queue = s.queue
      /\ t.granted = s.granted \ {c}
  BY DEF Consistent, SemaphoresOf, Wake
<1> HIDE DEF t
<1>2. (H \cup {c}) \cup t.granted = H \cup s.granted
  BY <1>1
<1> QED BY <1>1, <1>2 DEF Consistent

\* A slot is given back while nobody queues: it becomes free.
LEMMA SlotFreed ==
    ASSUME NEW C, IsFiniteSet(C), NEW k \in Nat \ {0}, NEW s, NEW H, NEW W,
           Consistent(s, H, W, C, k), NEW c, c \in H \cup s.granted, s.queue = <<>>,
           NEW t \in SemaphoresOf(C), t.active = s.active - 1, t.queue = <<>>,
           t.granted = s.granted \ {c}
    PROVE  Consistent(t, H \ {c}, W \ {c}, C, k)
<1>1. (H \ {c}) \cup t.granted = (H \cup s.granted) \ {c}
  OBVIOUS
<1>2. t.active = Cardinality((H \ {c}) \cup t.granted)
  <2>1. IsFiniteSet(H \cup s.granted)
    BY OwnersFinite
  <2>2. Cardinality((H \cup s.granted) \ {c}) = Cardinality(H \cup s.granted) - 1
    BY <2>1, FS_RemoveElement
  <2> QED BY <1>1, <2>2 DEF Consistent
<1>3. t.active <= k
  BY DEF Consistent, SemaphoresOf
<1>4. Members(<<>>) = {} /\ Distinct(<<>>)
  BY Len(<<>>) = 0 DEF Members, Distinct
<1> QED BY <1>2, <1>3, <1>4 DEF Consistent

\* A slot is given back while somebody queues: it goes to the head of the queue.
LEMMA SlotPassedOn ==
    ASSUME NEW C, IsFiniteSet(C), NEW k \in Nat \ {0}, NEW s, NEW H, NEW W,
           Consistent(s, H, W, C, k), NEW c, c \in H \cup s.granted, s.queue # <<>>,
           NEW t, t = [active |-> k, queue |-> Tail(s.queue),
                       granted |-> (s.granted \ {c}) \cup {s.queue[1]}]
    PROVE  Consistent(t, H \ {c}, W \ {c}, C, k)
<1> DEFINE q == s.queue
<1>1. /\ q \in Seq(C) /\ Len(q) \in Nat /\ Len(q) # 0
      /\ Tail(q) \in Seq(C) /\ Len(Tail(q)) = Len(q) - 1
      /\ \A i \in 1 .. Len(Tail(q)) : Tail(q)[i] = q[i + 1]
  BY HeadTailProperties, EmptySeq DEF Consistent, SemaphoresOf
<1>2. q[1] \in Members(q) /\ q[1] \in W /\ q[1] \notin H \cup s.granted /\ q[1] # c /\ q[1] \in C
  BY <1>1 DEF Consistent, Members
<1>3. t \in SemaphoresOf(C) /\ t.active = k /\ t.queue = Tail(q)
      /\ t.granted = (s.granted \ {c}) \cup {q[1]}
  BY <1>1, <1>2 DEF Consistent, SemaphoresOf
<1>4. (H \ {c}) \cup t.granted = ((H \cup s.granted) \ {c}) \cup {q[1]}
  BY <1>3, <1>2
<1>5. t.active = Cardinality((H \ {c}) \cup t.granted)
  <2>1. /\ IsFiniteSet((H \cup s.granted) \ {c})
        /\ Cardinality((H \cup s.granted) \ {c}) = k - 1
    <3>1. IsFiniteSet(H \cup s.granted)
      BY OwnersFinite
    <3>2. Cardinality(H \cup s.granted) = k
      BY DEF Consistent
    <3> QED BY <3>1, <3>2, FS_RemoveElement
  <2>2. Cardinality(((H \cup s.granted) \ {c}) \cup {q[1]}) = (k - 1) + 1
    <3> DEFINE S == (H \cup s.granted) \ {c}
    <3>1. q[1] \notin S /\ IsFiniteSet(S) /\ Cardinality(S) = k - 1
      BY <2>1, <1>2
    <3> HIDE DEF S
    <3>2. Cardinality(S \cup {q[1]}) = Cardinality(S) + 1
      BY <3>1, FS_AddElement
    <3> QED BY <3>1, <3>2 DEF S
  <2>3. (k - 1) + 1 = k
    OBVIOUS
  <2> QED BY <1>3, <1>4, <2>2, <2>3, Zenon
<1>6. Members(Tail(q)) = Members(q) \ {q[1]}
  <2>1. \A i \in 1 .. Len(Tail(q)) : q[i + 1] \in Members(q) /\ q[i + 1] # q[1]
    BY <1>1 DEF Consistent, Members, Distinct
  <2>2. \A i \in 1 .. Len(q) : i # 1 => i - 1 \in 1 .. Len(Tail(q)) /\ Tail(q)[i - 1] = q[i]
    BY <1>1
  <2>3. Members(Tail(q)) \subseteq Members(q) \ {q[1]}
    BY <1>1, <2>1 DEF Members
  <2>4. Members(q) \ {q[1]} \subseteq Members(Tail(q))
    BY <2>2 DEF Members
  <2> QED BY <2>3, <2>4
<1>7. Distinct(Tail(q))
  <2>1. \A i, j \in 1 .. Len(q) : q[i] = q[j] => i = j
    BY DEF Consistent, Distinct
  <2>2. \A i \in 1 .. Len(Tail(q)) : i + 1 \in 1 .. Len(q)
    BY <1>1
  <2>3. \A i, j \in 1 .. Len(Tail(q)) : i + 1 = j + 1 => i = j
    OBVIOUS
  <2> QED BY <1>1, <2>1, <2>2, <2>3 DEF Distinct
<1>8. c \notin Members(q)
  BY DEF Consistent
<1> QED BY <1>2, <1>3, <1>5, <1>6, <1>7, <1>8 DEF Consistent

\* releaseOne by an owner c of a slot, whose waiter, if it has one, has been
\* taken out of granted already (u is s without it).
LEMMA GiveBackConsistent ==
    ASSUME NEW C, IsFiniteSet(C), NEW k \in Nat \ {0}, NEW s, NEW H, NEW W,
           Consistent(s, H, W, C, k), NEW c, c \in H \cup s.granted,
           NEW u \in SemaphoresOf(C), u.active = s.active, u.queue = s.queue,
           u.granted = s.granted \ {c}
    PROVE  /\ Consistent(ReleaseOne(u, k), H \ {c}, W \ {c}, C, k)
           /\ ReleaseOne(u, k).granted \subseteq
                 s.granted \cup (IF s.queue = <<>> THEN {} ELSE {s.queue[1]})
<1> DEFINE t == ReleaseOne(u, k)
<1>1. u.active # 0 /\ u.active <= k /\ (u.queue # <<>> => u.active = k)
  <2>1. s.active # 0
    BY OwnersFinite
  <2> QED BY <2>1 DEF Consistent
<1>2. t = IF u.queue = <<>> THEN [u EXCEPT !.active = @ - 1]
          ELSE [active |-> k, queue |-> Tail(u.queue), granted |-> u.granted \cup {u.queue[1]}]
  BY <1>1, ReleaseStep
<1> SUFFICES /\ Consistent(t, H \ {c}, W \ {c}, C, k)
             /\ t.granted \subseteq s.granted \cup (IF s.queue = <<>> THEN {} ELSE {s.queue[1]})
  OBVIOUS
<1> HIDE DEF t
<1>3. CASE s.queue = <<>>
  <2>1. /\ t \in SemaphoresOf(C) /\ t.active = s.active - 1 /\ t.queue = <<>>
        /\ t.granted = s.granted \ {c}
    BY <1>1, <1>2, <1>3 DEF SemaphoresOf
  <2> QED BY <1>3, <2>1, SlotFreed
<1>4. CASE s.queue # <<>>
  <2>1. t = [active |-> k, queue |-> Tail(s.queue),
             granted |-> (s.granted \ {c}) \cup {s.queue[1]}]
    BY <1>2, <1>4
  <2> QED BY <1>4, <2>1, SlotPassedOn
<1> QED BY <1>3, <1>4

\* Permit.Release, and the <-ready branch of a cancelled call.
LEMMA ReleaseConsistent ==
    ASSUME NEW C, IsFiniteSet(C), NEW k \in Nat \ {0}, NEW s, NEW H, NEW W,
           Consistent(s, H, W, C, k), NEW c \in H
    PROVE  /\ Consistent(ReleaseOne(s, k), H \ {c}, W, C, k)
           /\ ReleaseOne(s, k).granted \subseteq
                 s.granted \cup (IF s.queue = <<>> THEN {} ELSE {s.queue[1]})
<1>1. s \in SemaphoresOf(C) /\ s.granted = s.granted \ {c} /\ W = W \ {c}
  BY DEF Consistent
<1>2. c \in H \cup s.granted
  OBVIOUS
<1>3. /\ Consistent(ReleaseOne(s, k), H \ {c}, W \ {c}, C, k)
      /\ ReleaseOne(s, k).granted \subseteq
            s.granted \cup (IF s.queue = <<>> THEN {} ELSE {s.queue[1]})
  BY ONLY IsFiniteSet(C), k \in Nat \ {0}, Consistent(s, H, W, C, k), <1>1, <1>2,
          GiveBackConsistent
<1> QED BY <1>1, <1>3

\* The queue after removeWaiterLocked: the others, in their order.
LEMMA RemovedQueue ==
    ASSUME NEW C, NEW q \in Seq(C), Distinct(q), NEW c, c \in Members(q)
    PROVE  LET r == RemoveWaiterLocked(q, c)
           IN  r \in Seq(C) /\ Members(r) = Members(q) \ {c} /\ Distinct(r)
<1> DEFINE r == RemoveWaiterLocked(q, c)
<1> SUFFICES r \in Seq(C) /\ Members(r) = Members(q) \ {c} /\ Distinct(r)
  OBVIOUS
<1>1. PICK k \in 1 .. Len(q) : q[k] = c
  BY DEF Members
<1>2. Len(q) \in Nat /\ \A i, j \in 1 .. Len(q) : q[i] = q[j] => i = j
  BY DEF Distinct
<1>3. r = [i \in 1 .. (Len(q) - 1) |-> IF i < k THEN q[i] ELSE q[i + 1]]
  BY <1>1, <1>2, RemoveWaiter
<1> HIDE DEF r
<1>4. /\ r \in Seq(C) /\ Len(r) = Len(q) - 1
      /\ \A i \in 1 .. Len(r) : r[i] = IF i < k THEN q[i] ELSE q[i + 1]
  <2>1. Len(q) - 1 \in Nat
    BY <1>1, <1>2
  <2>2. \A i \in 1 .. (Len(q) - 1) : i \in 1 .. Len(q) /\ i + 1 \in 1 .. Len(q)
    BY <1>2
  <2>3. \A i \in 1 .. Len(q) : q[i] \in C
    BY <1>2, ElementOfSeq
  <2>4. \A i \in 1 .. (Len(q) - 1) : (IF i < k THEN q[i] ELSE q[i + 1]) \in C
    BY <2>2, <2>3
  <2>5. r \in Seq(C)
    BY <1>3, <2>1, <2>4, IsASeq
  <2> QED BY <1>3, <2>1, <2>5, LenProperties
<1>5. \A i \in 1 .. Len(r) : r[i] \in Members(q) /\ r[i] # c
  <2> SUFFICES ASSUME NEW i \in 1 .. Len(r) PROVE r[i] \in Members(q) /\ r[i] # c
    OBVIOUS
  <2>1. CASE i < k
    <3>1. i \in 1 .. Len(q) /\ i # k /\ r[i] = q[i]
      BY <2>1, <1>2, <1>4
    <3> QED BY <3>1, <1>1, <1>2 DEF Members
  <2>2. CASE ~(i < k)
    <3>1. i + 1 \in 1 .. Len(q) /\ i + 1 # k /\ r[i] = q[i + 1]
      BY <2>2, <1>2, <1>4
    <3> QED BY <3>1, <1>1, <1>2 DEF Members
  <2> QED BY <2>1, <2>2
<1>6. \A i \in 1 .. Len(q) : q[i] # c => q[i] \in Members(r)
  <2> SUFFICES ASSUME NEW i \in 1 .. Len(q), q[i] # c PROVE q[i] \in Members(r)
    OBVIOUS
  <2>0. i # k
    BY <1>1
  <2>1. CASE i < k
    <3>1. i \in 1 .. Len(r) /\ r[i] = q[i]
      BY <2>1, <1>2, <1>4
    <3> QED BY <3>1 DEF Members
  <2>2. CASE ~(i < k)
    <3>1. i - 1 \in 1 .. Len(r) /\ ~(i - 1 < k) /\ (i - 1) + 1 = i
      BY <2>0, <2>2, <1>2, <1>4
    <3>2. r[i - 1] = q[i]
      BY <3>1, <1>4
    <3> QED BY <3>1, <3>2 DEF Members
  <2> QED BY <2>1, <2>2
<1>7. Members(r) = Members(q) \ {c}
  <2>1. Members(r) \subseteq Members(q) \ {c}
    BY <1>5 DEF Members
  <2>2. Members(q) \ {c} \subseteq Members(r)
    BY <1>6 DEF Members
  <2> QED BY <2>1, <2>2
<1>8. Distinct(r)
  <2> SUFFICES ASSUME NEW i \in 1 .. Len(r), NEW j \in 1 .. Len(r), r[i] = r[j]
               PROVE  i = j
    BY DEF Distinct
  <2> DEFINE at(n) == IF n < k THEN n ELSE n + 1
  <2>1. at(i) \in 1 .. Len(q) /\ at(j) \in 1 .. Len(q) /\ r[i] = q[at(i)] /\ r[j] = q[at(j)]
    BY <1>2, <1>4
  <2>2. at(i) = at(j)
    BY <2>1, <1>2
  <2> QED BY <2>2
<1> QED BY <1>4, <1>7, <1>8

\* The critical section of the <-ctx.Done() branch.
LEMMA WithdrawConsistent ==
    ASSUME NEW C, IsFiniteSet(C), NEW k \in Nat \ {0}, NEW s, NEW H, NEW W,
           Consistent(s, H, W, C, k), NEW c \in W
    PROVE  /\ Consistent(Withdraw(s, c, k), H, W \ {c}, C, k)
           /\ Withdraw(s, c, k).granted \subseteq
                 s.granted \cup (IF s.queue = <<>> THEN {} ELSE {s.queue[1]})
<1>1. s \in SemaphoresOf(C) /\ H \ {c} = H
  BY DEF Consistent
<1>2. CASE c \in s.granted
  <2> DEFINE u == [s EXCEPT !.granted = @ \ {c}]
  <2>1. /\ u \in SemaphoresOf(C) /\ u.active = s.active /\ u.queue = s.queue
        /\ u.granted = s.granted \ {c}
    BY <1>1 DEF SemaphoresOf
  <2>2. [s EXCEPT !.active = @ - 1, !.granted = @ \ {c}] = [u EXCEPT !.active = @ - 1]
    BY <1>1 DEF SemaphoresOf
  <2>3. s.active # 0
    BY <1>2, OwnersFinite
  <2>4. Withdraw(s, c, k) = ReleaseOne(u, k)
    BY <1>2, <2>1, <2>2, <2>3 DEF Withdraw, ReleaseOne
  <2> HIDE DEF u
  <2>5. /\ Consistent(ReleaseOne(u, k), H \ {c}, W \ {c}, C, k)
        /\ ReleaseOne(u, k).granted \subseteq
              s.granted \cup (IF s.queue = <<>> THEN {} ELSE {s.queue[1]})
    BY <1>2, <2>1, GiveBackConsistent
  <2> QED BY <1>1, <2>4, <2>5
<1>3. CASE c \notin s.granted
  <2> DEFINE t == Withdraw(s, c, k)
             r == RemoveWaiterLocked(s.queue, c)
  <2>1. c \in Members(s.queue) /\ s.queue \in Seq(C) /\ Distinct(s.queue)
    BY <1>1, <1>3 DEF Consistent, SemaphoresOf
  <2>2. r \in Seq(C) /\ Members(r) = Members(s.queue) \ {c} /\ Distinct(r)
    BY <2>1, RemovedQueue
  <2> HIDE DEF r
  <2>3. /\ t \in SemaphoresOf(C) /\ t.active = s.active /\ t.queue = r
        /\ t.granted = s.granted
    <3>1. t = [s EXCEPT !.queue = r]
      BY <1>3 DEF Withdraw, r
    <3> QED BY <1>1, <2>2, <3>1 DEF SemaphoresOf
  <2>4. s.active = k
    BY <2>1, Len(<<>>) = 0 DEF Consistent, Members
  <2> SUFFICES Consistent(t, H, W \ {c}, C, k) /\ t.granted \subseteq s.granted
    OBVIOUS
  <2> HIDE DEF t
  <2> QED BY <1>1, <1>3, <2>2, <2>3, <2>4 DEF Consistent
<1> QED BY <1>2, <1>3
=============================================================================
