----------------------------- MODULE BatchProofs -----------------------------
(***************************************************************************)
(* Proofs about Batch, for any batches, devices, finite set of workers and *)
(* number of requests and faults.                                          *)
(*                                                                         *)
(* The argument has five parts.  The row lock of RefreshBatch gives each   *)
(* batch one transaction at a time, and the rows it has updated stay as    *)
(* they were (Locks).  So every step moves a child along the transition    *)
(* table, and a snapshot is wrong about a child only where it says the     *)
(* child has not ended (Snapshots).  What is written from such a snapshot  *)
(* therefore never goes back, and is final once every child has ended      *)
(* (BatchRowsTrue).  A failure in a batch that stops on failures is known  *)
(* to a transaction that has still to commit, or nothing is left to start  *)
(* (FailFast).  Last, a row that cannot be read was running or queued      *)
(* when it came about, so its batch was open (Readable).                   *)
(***************************************************************************)
EXTENDS Batch, FiniteSetTheorems, WellFoundedInduction, TLAPS

Seen == UNION {[S -> Statuses] : S \in SUBSET Children}
BatchRows == [status : Statuses \cup {NoTask}, success : Nat, failed : Nat, cancelled : Nat,
              continueOnFailure : BOOLEAN, retryOf : Batches \cup {Nobody}]
Transactions ==
    [at : {"off", "lock", "items", "fix", "write", "sync", "done"}, b : Batches \cup {Nobody},
     sync : BOOLEAN, fixed : BOOLEAN, parent : Statuses \cup {NoTask}, seen : Seen,
     cancels : SUBSET Children, status : Statuses \cup {NoTask}]
Requests ==
    [op : {"none", "submit", "get", "cancel", "retry"},
     pc : {"idle", "queue", "first", "cancel", "reconcile", "last"},
     b : Batches \cup {Nobody}, src : Batches \cup {Nobody}, todo : SUBSET Children]

\* The shape of the state, with the parts TypeOK leaves out.
Shape ==
    /\ child \in [Children -> Statuses \cup {NoTask}]
    /\ cancelMark \subseteq Children /\ unreadable \subseteq Children
    /\ recentMarks \subseteq cancelMark
    /\ childAudit \in [Children -> {"NONE", "OPEN", "DONE"}]
    /\ batch \in [Batches -> BatchRows]
    /\ parent \in [Batches -> Statuses \cup {NoTask}]
    /\ parentAudit \in [Batches -> Terminal \cup {"NONE", "OPEN"}]
    /\ proc \in {"down", "interrupt", "list", "reconcile", "queue", "up"}
    /\ toReconcile \subseteq Batches
    /\ toQueue \subseteq Children
    /\ wpc \in [Workers -> {"off", "idle", "run", "save", "reconcile", "stopped"}]
    /\ wchild \in [Workers -> Children \cup {Nobody}]
    /\ wresult \in [Workers -> Statuses \cup {NoTask}]
    /\ req \in [Clients -> Requests]
    /\ tx \in [Actors -> Transactions]
    /\ cancelOK \subseteq Batches

Held == {"items", "fix", "write"}

\* A batch is locked by one transaction.
Exclusive ==
    \A a1, a2 \in Actors :
        tx[a1].at \in Held /\ tx[a2].at \in Held /\ tx[a1].b = tx[a2].b => a1 = a2

\* The rows a transaction has updated are unstarted children of its batch.
CancelsLocked ==
    \A a \in Actors : \A c \in tx[a].cancels :
        tx[a].at \in Held /\ c[1] = tx[a].b /\ child[c] \in Unstarted

\* A transaction is about a batch that exists.
TxHasBatch ==
    /\ \A a \in Actors : tx[a].at # "off" => tx[a].b \in Batches /\ batch[tx[a].b].status # NoTask
    /\ \A b \in toReconcile : batch[b].status # NoTask

\* A batch and its children are created together.
RowsTogether ==
    \A b \in Batches : (batch[b].status # NoTask) <=> (\E c \in Children : c[1] = b /\ child[c] # NoTask)

Executing(w) == wpc[w] \in {"run", "save"}

\* A worker executes a RUNNING child that no other worker executes, and there
\* are workers only after the recovery.
WorkersOwn ==
    /\ proc # "up" => \A w \in Workers : wpc[w] = "off"
    /\ \A w \in Workers : Executing(w) => wchild[w] \in Children /\ child[wchild[w]] = "RUNNING"
    /\ \A w \in Workers : wpc[w] = "save" => wresult[w] \in Terminal
    /\ \A v, w \in Workers : Executing(v) /\ Executing(w) /\ wchild[v] = wchild[w] => v = w

\* A request is about a batch that exists, and goes through its children.
RequestsHold ==
    \A k \in Clients :
        /\ req[k].pc # "idle" => req[k].b \in Batches /\ batch[req[k].b].status # NoTask
        /\ \A c \in req[k].todo : c[1] = req[k].b /\ child[c] # NoTask

Locks == Exclusive /\ CancelsLocked /\ TxHasBatch /\ RowsTogether /\ WorkersOwn /\ RequestsHold

\* A child as the transaction of a sees it.
View(a, c) == IF c \in tx[a].cancels THEN "CANCELLED" ELSE child[c]

\* A snapshot has all the children, and is right about those that had ended.
SeenIsOld ==
    \A a \in Actors :
        /\ tx[a].at = "write" => DOMAIN tx[a].seen = Items(tx[a].b)
        /\ \A c \in DOMAIN tx[a].seen :
              /\ c[1] = tx[a].b
              /\ tx[a].at = "write" => child[c] # NoTask
              /\ tx[a].at \in {"write", "sync", "done"} /\ tx[a].seen[c] \in Terminal
                    => View(a, c) = tx[a].seen[c]

\* The UPDATE of the unstarted children has all of them.
FixIsFinal ==
    \A a \in Actors : tx[a].fixed =>
        /\ tx[a].at \in Held
        /\ \A c \in Children : c[1] = tx[a].b /\ child[c] \in Unstarted => c \in tx[a].cancels

\* A failure that is about to be written has stopped the batch.
FixComesFirst ==
    \A a \in Actors : \A c \in DOMAIN tx[a].seen :
        /\ tx[a].at = "write" /\ ~batch[tx[a].b].continueOnFailure
        /\ tx[a].seen[c] \in FailedStatuses
        => tx[a].fixed

\* A parent that has ended changes only with its batch.
ParentRead ==
    \A a \in Actors : tx[a].at \in Held /\ tx[a].parent \in Terminal => parent[tx[a].b] = tx[a].parent

\* Cancel and RetryFailed look at a snapshot of all the children.
FirstHasAll ==
    \A k \in Clients : req[k].pc = "first" =>
        /\ tx[k].b = req[k].b /\ tx[k].at # "off"
        /\ tx[k].at \in {"sync", "done"} => DOMAIN tx[k].seen = Items(tx[k].b)

Snapshots == SeenIsOld /\ FixIsFinal /\ FixComesFirst /\ ParentRead /\ FirstHasAll

\* The counters of a row are at most those of some statuses.
CountersWithin(row, statuses) ==
    /\ row.success <= CountIn(statuses, {"SUCCESS"})
    /\ row.failed <= CountIn(statuses, FailedStatuses)
    /\ row.cancelled <= CountIn(statuses, {"CANCELLED"})

CountersAre(row, statuses) ==
    /\ row.success = CountIn(statuses, {"SUCCESS"})
    /\ row.failed = CountIn(statuses, FailedStatuses)
    /\ row.cancelled = CountIn(statuses, {"CANCELLED"})

\* What was counted has happened, and is in every later snapshot.
CountsAreReached ==
    /\ \A b \in Batches : CountersWithin(batch[b], Current(b))
    /\ \A a \in Actors : tx[a].at = "write" => CountersWithin(batch[tx[a].b], tx[a].seen)

\* A closed row is what its children add up to.
ClosedIsFinal ==
    \A b \in Batches : Closed(b) =>
        /\ \A c \in Items(b) : Ended(c)
        /\ batch[b].status = AggregateStatus(Current(b))
        /\ CountersAre(batch[b], Current(b))
        /\ parent[b] = batch[b].status

BatchRowsTrue == CountsAreReached /\ ClosedIsFinal /\ FailFastStops

Covered(c) == Ended(c) \/ (child[c] = "RUNNING" /\ c \in cancelMark)

\* Cancel has covered every child that is not in its list any more.
CancelProgress ==
    \A k \in Clients : req[k].op = "cancel" =>
        /\ req[k].pc # "queue"
        /\ req[k].pc \in {"cancel", "reconcile", "last"} =>
              \A c \in Items(req[k].b) : c \in req[k].todo \/ Covered(c)
        /\ req[k].pc = "last" => req[k].todo = {}

\* A batch that was cancelled exists.
CancelledExist == \A b \in cancelOK : batch[b].status # NoTask

RequestsKeep == CancelProgress /\ CancelledExist /\ CancelCoversAll /\ RetryOnlyFailed

Refreshing == {"lock", "items", "fix", "write"}

\* The worker that saved a child has still to commit its reconcile.
Reports(w, c) ==
    wpc[w] = "reconcile" /\ wchild[w] = c /\ tx[w].b = c[1] /\ tx[w].at \in Refreshing

Failing(b) == \E c \in Items(b) : child[c] \in FailedStatuses
Startable(b) == \E c \in Items(b) : child[c] \in Unstarted

\* RUNNING children have a worker, or nobody can claim another.
RunningOwned ==
    /\ proc \in {"list", "reconcile", "queue"} => \A c \in Children : child[c] # "RUNNING"
    /\ proc = "up" /\ ~ctxDone =>
          \A c \in Children : child[c] = "RUNNING" =>
              \E w \in Workers : Executing(w) /\ wchild[w] = c

\* Whoever reports a failure has it in its snapshot.
ReportsAreSeen ==
    /\ \A w \in Workers : \A c \in Children :
          Reports(w, c) => Ended(c) /\ (tx[w].at = "write" => tx[w].seen[c] = child[c])
    /\ tx[Recovery].at # "off" => proc = "reconcile"
    /\ tx[Recovery].at = "write" =>
          \A c \in Items(tx[Recovery].b) : child[c] \in FailedStatuses
              => tx[Recovery].seen[c] = child[c]

\* A failure is about to be reported, or has stopped the batch.
FailuresReported ==
    \A b \in Batches : ~batch[b].continueOnFailure /\ Startable(b) =>
        /\ proc = "reconcile" /\ Failing(b) =>
              b \in toReconcile \/ (tx[Recovery].b = b /\ tx[Recovery].at \in Refreshing)
        /\ proc = "queue" => ~Failing(b)
        /\ proc = "up" /\ ~ctxDone =>
              \A c \in Items(b) : child[c] \in FailedStatuses => \E w \in Workers : Reports(w, c)

\* The children that failed or may still fail.
AtRisk(b) == {c \in Items(b) : child[c] \in FailedStatuses \cup {"RUNNING"}}
RiskBound ==
    \A b \in Batches : ~batch[b].continueOnFailure => Cardinality(AtRisk(b)) <= Cardinality(Workers)

FailFast == RunningOwned /\ ReportsAreSeen /\ FailuresReported /\ RiskBound

\* The children marked before InterruptRunning are still running, so a batch
\* that has a row that cannot be read was open when that row came about, and
\* stays open.
Readable ==
    /\ proc # "interrupt" => recentMarks = {}
    /\ \A c \in recentMarks : child[c] = "RUNNING"
    /\ \A b \in Batches : Closed(b) => \A c \in unreadable : c[1] # b

\* The inductive invariant.
IInv == Shape /\ Locks /\ Snapshots /\ BatchRowsTrue /\ RequestsKeep /\ FailFast /\ Readable
-----------------------------------------------------------------------------
(***************************************************************************)
(* The operators                                                           *)
(***************************************************************************)
LockTx(b, sync) == [NoTx EXCEPT !.at = "lock", !.b = b, !.sync = sync]

\* Every status is one of the eight, and NoTask is none of them.
LEMMA StatusFacts ==
    /\ Terminal \subseteq Statuses /\ NoTask \notin Statuses
    /\ Unstarted \subseteq Statuses /\ Unstarted \cap Terminal = {}
    /\ FailedStatuses \subseteq Terminal
    /\ Statuses = Unstarted \cup {"RUNNING"} \cup Terminal
    /\ "RUNNING" \notin Terminal \cup Unstarted
BY DEF Terminal, Statuses, NoTask, Unstarted, FailedStatuses

\* A snapshot maps children to statuses.
LEMMA SeenFacts ==
    /\ <<>> \in Seen /\ DOMAIN <<>> = {}
    /\ \A f \in Seen : DOMAIN f \subseteq Children /\ \A c \in DOMAIN f : f[c] \in Statuses
    /\ \A S \in SUBSET Children : \A f \in [S -> Statuses] : f \in Seen
<1>1. <<>> \in [{} -> Statuses] /\ DOMAIN <<>> = {}
  OBVIOUS
<1> QED BY <1>1 DEF Seen

\* The transaction records that begin and end a RefreshBatch.
LEMMA TxRecords ==
    /\ NoTx \in Transactions /\ NoTx.at = "off" /\ NoTx.cancels = {} /\ NoTx.seen = <<>>
    /\ NoTx.fixed = FALSE /\ NoTx.b = Nobody
    /\ \A b \in Batches, sync \in BOOLEAN :
          /\ LockTx(b, sync) \in Transactions /\ LockTx(b, sync).at = "lock"
          /\ LockTx(b, sync).b = b /\ LockTx(b, sync).cancels = {}
          /\ LockTx(b, sync).seen = <<>> /\ LockTx(b, sync).fixed = FALSE
<1>1. NoTx \in Transactions
  BY SeenFacts DEF NoTx, Transactions
<1>2. /\ NoTx.at = "off" /\ NoTx.cancels = {} /\ NoTx.seen = <<>>
      /\ NoTx.fixed = FALSE /\ NoTx.b = Nobody
  BY DEF NoTx
<1>3. ASSUME NEW b \in Batches, NEW sync \in BOOLEAN
      PROVE  /\ LockTx(b, sync) \in Transactions /\ LockTx(b, sync).at = "lock"
             /\ LockTx(b, sync).b = b /\ LockTx(b, sync).cancels = {}
             /\ LockTx(b, sync).seen = <<>> /\ LockTx(b, sync).fixed = FALSE
  BY <1>1, <1>2 DEF LockTx, Transactions
<1> QED BY <1>1, <1>2, <1>3

\* The children of a batch.
LEMMA ChildrenArePairs ==
    \A c \in Children : c[1] \in Batches /\ c[2] \in Devices /\ c = <<c[1], c[2]>>
BY DEF Children

\* A set of naturals that is not empty has a least element.
LEMMA Least == ASSUME NEW T \in SUBSET Nat, T # {} PROVE \E x \in T : \A y \in T : x <= y
<1>1. PICK x \in T : \A y \in T : ~(<<y, x>> \in OpToRel(<, Nat))
  BY NatLessThanWellFounded, WFMin
<1>2. ASSUME NEW y \in T PROVE x <= y
  <2>1. ~(y < x)
    BY <1>1 DEF OpToRel
  <2> QED BY <2>1
<1> QED BY <1>2

\* The item a loop takes next is one of those it has left.
LEMMA FirstItemIsLeft ==
    ASSUME NEW S \in SUBSET Children, S # {} PROVE FirstItem(S) \in S
<1> DEFINE T == {c[2] : c \in S}
<1>1. T \in SUBSET Nat /\ T # {}
  BY ChildrenArePairs, BatchAssumption DEF Devices
<1>2. PICK x \in T : \A y \in T : x <= y
  BY <1>1, Least
<1>3. PICK c \in S : c[2] = x
  OBVIOUS
<1>4. \E m \in S : \A d \in S : m[2] <= d[2]
  BY <1>2, <1>3
<1> QED BY <1>4 DEF FirstItem

\* A batch has finitely many children.
LEMMA ItemsFinite ==
    ASSUME NEW b \in Batches PROVE IsFiniteSet({c \in Children : c[1] = b})
<1>1. IsFiniteSet(Devices)
  <2>1. 1 \in Int /\ NDevices \in Int
    BY BatchAssumption
  <2> QED BY <2>1, FS_Interval DEF Devices
<1>2. IsFiniteSet({b} \X Devices)
  <2>1. IsFiniteSet({b})
    BY FS_Singleton
  <2> QED BY <1>1, <2>1, FS_Product
<1>3. {c \in Children : c[1] = b} \in SUBSET ({b} \X Devices)
  BY DEF Children
<1> QED BY <1>2, <1>3, FS_Subset

\* Counting: a count is a natural number, it is zero exactly when nothing is
\* counted, it grows when more is counted, and it is complete when everything
\* is counted.
LEMMA CountFacts ==
    ASSUME NEW f, IsFiniteSet(DOMAIN f), NEW S
    PROVE  /\ CountIn(f, S) \in Nat
           /\ CountIn(f, S) > 0 <=> \E c \in DOMAIN f : f[c] \in S
           /\ CountIn(f, S) <= Cardinality(DOMAIN f)
           /\ CountIn(f, S) = Cardinality(DOMAIN f) <=> \A c \in DOMAIN f : f[c] \in S
<1> DEFINE C == {c \in DOMAIN f : f[c] \in S}
           D == DOMAIN f
<1>1. C \in SUBSET D /\ IsFiniteSet(D)
  OBVIOUS
<1>2. IsFiniteSet(C) /\ Cardinality(C) <= Cardinality(D) /\ (Cardinality(D) = Cardinality(C) => D = C)
  BY <1>1, FS_Subset
<1>3. Cardinality(C) \in Nat /\ Cardinality(D) \in Nat
  BY <1>1, <1>2, FS_CardinalityType
<1>4. Cardinality(C) = 0 <=> C = {}
  BY <1>2, FS_EmptySet
<1>5. (\A c \in DOMAIN f : f[c] \in S) => C = D
  OBVIOUS
<1>6. C = D => \A c \in DOMAIN f : f[c] \in S
  OBVIOUS
<1>7. C = {} <=> ~\E c \in DOMAIN f : f[c] \in S
  OBVIOUS
<1>8. CountIn(f, S) = Cardinality(C)
  BY DEF CountIn
<1> HIDE DEF C, D
<1>9. CountIn(f, S) = Cardinality(D) <=> C = D
  BY <1>2, <1>8
<1> QED BY <1>2, <1>3, <1>4, <1>5, <1>6, <1>7, <1>8, <1>9 DEF D

\* More is counted in a function that has everything another counts.
LEMMA CountGrows ==
    ASSUME NEW f, NEW g, IsFiniteSet(DOMAIN g), DOMAIN f \subseteq DOMAIN g, NEW S,
           \A c \in DOMAIN f : f[c] \in S => g[c] \in S
    PROVE  CountIn(f, S) <= CountIn(g, S)
<1> DEFINE C == {c \in DOMAIN f : f[c] \in S}
           D == {c \in DOMAIN g : g[c] \in S}
<1>1. C \in SUBSET D /\ D \in SUBSET DOMAIN g
  OBVIOUS
<1>2. IsFiniteSet(D)
  BY <1>1, FS_Subset
<1>3. CountIn(f, S) = Cardinality(C) /\ CountIn(g, S) = Cardinality(D)
  BY DEF CountIn
<1> HIDE DEF C, D
<1> QED BY <1>1, <1>2, <1>3, FS_Subset

\* Three counts that exclude each other are together at most all, and are all
\* exactly when everything has ended.
LEMMA CountSplits ==
    ASSUME NEW f, IsFiniteSet(DOMAIN f)
    PROVE  LET n == CountIn(f, {"SUCCESS"}) + CountIn(f, FailedStatuses) + CountIn(f, {"CANCELLED"})
           IN  /\ n <= Cardinality(DOMAIN f)
               /\ (\A c \in DOMAIN f : f[c] \in Terminal) <=> n = Cardinality(DOMAIN f)
<1> DEFINE D == DOMAIN f
           A == {c \in D : f[c] \in {"SUCCESS"}}
           B == {c \in D : f[c] \in FailedStatuses}
           C == {c \in D : f[c] \in {"CANCELLED"}}
<1>1. A \cap B = {} /\ (A \cup B) \cap C = {} /\ (A \cup B) \cup C \in SUBSET D
  BY DEF FailedStatuses
<1>2. (\A c \in D : f[c] \in Terminal) <=> (A \cup B) \cup C = D
  BY DEF FailedStatuses, Terminal
<1>3. A \in SUBSET D /\ B \in SUBSET D /\ C \in SUBSET D /\ IsFiniteSet(D)
  OBVIOUS
<1>4. CountIn(f, {"SUCCESS"}) = Cardinality(A) /\ CountIn(f, FailedStatuses) = Cardinality(B)
      /\ CountIn(f, {"CANCELLED"}) = Cardinality(C)
  BY DEF CountIn
<1> HIDE DEF A, B, C
<1>5. IsFiniteSet(A) /\ IsFiniteSet(B) /\ IsFiniteSet(C)
  BY <1>3, FS_Subset
<1>6. Cardinality(A) \in Nat /\ Cardinality(B) \in Nat /\ Cardinality(C) \in Nat /\ Cardinality(D) \in Nat
  BY <1>3, <1>5, FS_CardinalityType
<1>7. Cardinality({}) = 0
  BY FS_EmptySet
<1>8. IsFiniteSet(A \cup B) /\ Cardinality(A \cup B) = Cardinality(A) + Cardinality(B)
  <2>1. Cardinality(A \cup B) = Cardinality(A) + Cardinality(B) - Cardinality(A \cap B)
        /\ IsFiniteSet(A \cup B)
    BY <1>5, FS_Union
  <2>2. Cardinality(A \cap B) = 0
    BY <1>1, <1>7
  <2> QED BY <2>1, <2>2, <1>6
<1>9. Cardinality((A \cup B) \cup C) = Cardinality(A) + Cardinality(B) + Cardinality(C)
  <2> DEFINE E == A \cup B
  <2>1. Cardinality(E \cup C) = Cardinality(E) + Cardinality(C) - Cardinality(E \cap C)
    <3> HIDE DEF E
    <3> QED BY <1>5, <1>8, FS_Union DEF E
  <2>2. Cardinality(E \cap C) = 0
    BY <1>1, <1>7
  <2> QED BY <2>1, <2>2, <1>6, <1>8
<1>10. /\ Cardinality((A \cup B) \cup C) <= Cardinality(D)
       /\ Cardinality(D) = Cardinality((A \cup B) \cup C) => D = (A \cup B) \cup C
  <2> DEFINE E == (A \cup B) \cup C
  <2>1. E \in SUBSET D
    BY <1>1
  <2> HIDE DEF E
  <2>2. Cardinality(E) <= Cardinality(D) /\ (Cardinality(D) = Cardinality(E) => D = E)
    BY <2>1, <1>3, FS_Subset
  <2> QED BY <2>2 DEF E
<1> QED BY <1>2, <1>4, <1>6, <1>9, <1>10

\* AggregateStatus is final exactly when everything has ended, and then says
\* how it ended.
LEMMA AggregateFacts ==
    ASSUME NEW f, \A c \in DOMAIN f : f[c] \in Statuses, DOMAIN f # {}
    PROVE  /\ AggregateStatus(f) \in Statuses
           /\ AggregateStatus(f) \in Terminal <=> \A c \in DOMAIN f : f[c] \in Terminal
           /\ AggregateStatus(f) = "SUCCESS" <=> \A c \in DOMAIN f : f[c] = "SUCCESS"
           /\ AggregateStatus(f) = "CANCELLED" <=> \A c \in DOMAIN f : f[c] = "CANCELLED"
<1> DEFINE S == {f[c] : c \in DOMAIN f}
<1>1. S \subseteq Statuses /\ S # {}
  OBVIOUS
<1>2. AggregateStatus(f) =
        CASE "RUNNING" \in S               -> "RUNNING"
          [] "RUNNING" \notin S /\ S \cap Unstarted # {} -> "QUEUED"
          [] S = {"SUCCESS"}               -> "SUCCESS"
          [] S \subseteq {"FAILED", "INTERRUPTED"} -> "FAILED"
          [] S = {"CANCELLED"}             -> "CANCELLED"
          [] OTHER                         -> "PARTIAL_SUCCESS"
  BY DEF AggregateStatus
<1>3. (S \subseteq Terminal) <=> (\A c \in DOMAIN f : f[c] \in Terminal)
  OBVIOUS
<1>4. S = {"SUCCESS"} <=> (\A c \in DOMAIN f : f[c] = "SUCCESS")
  OBVIOUS
<1>5. S = {"CANCELLED"} <=> (\A c \in DOMAIN f : f[c] = "CANCELLED")
  OBVIOUS
<1> HIDE DEF S
<1>6. CASE "RUNNING" \in S
  <2>1. AggregateStatus(f) = "RUNNING"
    BY <1>2, <1>6, <1>1 DEF Unstarted
  <2> QED BY <2>1, <1>6, <1>3, <1>4, <1>5 DEF Terminal, Statuses
<1>7. CASE "RUNNING" \notin S /\ S \cap Unstarted # {}
  <2>1. PICK s \in S : s \in Unstarted
    BY <1>7
  <2>2. AggregateStatus(f) = "QUEUED"
    BY <1>2, <1>7, <2>1 DEF Unstarted
  <2> QED BY <2>1, <2>2, <1>3, <1>4, <1>5 DEF Terminal, Statuses, Unstarted
<1>8. CASE "RUNNING" \notin S /\ S \cap Unstarted = {}
  <2>1. S \subseteq Terminal
    BY <1>8, <1>1, StatusFacts
  <2>2. CASE S = {"SUCCESS"}
    <3>1. AggregateStatus(f) = "SUCCESS"
      BY <1>2, <1>8, <2>2
    <3> QED BY <3>1, <2>1, <2>2, <1>3, <1>4, <1>5 DEF Terminal, Statuses
  <2>3. CASE S = {"CANCELLED"}
    <3>1. AggregateStatus(f) = "CANCELLED"
      BY <1>2, <1>8, <2>3
    <3> QED BY <3>1, <2>1, <2>3, <1>3, <1>4, <1>5 DEF Terminal, Statuses
  <2>4. CASE S # {"SUCCESS"} /\ S # {"CANCELLED"}
    <3>1. AggregateStatus(f) \in {"FAILED", "PARTIAL_SUCCESS"}
      BY <1>2, <1>8, <2>4
    <3> QED BY <3>1, <2>1, <2>4, <1>3, <1>4, <1>5 DEF Terminal, Statuses
  <2> QED BY <2>2, <2>3, <2>4
<1> QED BY <1>6, <1>7, <1>8

-----------------------------------------------------------------------------
(***************************************************************************)
(* The initial state                                                       *)
(***************************************************************************)
LEMMA InitIInv == Init => IInv
<1> SUFFICES ASSUME Init PROVE IInv
  OBVIOUS
<1>1. Shape
  <2>1. NoBatch \in BatchRows
    BY DEF NoBatch, BatchRows
  <2>2. NoRequest \in Requests
    BY DEF NoRequest, Requests
  <2> QED BY <2>1, <2>2, TxRecords DEF Init, Shape
<1>2. \A a \in Actors : tx[a].at = "off" /\ tx[a].cancels = {} /\ tx[a].seen = <<>>
                        /\ tx[a].fixed = FALSE
  BY TxRecords DEF Init
<1>3. \A b \in Batches : batch[b].status = NoTask /\ batch[b].success = 0 /\ batch[b].failed = 0
                         /\ batch[b].cancelled = 0 /\ batch[b].continueOnFailure
                         /\ batch[b].retryOf = Nobody
  BY DEF Init, NoBatch
<1>4. \A k \in Clients : req[k].pc = "idle" /\ req[k].todo = {}
  BY DEF Init, NoRequest
<1>5. \A c \in Children : child[c] = NoTask
  BY DEF Init
<1>6. \A b \in Batches : Items(b) = {}
  BY <1>5 DEF Items
<1>7. Locks
  BY <1>2, <1>3, <1>4, <1>5 DEF Init, Locks, Exclusive, CancelsLocked, TxHasBatch, RowsTogether,
     WorkersOwn, RequestsHold, Executing, Held
<1>8. Snapshots
  BY <1>2, <1>4, SeenFacts DEF Snapshots, SeenIsOld, FixIsFinal, FixComesFirst, ParentRead,
     FirstHasAll, Held
<1>9. BatchRowsTrue
  <2>1. ASSUME NEW b \in Batches PROVE CountersWithin(batch[b], Current(b))
    <3>1. DOMAIN Current(b) = {}
      BY <1>6 DEF Current
    <3>2. IsFiniteSet(DOMAIN Current(b))
      BY <3>1, FS_EmptySet
    <3> QED BY <3>2, <1>3, CountFacts DEF CountersWithin
  <2>2. \A b \in Batches : ~Closed(b)
    BY <1>3, StatusFacts DEF Closed
  <2> QED BY <2>1, <2>2, <1>2, <1>3 DEF BatchRowsTrue, CountsAreReached, ClosedIsFinal, FailFastStops
<1>10. RequestsKeep
  BY <1>4, <1>5 DEF Init, RequestsKeep, CancelProgress, CancelledExist, CancelCoversAll, RetryOnlyFailed,
     NoRequest
<1>11. FailFast
  <2>1. Recovery \in Actors /\ tx[Recovery].at = "off"
    BY <1>2 DEF Actors
  <2> QED BY <2>1, <1>3, <1>5 DEF Init, FailFast, RunningOwned, ReportsAreSeen, FailuresReported,
          RiskBound, Reports, Refreshing
<1>12. Readable
  BY <1>3, StatusFacts DEF Init, Readable, Closed
<1> QED BY <1>1, <1>7, <1>8, <1>9, <1>10, <1>11, <1>12 DEF IInv

-----------------------------------------------------------------------------
(***************************************************************************)
(* What a step does to the transactions                                    *)
(***************************************************************************)
NewTx(t) ==
    \/ t = NoTx
    \/ \E b \in Batches, sync \in BOOLEAN : batch[b].status # NoTask /\ t = LockTx(b, sync)

\* No transaction reads or writes a batch: one may begin, end or be lost.
TxQuiet ==
    /\ tx' \in [Actors -> Transactions]
    /\ \A a \in Actors :
          \/ tx'[a] = tx[a]
          \/ NewTx(tx'[a])
          \/ tx[a].at = "sync" /\ tx'[a] = [tx[a] EXCEPT !.at = "done"]

OthersKeep(a) == tx' \in [Actors -> Transactions] /\ \A x \in Actors \ {a} : tx'[x] = tx[x]

\* A call of RefreshBatch starts before the lock, with nothing read.
LEMMA CallQuiet ==
    ASSUME Shape, NEW a \in Actors, NEW b \in Batches, batch[b].status # NoTask,
           NEW sync \in BOOLEAN, tx' = Call(a, b, sync)
    PROVE  TxQuiet /\ OthersKeep(a) /\ tx'[a] = LockTx(b, sync)
<1>1. tx' = [tx EXCEPT ![a] = LockTx(b, sync)]
  BY DEF Call, LockTx
<1>2. LockTx(b, sync) \in Transactions
  BY TxRecords
<1> QED BY <1>1, <1>2 DEF Shape, TxQuiet, OthersKeep, NewTx

\* A transaction that is over leaves nothing behind.
LEMMA ForgetQuiet ==
    ASSUME Shape, NEW a \in Actors, Forget(a)
    PROVE  TxQuiet /\ OthersKeep(a) /\ tx'[a] = NoTx
BY TxRecords DEF Shape, TxQuiet, OthersKeep, NewTx, Forget

\* No transaction moves.
LEMMA SameQuiet == ASSUME Shape, tx' = tx PROVE TxQuiet
BY DEF Shape, TxQuiet

\* SyncDirectTerminalAudits only ends the call.
LEMMA SyncQuiet ==
    ASSUME Shape, NEW a \in Actors, SyncDirectTerminalAudits(a)
    PROVE  TxQuiet /\ OthersKeep(a)
<1>1. tx[a] \in Transactions
  BY DEF Shape
<1>2. [tx[a] EXCEPT !.at = "done"] \in Transactions
  BY <1>1 DEF Transactions
<1> QED BY <1>2 DEF Shape, TxQuiet, OthersKeep, SyncDirectTerminalAudits

\* The first statements: the lock, the batch and the parent.
LEMMA LockEffect ==
    ASSUME Shape, Locks, NEW a \in Actors, RefreshLock(a)
    PROVE  /\ OthersKeep(a)
           /\ tx'[a] = [tx[a] EXCEPT !.at = "items", !.parent = parent[tx[a].b]]
           /\ tx'[a].at = "items" /\ tx'[a].parent = parent[tx[a].b] /\ tx'[a].b = tx[a].b
           /\ tx'[a].sync = tx[a].sync /\ tx'[a].fixed = tx[a].fixed /\ tx'[a].seen = tx[a].seen
           /\ tx'[a].cancels = tx[a].cancels
<1>1. tx[a] \in Transactions /\ tx[a].b \in Batches
  BY DEF Shape, Locks, TxHasBatch, RefreshLock
<1>2. parent[tx[a].b] \in Statuses \cup {NoTask}
  BY <1>1 DEF Shape
<1> DEFINE t == [tx[a] EXCEPT !.at = "items", !.parent = parent[tx[a].b]]
<1>3. t \in Transactions /\ t.at = "items" /\ t.parent = parent[tx[a].b] /\ t.b = tx[a].b
      /\ t.sync = tx[a].sync /\ t.fixed = tx[a].fixed /\ t.seen = tx[a].seen
      /\ t.cancels = tx[a].cancels
  BY <1>1, <1>2 DEF Transactions
<1>4. tx' = [tx EXCEPT ![a] = t]
  BY DEF RefreshLock
<1> HIDE DEF t
<1>5. tx' \in [Actors -> Transactions] /\ tx'[a] = t /\ \A x \in Actors \ {a} : tx'[x] = tx[x]
  BY <1>3, <1>4 DEF Shape
<1> QED BY <1>3, <1>5 DEF OthersKeep, t

\* The items of the snapshot, as the transaction sees them.
LEMMA ItemsEffect ==
    ASSUME Shape, Locks, NEW a \in Actors, RefreshItems(a)
    PROVE  /\ OthersKeep(a)
           /\ tx'[a].seen = [c \in Items(tx[a].b) |-> View(a, c)]
           /\ tx'[a].at = IF /\ ~batch[tx[a].b].continueOnFailure
                             /\ ~tx[a].fixed
                             /\ HasFailedChild([c \in Items(tx[a].b) |-> View(a, c)])
                          THEN "fix" ELSE "write"
           /\ tx'[a].b = tx[a].b /\ tx'[a].sync = tx[a].sync /\ tx'[a].fixed = tx[a].fixed
           /\ tx'[a].parent = tx[a].parent /\ tx'[a].cancels = tx[a].cancels
<1> DEFINE s == [c \in Items(tx[a].b) |-> View(a, c)]
           p == IF /\ ~batch[tx[a].b].continueOnFailure
                   /\ ~tx[a].fixed
                   /\ HasFailedChild(s)
                THEN "fix" ELSE "write"
           t == [tx[a] EXCEPT !.seen = s, !.at = p]
<1>1. tx[a] \in Transactions
  BY DEF Shape
<1>2. s \in Seen
  <2>1. Items(tx[a].b) \in SUBSET Children
    BY DEF Items
  <2>2. \A c \in Items(tx[a].b) : View(a, c) \in Statuses
    BY DEF Items, View, Shape, Statuses, Terminal
  <2> QED BY <2>1, <2>2, SeenFacts
<1>3. p \in {"fix", "write"}
  OBVIOUS
<1>4. tx' = [tx EXCEPT ![a] = t]
  BY DEF RefreshItems, View
<1> HIDE DEF s, p
<1>5. t \in Transactions /\ t.seen = s /\ t.at = p /\ t.b = tx[a].b /\ t.sync = tx[a].sync
      /\ t.fixed = tx[a].fixed /\ t.parent = tx[a].parent /\ t.cancels = tx[a].cancels
  BY <1>1, <1>2, <1>3 DEF Transactions
<1> HIDE DEF t
<1>6. tx' \in [Actors -> Transactions] /\ tx'[a] = t /\ \A x \in Actors \ {a} : tx'[x] = tx[x]
  BY <1>4, <1>5 DEF Shape
<1> QED BY <1>5, <1>6 DEF OthersKeep, s, p

\* The UPDATE of the unstarted children.
LEMMA FixEffect ==
    ASSUME Shape, Locks, NEW a \in Actors, RefreshFix(a)
    PROVE  /\ OthersKeep(a)
           /\ tx'[a].cancels = {c \in Items(tx[a].b) : child[c] \in Unstarted}
           /\ tx'[a].parent = parent[tx[a].b] /\ tx'[a].fixed = TRUE /\ tx'[a].at = "items"
           /\ tx'[a].b = tx[a].b /\ tx'[a].sync = tx[a].sync /\ tx'[a].seen = tx[a].seen
<1> DEFINE C == {c \in Items(tx[a].b) : child[c] \in Unstarted}
           t == [tx[a] EXCEPT !.cancels = C, !.parent = parent[tx[a].b], !.fixed = TRUE, !.at = "items"]
<1>1. tx[a] \in Transactions /\ tx[a].b \in Batches
  BY DEF Shape, Locks, TxHasBatch, RefreshFix
<1>2. parent[tx[a].b] \in Statuses \cup {NoTask} /\ C \in SUBSET Children
  BY <1>1 DEF Shape, Items
<1>3. tx' = [tx EXCEPT ![a] = t]
  BY DEF RefreshFix
<1> HIDE DEF C
<1>4. t \in Transactions /\ t.cancels = C /\ t.parent = parent[tx[a].b] /\ t.fixed = TRUE
      /\ t.at = "items" /\ t.b = tx[a].b /\ t.sync = tx[a].sync /\ t.seen = tx[a].seen
  BY <1>1, <1>2 DEF Transactions
<1> HIDE DEF t
<1>5. tx' \in [Actors -> Transactions] /\ tx'[a] = t /\ \A x \in Actors \ {a} : tx'[x] = tx[x]
  BY <1>3, <1>4 DEF Shape
<1> QED BY <1>4, <1>5 DEF OthersKeep, C

\* What is known of a snapshot that is about to be written.
LEMMA WriteKnows ==
    ASSUME Shape, Locks, Snapshots, NEW a \in Actors, tx[a].at = "write"
    PROVE  /\ tx[a] \in Transactions /\ tx[a].b \in Batches
           /\ DOMAIN tx[a].seen = Items(tx[a].b) /\ Items(tx[a].b) # {}
           /\ IsFiniteSet(Items(tx[a].b))
           /\ \A c \in Items(tx[a].b) : tx[a].seen[c] \in Statuses
<1>1. tx[a] \in Transactions /\ tx[a].b \in Batches /\ batch[tx[a].b].status # NoTask
  BY DEF Shape, Locks, TxHasBatch
<1>2. DOMAIN tx[a].seen = Items(tx[a].b)
  BY DEF Snapshots, SeenIsOld
<1>3. Items(tx[a].b) # {}
  BY <1>1 DEF Locks, RowsTogether, Items
<1>4. IsFiniteSet(Items(tx[a].b))
  <2>1. Items(tx[a].b) \in SUBSET {c \in Children : c[1] = tx[a].b}
    BY DEF Items
  <2> QED BY <1>1, <2>1, ItemsFinite, FS_Subset
<1>5. tx[a].seen \in Seen
  BY <1>1 DEF Transactions
<1> QED BY <1>1, <1>2, <1>3, <1>4, <1>5, SeenFacts

\* The transaction commits: the row and the parent are what the snapshot says,
\* and the children what the transaction made of them.
LEMMA WriteEffect ==
    ASSUME Shape, Locks, Snapshots, NEW a \in Actors, RefreshWrite(a)
    PROVE  /\ OthersKeep(a)
           /\ tx'[a].at \in {"sync", "done"} /\ tx'[a].b = tx[a].b /\ tx'[a].cancels = {}
           /\ tx'[a].fixed = FALSE
           /\ tx'[a].seen \in {<<>>, [c \in Items(tx[a].b) |-> View(a, c)]}
           /\ a \in Clients /\ req[a].pc = "first"
                => tx'[a].seen = [c \in Items(tx[a].b) |-> View(a, c)]
           /\ child' = [c \in Children |-> View(a, c)]
           /\ batch' \in [Batches -> BatchRows]
           /\ \A b \in Batches \ {tx[a].b} : batch'[b] = batch[b]
           /\ batch'[tx[a].b].status = AggregateStatus(tx[a].seen)
           /\ CountersAre(batch'[tx[a].b], tx[a].seen)
           /\ batch'[tx[a].b].continueOnFailure = batch[tx[a].b].continueOnFailure
           /\ batch'[tx[a].b].retryOf = batch[tx[a].b].retryOf
           /\ parent' \in [Batches -> Statuses \cup {NoTask}]
           /\ \A b \in Batches \ {tx[a].b} : parent'[b] = parent[b]
           /\ AggregateStatus(tx[a].seen) \in Terminal
                => parent'[tx[a].b] = AggregateStatus(tx[a].seen)
           /\ parentAudit' \in [Batches -> Terminal \cup {"NONE", "OPEN"}]
<1> DEFINE b == tx[a].b
           s == tx[a].seen
           aggregate == AggregateStatus(tx[a].seen)
           row == [batch[b] EXCEPT !.status = aggregate,
                     !.success = CountIn(tx[a].seen, {"SUCCESS"}),
                     !.failed = CountIn(tx[a].seen, FailedStatuses),
                     !.cancelled = CountIn(tx[a].seen, {"CANCELLED"})]
           after == [c \in Items(b) |-> View(a, c)]
           wanted == a \in Clients /\ req[a].pc = "first"
           at == IF tx[a].sync THEN "sync" ELSE "done"
           status == IF wanted THEN aggregate ELSE NoTask
           seen == IF wanted THEN after ELSE <<>>
           t == [NoTx EXCEPT !.at = at, !.b = b, !.status = status, !.seen = seen]
<1>0. tx[a].at = "write"
  BY DEF RefreshWrite
<1>1. /\ tx[a] \in Transactions /\ b \in Batches /\ DOMAIN s = Items(b) /\ Items(b) # {}
      /\ IsFiniteSet(DOMAIN s) /\ \A c \in DOMAIN s : s[c] \in Statuses
  BY <1>0, WriteKnows
<1>2. aggregate \in Statuses
  BY <1>1, AggregateFacts
<1>3. /\ CountIn(s, {"SUCCESS"}) \in Nat /\ CountIn(s, FailedStatuses) \in Nat
      /\ CountIn(s, {"CANCELLED"}) \in Nat
  BY <1>1, CountFacts
<1>4. after \in Seen
  <2>1. Items(b) \in SUBSET Children
    BY DEF Items
  <2>2. \A c \in Items(b) : View(a, c) \in Statuses
    BY DEF Items, View, Shape, Statuses, Terminal
  <2> QED BY <2>1, <2>2, SeenFacts
<1>5. child' = [c \in Children |-> View(a, c)]
  BY DEF RefreshWrite, View
<1>6. batch' = [batch EXCEPT ![b] = row]
  BY DEF RefreshWrite
<1>7. tx' = [tx EXCEPT ![a] = t]
  <2>1. [c \in Items(b) |-> IF c \in tx[a].cancels THEN "CANCELLED" ELSE child[c]] = after
    BY DEF View
  <2>2. [c \in Items(b) |-> [d \in Children |-> IF d \in tx[a].cancels THEN "CANCELLED" ELSE child[d]][c]]
           = [c \in Items(b) |-> IF c \in tx[a].cancels THEN "CANCELLED" ELSE child[c]]
    BY DEF Items
  <2> HIDE DEF after
  <2> QED BY <2>1, <2>2 DEF RefreshWrite
<1>8. parent' = [parent EXCEPT ![b] =
              IF tx[a].parent # (IF aggregate \in Terminal THEN aggregate ELSE "RUNNING")
                 \/ row # batch[b]
              THEN (IF aggregate \in Terminal THEN aggregate ELSE "RUNNING") ELSE @]
  BY DEF RefreshWrite
<1>9. parentAudit' = [parentAudit EXCEPT ![b] =
              IF aggregate \in Terminal /\ tx[a].parent \notin Terminal THEN aggregate ELSE @]
  BY DEF RefreshWrite
<1>10. at \in {"sync", "done"} /\ status \in Statuses \cup {NoTask}
       /\ seen \in {<<>>, after} /\ seen \in Seen /\ (wanted => seen = after)
  BY <1>2, <1>4, SeenFacts
<1> HIDE DEF aggregate, after, wanted, at, status, seen
<1>11. t \in Transactions /\ t.at = at /\ t.b = b /\ t.seen = seen /\ t.cancels = {} /\ t.fixed = FALSE
  BY <1>1, <1>10, TxRecords DEF Transactions
<1>12. row \in BatchRows /\ row.status = aggregate /\ row.success = CountIn(s, {"SUCCESS"})
       /\ row.failed = CountIn(s, FailedStatuses) /\ row.cancelled = CountIn(s, {"CANCELLED"})
       /\ row.continueOnFailure = batch[b].continueOnFailure /\ row.retryOf = batch[b].retryOf
  <2>1. batch[b] \in BatchRows
    BY <1>1 DEF Shape
  <2> QED BY <2>1, <1>2, <1>3 DEF BatchRows
<1> HIDE DEF t, row
<1>13. tx' \in [Actors -> Transactions] /\ tx'[a] = t /\ \A x \in Actors \ {a} : tx'[x] = tx[x]
  BY <1>7, <1>11 DEF Shape
<1>14. batch' \in [Batches -> BatchRows] /\ batch'[b] = row
       /\ \A x \in Batches \ {b} : batch'[x] = batch[x]
  BY <1>1, <1>6, <1>12 DEF Shape
<1>15. CountersAre(batch'[b], s)
  BY <1>12, <1>14 DEF CountersAre
<1>16. parent' \in [Batches -> Statuses \cup {NoTask}]
       /\ \A x \in Batches \ {b} : parent'[x] = parent[x]
  BY <1>1, <1>2, <1>8, StatusFacts DEF Shape, Statuses
<1>17. aggregate \in Terminal => parent'[b] = aggregate
  <2>1. tx[a].parent \in Terminal => parent[b] = tx[a].parent
    BY <1>0 DEF Snapshots, ParentRead, Held
  <2> QED BY <1>1, <1>8, <2>1 DEF Shape
<1>18. parentAudit' \in [Batches -> Terminal \cup {"NONE", "OPEN"}]
  BY <1>1, <1>9 DEF Shape
<1> QED BY <1>5, <1>10, <1>11, <1>12, <1>13, <1>14, <1>15, <1>16, <1>17, <1>18
    DEF OthersKeep, aggregate, wanted, after

-----------------------------------------------------------------------------
(***************************************************************************)
(* The steps that leave the batches alone                                  *)
(***************************************************************************)
Advance(c) == child'[c] = child[c] \/ CanTransitionTo(child[c], child'[c])

\* Children move along the transition table, but not those that a transaction
\* has updated, and parents that have ended stay as they are.
QuietStep ==
    /\ batch' = batch
    /\ child' \in [Children -> Statuses \cup {NoTask}]
    /\ parent' \in [Batches -> Statuses \cup {NoTask}]
    /\ \A b \in Batches : parent[b] \in Terminal => parent'[b] = parent[b]
    /\ \A c \in Children : Advance(c)
    /\ \A a \in Actors : \A c \in tx[a].cancels : child'[c] = child[c]
    /\ TxQuiet

\* A step that changes neither children nor batches nor parents is quiet.
LEMMA IdleQuiet ==
    ASSUME Shape, TxQuiet, child' = child, batch' = batch, parent' = parent
    PROVE  QuietStep
BY DEF Shape, QuietStep, Advance

\* So is one that moves a row that is not locked.
LEMMA OneChildQuiet ==
    ASSUME Shape, TxQuiet, batch' = batch, parent' = parent, NEW c \in Children, NEW s \in Statuses,
           child' = [child EXCEPT ![c] = s], child[c] = s \/ CanTransitionTo(child[c], s),
           \A a \in Actors : c \notin tx[a].cancels \/ child[c] = s
    PROVE  QuietStep
<1>1. child' \in [Children -> Statuses \cup {NoTask}]
  BY DEF Shape
<1>2. \A d \in Children : Advance(d)
  BY DEF Shape, Advance
<1>3. ASSUME NEW a \in Actors, NEW d \in tx[a].cancels PROVE child'[d] = child[d]
  <2>1. d \in Children
    BY DEF Shape, Transactions
  <2> QED BY <2>1 DEF Shape
<1> QED BY <1>1, <1>2, <1>3 DEF Shape, QuietStep

\* The end of the process rolls every transaction back.
LEMMA ExitQuiet == ASSUME Shape, Exit PROVE QuietStep
<1>1. TxQuiet
  BY TxRecords DEF Exit, TxQuiet, NewTx
<1> QED BY <1>1, IdleQuiet DEF Exit, dbVars

\* The transition table.
LEMMA TransitionFacts ==
    \A x, y : CanTransitionTo(x, y) <=>
        \/ x = "PENDING" /\ y \in {"QUEUED", "CANCELLED"}
        \/ x = "QUEUED" /\ y \in {"RUNNING", "CANCELLED"}
        \/ x = "RUNNING" /\ y \in Terminal
BY DEF CanTransitionTo, AllowedTransitions

\* The steps that read or write a batch in a transaction, or create one.
Loud ==
    \/ \E a \in Actors : RefreshLock(a) \/ RefreshItems(a) \/ RefreshFix(a) \/ RefreshWrite(a)
    \/ \E k \in Clients : Submit(k) \/ RetryLoaded(k)

\* Every other step is quiet.
LEMMA RecoveryQuiet == ASSUME Shape, Locks, RecoverStep PROVE QuietStep
<1>0. Recovery \in Actors
  BY DEF Actors
<1>1. CASE RecoverInterrupt
  <2>1. TxQuiet
    BY <1>1, SameQuiet DEF RecoverInterrupt
  <2>2. child' \in [Children -> Statuses \cup {NoTask}] /\ parent' \in [Batches -> Statuses \cup {NoTask}]
    BY <1>1, StatusFacts DEF RecoverInterrupt, Shape, Terminal, Statuses
  <2>3. \A b \in Batches : parent[b] \in Terminal => parent'[b] = parent[b]
    BY <1>1 DEF RecoverInterrupt, Terminal
  <2>4. \A c \in Children : Advance(c)
    BY <1>1, TransitionFacts DEF RecoverInterrupt, Advance, Terminal
  <2>5. ASSUME NEW a \in Actors, NEW c \in tx[a].cancels PROVE child'[c] = child[c]
    <3>1. c \in Children /\ child[c] \in Unstarted
      BY DEF Shape, Transactions, Locks, CancelsLocked
    <3> QED BY <3>1, <1>1 DEF RecoverInterrupt, Unstarted
  <2> QED BY <2>1, <2>2, <2>3, <2>4, <2>5, <1>1 DEF QuietStep, RecoverInterrupt
<1>2. CASE RecoverListOpen
  BY <1>2, SameQuiet, IdleQuiet DEF RecoverListOpen, dbVars
<1>3. CASE RecoverReconcile
  <2>1. PICK b \in toReconcile :
          /\ toReconcile' = toReconcile \ {b}
          /\ tx' = Call(Recovery, b, TRUE)
    BY <1>3 DEF RecoverReconcile
  <2>2. b \in Batches /\ batch[b].status # NoTask
    BY DEF Shape, Locks, TxHasBatch
  <2>3. TxQuiet
    BY <1>0, <2>1, <2>2, CallQuiet
  <2> QED BY <2>3, <1>3, IdleQuiet DEF RecoverReconcile, dbVars
<1>4. CASE RecoverReconciled
  <2>1. TxQuiet
    BY <1>0, <1>4, ForgetQuiet DEF RecoverReconciled
  <2> QED BY <2>1, <1>4, IdleQuiet DEF RecoverReconciled, dbVars
<1>5. CASE RecoverList
  BY <1>5, SameQuiet, IdleQuiet DEF RecoverList, dbVars
<1>6. CASE RecoverQueue
  <2>1. PICK c \in toQueue :
          /\ ~RowLocked(c)
          /\ IF child[c] \in Unstarted
             THEN /\ child' = [child EXCEPT ![c] = "QUEUED"]
                  /\ toQueue' = toQueue \ {c}
                  /\ UNCHANGED <<cancelMark, unreadable, childAudit, batch, parent, parentAudit,
                                 proc, ctxDone, recent, recentMarks, toReconcile, workerVars,
                                 req, tx, cancelOK>>
             ELSE Exit
    BY <1>6 DEF RecoverQueue
  <2>2. CASE child[c] \notin Unstarted
    BY <2>1, <2>2, ExitQuiet
  <2>3. CASE child[c] \in Unstarted
    <3>1. c \in Children /\ (child[c] = "QUEUED" \/ CanTransitionTo(child[c], "QUEUED"))
      BY <2>3, TransitionFacts DEF Shape, Unstarted
    <3>2. c \in Children /\ \A a \in Actors : c \notin tx[a].cancels
      BY <2>1 DEF RowLocked, Shape
    <3>3. TxQuiet /\ batch' = batch /\ parent' = parent /\ child' = [child EXCEPT ![c] = "QUEUED"]
      BY <2>1, <2>3, SameQuiet
    <3>4. "QUEUED" \in Statuses
      BY DEF Statuses
    <3> QED BY <3>1, <3>2, <3>3, <3>4, OneChildQuiet
  <2> QED BY <2>2, <2>3
<1>7. CASE StartWorkers
  BY <1>7, SameQuiet, IdleQuiet DEF StartWorkers, dbVars
<1>8. CASE RecoverRejected
  BY <1>8, ExitQuiet DEF RecoverRejected
<1> QED BY <1>1, <1>2, <1>3, <1>4, <1>5, <1>6, <1>7, <1>8 DEF RecoverStep

\* The steps of the workers are quiet.
LEMMA WorkerQuiet ==
    ASSUME Shape, Locks, NEW w \in Workers, WorkerStep(w) \/ WorkerFails(w)
    PROVE  QuietStep
<1>0. w \in Actors
  BY DEF Actors
<1>1. CASE ClaimNextQueued(w) \/ ClaimTooEarly(w)
  <2>1. PICK c \in Children :
          /\ child[c] = "QUEUED" /\ ~RowLocked(c)
          /\ child' = [child EXCEPT ![c] = "RUNNING"]
    BY <1>1 DEF ClaimNextQueued, ClaimTooEarly
  <2>2. CanTransitionTo(child[c], "RUNNING") /\ \A a \in Actors : c \notin tx[a].cancels
    BY <2>1, TransitionFacts DEF RowLocked
  <2>3. TxQuiet /\ batch' = batch /\ parent' = parent /\ "RUNNING" \in Statuses
    BY <1>1, SameQuiet DEF ClaimNextQueued, ClaimTooEarly, Statuses
  <2> QED BY <2>1, <2>2, <2>3, OneChildQuiet
<1>2. CASE HandlerEnds(w)
  BY <1>2, SameQuiet, IdleQuiet DEF HandlerEnds
<1>3. CASE HandlerSkipped(w)
  BY <1>3, SameQuiet, IdleQuiet DEF HandlerSkipped, dbVars
<1>4. CASE Save(w)
  <2> DEFINE c == wchild[w]
  <2>1. c \in Children /\ child[c] = "RUNNING" /\ wresult[w] \in Terminal
    BY <1>4 DEF Save, Locks, WorkersOwn, Executing
  <2>2. c[1] \in Batches /\ batch[c[1]].status # NoTask
    BY <2>1, ChildrenArePairs DEF Locks, RowsTogether, NoTask
  <2>3. TxQuiet
    <3>1. tx' = Call(w, c[1], TRUE)
      BY <1>4 DEF Save
    <3> QED BY <3>1, <2>2, <1>0, CallQuiet
  <2>4. CanTransitionTo(child[c], wresult[w]) /\ \A a \in Actors : c \notin tx[a].cancels
    BY <2>1, TransitionFacts DEF Locks, CancelsLocked, Unstarted
  <2>5. child' = [child EXCEPT ![c] = wresult[w]] /\ batch' = batch /\ parent' = parent
    BY <1>4 DEF Save
  <2>6. wresult[w] \in Statuses
    BY <2>1, StatusFacts
  <2> QED BY <2>1, <2>3, <2>4, <2>5, <2>6, OneChildQuiet
<1>5. CASE SaveReturns(w)
  <2>1. TxQuiet
    BY <1>0, <1>5, ForgetQuiet DEF SaveReturns
  <2> QED BY <2>1, <1>5, IdleQuiet DEF SaveReturns, dbVars
<1>6. CASE WorkerStops(w)
  BY <1>6, SameQuiet, IdleQuiet DEF WorkerStops, dbVars
<1>7. CASE SaveRejected(w) \/ WorkerFails(w)
  <2>1. TxQuiet
    BY <1>0, <1>7, ForgetQuiet DEF SaveRejected, WorkerFails
  <2> QED BY <2>1, <1>7, IdleQuiet DEF SaveRejected, WorkerFails, dbVars
<1> QED BY <1>1, <1>2, <1>3, <1>4, <1>5, <1>6, <1>7 DEF WorkerStep

\* The steps of the requests that create no batch are quiet.
LEMMA RequestQuiet ==
    ASSUME Shape, Locks, NEW k \in Clients,
           Get(k) \/ (RequestStep(k) /\ ~RetryLoaded(k)) \/ RequestFails(k)
    PROVE  QuietStep
<1>0. k \in Actors
  BY DEF Actors
<1>1. CASE Get(k)
  <2>1. PICK b \in Batches, op \in Ops :
          /\ batch[b].status # NoTask
          /\ req' = [req EXCEPT ![k] = [NoRequest EXCEPT
                !.op = op, !.b = b, !.pc = IF op = "get" THEN "last" ELSE "first"]]
          /\ tx' = Call(k, b, FALSE)
    BY <1>1 DEF Get
  <2>2. TxQuiet
    BY <2>1, <1>0, CallQuiet
  <2> QED BY <2>2, <1>1, IdleQuiet DEF Get, dbVars
<1> DEFINE c == FirstItem(req[k].todo)
<1>2. req[k].todo # {} => c \in req[k].todo /\ c \in Children /\ c[1] = req[k].b /\ child[c] # NoTask
  <2>1. req[k].todo \in SUBSET Children
    BY DEF Shape, Requests
  <2> QED BY <2>1, FirstItemIsLeft DEF Locks, RequestsHold
<1>3. CASE QueueChild(k)
  <2>1. req[k].todo # {} /\ child[c] \in Unstarted /\ ~RowLocked(c)
        /\ child' = [child EXCEPT ![c] = "QUEUED"]
    BY <1>3 DEF QueueChild
  <2>2. TxQuiet /\ batch' = batch /\ parent' = parent /\ "QUEUED" \in Statuses
    BY <1>3, SameQuiet DEF QueueChild, Statuses
  <2>3. child[c] = "QUEUED" \/ CanTransitionTo(child[c], "QUEUED")
    BY <2>1, TransitionFacts DEF Unstarted
  <2>4. \A a \in Actors : c \notin tx[a].cancels
    BY <2>1 DEF RowLocked
  <2> HIDE DEF c
  <2> QED BY <1>2, <2>1, <2>2, <2>3, <2>4, OneChildQuiet
<1>4. CASE QueueConflict(k)
  BY <1>4, SameQuiet, IdleQuiet DEF QueueConflict, dbVars
<1>5. CASE LoopEnds(k)
  <2>1. req[k].b \in Batches /\ batch[req[k].b].status # NoTask
    BY <1>5 DEF LoopEnds, Locks, RequestsHold
  <2>2. TxQuiet
    BY <2>1, <1>0, <1>5, CallQuiet DEF LoopEnds
  <2> QED BY <2>2, <1>5, IdleQuiet DEF LoopEnds, dbVars
<1>6. CASE CancelLoaded(k)
  <2>1. TxQuiet
    BY <1>0, <1>6, ForgetQuiet DEF CancelLoaded
  <2> QED BY <2>1, <1>6, IdleQuiet DEF CancelLoaded, dbVars
<1>7. CASE CancelChild(k)
  <2> DEFINE stops == child[c] \in Unstarted \cup {"CANCELLED"}
             s == IF stops THEN "CANCELLED" ELSE child[c]
  <2>1. req[k].todo # {} /\ ~RowLocked(c) /\ child' = [child EXCEPT ![c] = s]
        /\ (IF stops THEN tx' = Call(k, c[1], TRUE) ELSE UNCHANGED tx)
    BY <1>7 DEF CancelChild
  <2>2. batch' = batch /\ parent' = parent
    BY <1>7 DEF CancelChild
  <2>3. \A a \in Actors : c \notin tx[a].cancels
    BY <2>1 DEF RowLocked
  <2>4. c \in Children /\ child[c] \in Statuses
    BY <1>2, <2>1 DEF Shape
  <2>5. s \in Statuses /\ (child[c] = s \/ CanTransitionTo(child[c], s))
    BY <2>4, TransitionFacts DEF Unstarted, Statuses, Terminal
  <2>6. TxQuiet
    <3>1. c[1] \in Batches /\ batch[c[1]].status # NoTask
      BY <2>4, ChildrenArePairs, StatusFacts DEF Locks, RowsTogether
    <3>2. CASE stops
      BY <3>1, <3>2, <2>1, <1>0, CallQuiet
    <3>3. CASE ~stops
      BY <3>3, <2>1, SameQuiet
    <3> QED BY <3>2, <3>3
  <2> HIDE DEF c, s
  <2> QED BY <2>1, <2>2, <2>3, <2>4, <2>5, <2>6, OneChildQuiet
<1>8. CASE CancelReconciled(k)
  <2>1. TxQuiet
    BY <1>0, <1>8, ForgetQuiet DEF CancelReconciled
  <2> QED BY <2>1, <1>8, IdleQuiet DEF CancelReconciled, dbVars
<1>9. CASE RetryRefused(k)
  <2>1. TxQuiet
    BY <1>0, <1>9, ForgetQuiet DEF RetryRefused
  <2> QED BY <2>1, <1>9, IdleQuiet DEF RetryRefused, dbVars
<1>10. CASE LastReturns(k)
  <2>1. TxQuiet
    BY <1>0, <1>10, ForgetQuiet DEF LastReturns
  <2> QED BY <2>1, <1>10, IdleQuiet DEF LastReturns, dbVars
<1>11. CASE RequestRejected(k) \/ RequestFails(k)
  <2>1. TxQuiet
    BY <1>0, <1>11, ForgetQuiet DEF RequestRejected, RequestFails
  <2> QED BY <2>1, <1>11, IdleQuiet DEF RequestRejected, RequestFails, dbVars
<1>12. CASE CancelRejected(k)
  BY <1>12, SameQuiet, IdleQuiet DEF CancelRejected
<1> QED BY <1>1, <1>3, <1>4, <1>5, <1>6, <1>7, <1>8, <1>9, <1>10, <1>11, <1>12 DEF RequestStep

\* What is not quiet is a step of RefreshBatch or creates a batch.
LEMMA QuietOrLoud == ASSUME Shape, Locks, [Next]_vars PROVE QuietStep \/ Loud
<1>1. CASE Start
  BY <1>1, SameQuiet, IdleQuiet DEF Start, dbVars
<1>2. CASE Crash \/ RunReturns \/ RecoverFails
  BY <1>2, ExitQuiet DEF Crash, RunReturns, RecoverFails
<1>3. CASE Shutdown
  BY <1>3, SameQuiet, IdleQuiet DEF Shutdown, dbVars
<1>4. CASE RecoverStep
  BY <1>4, RecoveryQuiet
<1>5. ASSUME NEW a \in Actors, TxStep(a) PROVE QuietStep \/ Loud
  <2>1. CASE SyncDirectTerminalAudits(a)
    <3>1. TxQuiet
      BY <2>1, SyncQuiet
    <3> QED BY <3>1, <2>1, IdleQuiet DEF SyncDirectTerminalAudits
  <2> QED BY <1>5, <2>1 DEF TxStep, Loud
<1>6. ASSUME NEW w \in Workers, WorkerStep(w) \/ WorkerFails(w) PROVE QuietStep
  BY <1>6, WorkerQuiet
<1>7. ASSUME NEW k \in Clients, Submit(k) \/ Get(k) \/ RequestStep(k) \/ RequestFails(k)
      PROVE  QuietStep \/ Loud
  <2>1. CASE Submit(k) \/ RetryLoaded(k)
    BY <2>1 DEF Loud
  <2>2. CASE Get(k) \/ (RequestStep(k) /\ ~RetryLoaded(k)) \/ RequestFails(k)
    BY <2>2, RequestQuiet
  <2> QED BY <1>7, <2>1, <2>2
<1>8. CASE UNCHANGED vars
  BY <1>8, SameQuiet, IdleQuiet DEF vars
<1> QED BY <1>1, <1>2, <1>3, <1>4, <1>5, <1>6, <1>7, <1>8 DEF Next

-----------------------------------------------------------------------------
(***************************************************************************)
(* The steps that create a batch                                           *)
(***************************************************************************)

\* The new rows.
NewRows(b, D, source) ==
    /\ batch[b].status = NoTask
    /\ batch' \in [Batches -> BatchRows]
    /\ \A x \in Batches \ {b} : batch'[x] = batch[x]
    /\ batch'[b].status = "PENDING" /\ batch'[b].retryOf = source
    /\ batch'[b].success = 0 /\ batch'[b].failed = 0 /\ batch'[b].cancelled = 0
    /\ parent' \in [Batches -> Statuses \cup {NoTask}]
    /\ \A x \in Batches \ {b} : parent'[x] = parent[x]
    /\ parentAudit' \in [Batches -> Terminal \cup {"NONE", "OPEN"}]
    /\ child' \in [Children -> Statuses \cup {NoTask}]
    /\ \A c \in Children : child'[c] = IF c[1] = b /\ c[2] \in D THEN "PENDING" ELSE child[c]
    /\ childAudit' \in [Children -> {"NONE", "OPEN", "DONE"}]
    /\ UNCHANGED <<cancelMark, unreadable, proc, ctxDone, recentMarks, toReconcile, toQueue,
                   workerVars, cancelOK>>

\* The new rows and the request that queues them.
CreateStep(k, b, D, source) ==
    /\ NewRows(b, D, source)
    /\ TxQuiet /\ OthersKeep(k)
    /\ req' \in [Clients -> Requests]
    /\ req'[k].b = b /\ req'[k].todo = {b} \X D /\ req'[k].pc = "queue"
    /\ req'[k].op \in {"submit", "retry"}
    /\ \A x \in Clients \ {k} : req'[x] = req[x]

\* CreateBatch writes the rows of one batch and no others.
LEMMA CreateRows ==
    ASSUME Shape, NEW b \in Batches, NEW D \in SUBSET Devices, NEW continue \in BOOLEAN,
           NEW source \in Batches \cup {Nobody}, CreateBatch(b, D, continue, source)
    PROVE  NewRows(b, D, source)
<1> DEFINE r == [NoBatch EXCEPT !.status = "PENDING", !.continueOnFailure = continue, !.retryOf = source]
<1>1. r \in BatchRows /\ r.status = "PENDING" /\ r.retryOf = source /\ r.success = 0
      /\ r.failed = 0 /\ r.cancelled = 0
  BY DEF NoBatch, BatchRows, Statuses
<1>2. batch' = [batch EXCEPT ![b] = r]
  BY DEF CreateBatch
<1> HIDE DEF r
<1>3. /\ batch' \in [Batches -> BatchRows] /\ batch'[b] = r
      /\ \A x \in Batches \ {b} : batch'[x] = batch[x]
  BY <1>1, <1>2 DEF Shape
<1>4. /\ parent' \in [Batches -> Statuses \cup {NoTask}]
      /\ \A x \in Batches \ {b} : parent'[x] = parent[x]
      /\ parentAudit' \in [Batches -> Terminal \cup {"NONE", "OPEN"}]
  BY DEF CreateBatch, Shape, Statuses
<1>5. \A c \in Children : c \in {b} \X D <=> c[1] = b /\ c[2] \in D
  BY ChildrenArePairs
<1>6. \A c \in Children : child'[c] = IF c[1] = b /\ c[2] \in D THEN "PENDING" ELSE child[c]
  BY <1>5 DEF CreateBatch
<1>7. child' \in [Children -> Statuses \cup {NoTask}]
  BY DEF CreateBatch, Shape, Statuses
<1>8. childAudit' \in [Children -> {"NONE", "OPEN", "DONE"}]
  BY DEF CreateBatch, Shape
<1>9. batch[b].status = NoTask
      /\ UNCHANGED <<cancelMark, unreadable, proc, ctxDone, recentMarks, toReconcile, toQueue,
                     workerVars, cancelOK>>
  BY DEF CreateBatch
<1> QED BY <1>1, <1>3, <1>4, <1>6, <1>7, <1>8, <1>9 DEF NewRows

\* Submit creates a batch that is no retry.
LEMMA SubmitCreates ==
    ASSUME Shape, Locks, NEW k \in Clients, Submit(k)
    PROVE  \E b \in Batches, D \in (SUBSET Devices) \ {{}} : CreateStep(k, b, D, Nobody)
<1>1. PICK b \in Batches \ RetryIDs, D \in (SUBSET Devices) \ {{}}, continue \in BOOLEAN :
        /\ CreateBatch(b, D, continue, Nobody)
        /\ req' = [req EXCEPT ![k] = [NoRequest EXCEPT
              !.op = "submit", !.pc = "queue", !.b = b, !.todo = {b} \X D]]
  BY DEF Submit
<1> DEFINE r == [NoRequest EXCEPT !.op = "submit", !.pc = "queue", !.b = b, !.todo = {b} \X D]
<1>2. {b} \X D \in SUBSET Children
  BY DEF Children
<1>3. r \in Requests /\ r.b = b /\ r.todo = {b} \X D /\ r.pc = "queue" /\ r.op = "submit"
  BY <1>2 DEF NoRequest, Requests
<1>4. req' = [req EXCEPT ![k] = r]
  BY <1>1
<1> HIDE DEF r
<1>5. req' \in [Clients -> Requests] /\ req'[k] = r /\ \A x \in Clients \ {k} : req'[x] = req[x]
  BY <1>3, <1>4 DEF Shape
<1>6. TxQuiet /\ OthersKeep(k)
  BY SameQuiet DEF Submit, OthersKeep, Shape
<1>7. D \in (SUBSET Devices) \ {{}} /\ b \in Batches
  BY <1>1
<1>8. CreateStep(k, b, D, Nobody)
  <2>1. NewRows(b, D, Nobody)
    BY <1>1, <1>7, CreateRows
  <2> QED BY <2>1, <1>3, <1>5, <1>6 DEF CreateStep
<1> QED BY <1>7, <1>8

\* The devices of a retry are those that failed in the snapshot.
LEMMA RetryCreates ==
    ASSUME Shape, Locks, NEW k \in Clients, RetryLoaded(k)
    PROVE  \E b \in Batches, D \in (SUBSET Devices) \ {{}} :
              /\ CreateStep(k, b, D, req[k].b)
              /\ req[k].b \in Batches
              /\ \A d \in D : \E c \in DOMAIN tx[k].seen :
                    c[2] = d /\ tx[k].seen[c] \in {"FAILED", "INTERRUPTED"}
<1> DEFINE source == req[k].b
           D == {c[2] : c \in {i \in DOMAIN tx[k].seen : RetryableBatchChild(tx[k].seen[i])}}
<1>0. k \in Actors
  BY DEF Actors
<1>1. source \in Batches
  BY DEF RetryLoaded, Locks, RequestsHold
<1>2. PICK b \in RetryIDs :
        /\ CreateBatch(b, D, batch[source].continueOnFailure, source)
        /\ req' = [req EXCEPT ![k].pc = "queue", ![k].b = b, ![k].src = source,
                              ![k].todo = {b} \X D]
  BY DEF RetryLoaded
<1>3. D \in (SUBSET Devices) \ {{}} /\ b \in Batches
  <2>1. tx[k].seen \in Seen
    BY <1>0 DEF Shape, Transactions
  <2>2. \A c \in DOMAIN tx[k].seen : c[2] \in Devices
    BY <2>1, SeenFacts, ChildrenArePairs
  <2>3. D # {}
    BY DEF RetryLoaded
  <2> QED BY <2>2, <2>3, <1>2, BatchAssumption
<1>4. \A d \in D : \E c \in DOMAIN tx[k].seen :
         c[2] = d /\ tx[k].seen[c] \in {"FAILED", "INTERRUPTED"}
  BY DEF RetryableBatchChild
<1> HIDE DEF D
<1> DEFINE r == [req[k] EXCEPT !.pc = "queue", !.b = b, !.src = source, !.todo = {b} \X D]
<1>5. {b} \X D \in SUBSET Children
  BY <1>3 DEF Children
<1>6. r \in Requests /\ r.b = b /\ r.todo = {b} \X D /\ r.pc = "queue" /\ r.op = "retry"
  <2>1. req[k] \in Requests /\ req[k].op = "retry"
    BY DEF Shape, RetryLoaded
  <2> QED BY <2>1, <1>1, <1>3, <1>5 DEF Requests
<1>7. req' = [req EXCEPT ![k] = r]
  BY <1>2
<1> HIDE DEF r
<1>8. req' \in [Clients -> Requests] /\ req'[k] = r /\ \A x \in Clients \ {k} : req'[x] = req[x]
  BY <1>6, <1>7 DEF Shape
<1>9. TxQuiet /\ OthersKeep(k)
  BY <1>0, ForgetQuiet DEF RetryLoaded
<1>10. batch[source].continueOnFailure \in BOOLEAN
  BY <1>1 DEF Shape, BatchRows
<1> HIDE DEF source
<1>11. CreateStep(k, b, D, source)
  <2>1. NewRows(b, D, source)
    BY <1>1, <1>2, <1>3, <1>10, CreateRows
  <2> QED BY <2>1, <1>6, <1>8, <1>9 DEF CreateStep
<1> QED BY <1>1, <1>3, <1>4, <1>11 DEF source

-----------------------------------------------------------------------------
(***************************************************************************)
(* The shape of the state                                                  *)
(***************************************************************************)
RunShape ==
    /\ cancelMark \subseteq Children /\ unreadable \subseteq Children
    /\ recentMarks \subseteq cancelMark
    /\ childAudit \in [Children -> {"NONE", "OPEN", "DONE"}]
    /\ proc \in {"down", "interrupt", "list", "reconcile", "queue", "up"}
    /\ toReconcile \subseteq Batches
    /\ toQueue \subseteq Children
    /\ wpc \in [Workers -> {"off", "idle", "run", "save", "reconcile", "stopped"}]
    /\ wchild \in [Workers -> Children \cup {Nobody}]
    /\ wresult \in [Workers -> Statuses \cup {NoTask}]
    /\ req \in [Clients -> Requests]
    /\ cancelOK \subseteq Batches

\* Shape is RunShape and the shape of the rows and transactions.
LEMMA ShapeParts ==
    Shape <=> /\ RunShape
              /\ child \in [Children -> Statuses \cup {NoTask}]
              /\ batch \in [Batches -> BatchRows]
              /\ parent \in [Batches -> Statuses \cup {NoTask}]
              /\ parentAudit \in [Batches -> Terminal \cup {"NONE", "OPEN"}]
              /\ tx \in [Actors -> Transactions]
BY DEF Shape, RunShape

\* The end of the process keeps the shape of what runs.
LEMMA ExitShape == ASSUME Shape, Exit PROVE RunShape' /\ parentAudit' = parentAudit
<1>1. NoRequest \in Requests
  BY DEF NoRequest, Requests
<1> QED BY <1>1 DEF Exit, Shape, RunShape, dbVars

\* Recovery keeps the shape of what runs.
LEMMA RecoverShape == ASSUME Shape, RecoverStep PROVE RunShape' /\ parentAudit' = parentAudit
<1>1. CASE RecoverInterrupt
  <2>1. unreadable' \subseteq Children
    BY <1>1 DEF RecoverInterrupt, Shape
  <2>2. UNCHANGED <<cancelMark, childAudit, parentAudit, toReconcile, toQueue, wpc, wchild, wresult,
                    req, cancelOK>>
        /\ recentMarks' = {} /\ proc' = "list"
    BY <1>1 DEF RecoverInterrupt, workerVars
  <2> QED BY <2>1, <2>2 DEF Shape, RunShape
<1>2. CASE RecoverListOpen
  BY <1>2 DEF RecoverListOpen, Shape, RunShape, workerVars, dbVars
<1>3. CASE RecoverReconcile
  BY <1>3 DEF RecoverReconcile, Shape, RunShape, workerVars, dbVars
<1>4. CASE RecoverReconciled
  BY <1>4 DEF RecoverReconciled, Shape, RunShape, workerVars, dbVars, runVars
<1>5. CASE RecoverList
  BY <1>5 DEF RecoverList, Shape, RunShape, workerVars, dbVars
<1>6. CASE RecoverQueue
  <2>1. CASE Exit
    BY <2>1, ExitShape
  <2>2. CASE ~Exit
    BY <1>6, <2>2 DEF RecoverQueue, Shape, RunShape, workerVars
  <2> QED BY <2>1, <2>2
<1>7. CASE StartWorkers
  BY <1>7 DEF StartWorkers, Shape, RunShape, dbVars
<1>8. CASE RecoverRejected
  BY <1>8, ExitShape DEF RecoverRejected
<1> QED BY <1>1, <1>2, <1>3, <1>4, <1>5, <1>6, <1>7, <1>8 DEF RecoverStep

\* A worker keeps the shape of what runs.
LEMMA WorkerShape ==
    ASSUME Shape, Locks, NEW w \in Workers, WorkerStep(w) \/ WorkerFails(w)
    PROVE  RunShape' /\ parentAudit' = parentAudit
<1>1. CASE ClaimNextQueued(w)
  BY <1>1 DEF ClaimNextQueued, Shape, RunShape, runVars
<1>2. CASE HandlerEnds(w)
  <2>1. wresult' \in [Workers -> Statuses \cup {NoTask}]
    <3>1. PICK s \in Outcomes(wchild[w]) : wresult' = [wresult EXCEPT ![w] = s]
      BY <1>2 DEF HandlerEnds
    <3>2. s \in Statuses
      BY BatchAssumption DEF Outcomes, Statuses, Terminal
    <3> QED BY <3>1, <3>2 DEF Shape
  <2>2. childAudit' \in [Children -> {"NONE", "OPEN", "DONE"}]
    BY <1>2 DEF HandlerEnds, Shape
  <2>3. wpc' \in [Workers -> {"off", "idle", "run", "save", "reconcile", "stopped"}]
    BY <1>2 DEF HandlerEnds, Shape
  <2>4. UNCHANGED <<cancelMark, parentAudit, proc, toReconcile, toQueue, wchild, req, cancelOK>>
    BY <1>2 DEF HandlerEnds, runVars
  <2>5. UNCHANGED <<unreadable, recentMarks>>
    BY <1>2 DEF HandlerEnds, runVars
  <2> QED BY <2>1, <2>2, <2>3, <2>4, <2>5 DEF Shape, RunShape
<1>3. CASE HandlerSkipped(w)
  <2>1. wresult' \in [Workers -> Statuses \cup {NoTask}]
    BY <1>3 DEF HandlerSkipped, Shape, Statuses, Terminal
  <2> QED BY <1>3, <2>1 DEF HandlerSkipped, Shape, RunShape, runVars, dbVars
<1>4. CASE Save(w)
  BY <1>4 DEF Save, Shape, RunShape, runVars
<1>5. CASE SaveReturns(w)
  BY <1>5 DEF SaveReturns, Shape, RunShape, runVars, dbVars
<1>6. CASE WorkerStops(w)
  BY <1>6 DEF WorkerStops, Shape, RunShape, runVars, dbVars
<1>7. CASE SaveRejected(w) \/ WorkerFails(w)
  BY <1>7 DEF SaveRejected, WorkerFails, Returns, Shape, RunShape, runVars, dbVars
<1>8. CASE ClaimTooEarly(w)
  <2>1. unreadable' \subseteq Children
    BY <1>8 DEF ClaimTooEarly, Shape
  <2> QED BY <2>1, <1>8 DEF ClaimTooEarly, Returns, Shape, RunShape
<1> QED BY <1>1, <1>2, <1>3, <1>4, <1>5, <1>6, <1>7, <1>8 DEF WorkerStep

\* What a request does to its own record.
RequestKept(k) ==
    /\ req' \in [Clients -> Requests]
    /\ \A x \in Clients \ {k} : req'[x] = req[x]

\* The request ends.
LEMMA AnswerEffect ==
    ASSUME Shape, NEW k \in Clients, Answer(k)
    PROVE  RequestKept(k) /\ req'[k].pc = "idle" /\ req'[k].todo = {} /\ req'[k].op = "none"
<1>1. NoRequest \in Requests /\ NoRequest.pc = "idle" /\ NoRequest.todo = {} /\ NoRequest.op = "none"
  BY DEF NoRequest, Requests
<1> QED BY <1>1 DEF Shape, RequestKept, Answer

\* It moves on.
Moved(k, pc, todo) ==
    /\ RequestKept(k)
    /\ req'[k].pc = pc /\ req'[k].todo = todo /\ req'[k].b = req[k].b /\ req'[k].op = req[k].op

\* A request record that is replaced is moved.
LEMMA MoveEffect ==
    ASSUME Shape, NEW k \in Clients, NEW r, req' = [req EXCEPT ![k] = r], r \in Requests,
           r.b = req[k].b, r.op = req[k].op
    PROVE  Moved(k, r.pc, r.todo)
BY DEF Shape, RequestKept, Moved

\* Where the loops of submit and Cancel go.
LEMMA LoopEffect ==
    ASSUME Shape, NEW k \in Clients
    PROVE  /\ QueueChild(k) => Moved(k, "queue", req[k].todo \ {FirstItem(req[k].todo)})
           /\ LoopEnds(k) => Moved(k, "last", {})
           /\ CancelReconciled(k) => Moved(k, "cancel", req[k].todo)
           /\ CancelChild(k) =>
                 Moved(k, IF child[FirstItem(req[k].todo)] \in Unstarted \cup {"CANCELLED"}
                          THEN "reconcile" ELSE "cancel",
                       req[k].todo \ {FirstItem(req[k].todo)})
           /\ CancelLoaded(k) /\ tx[k].status \notin Terminal =>
                 Moved(k, "cancel", {c \in DOMAIN tx[k].seen : tx[k].seen[c] \notin Terminal})
<1>0. req[k] \in Requests /\ k \in Actors
  BY DEF Shape, Actors
<1> DEFINE c == FirstItem(req[k].todo)
<1>1. ASSUME QueueChild(k) PROVE Moved(k, "queue", req[k].todo \ {c})
  <2> DEFINE r == [req[k] EXCEPT !.todo = req[k].todo \ {c}]
  <2>1. r \in Requests /\ r.b = req[k].b /\ r.op = req[k].op /\ r.pc = req[k].pc
        /\ r.todo = req[k].todo \ {c}
    BY <1>0 DEF Requests
  <2>2. req' = [req EXCEPT ![k] = r] /\ req[k].pc = "queue"
    BY <1>1 DEF QueueChild
  <2> HIDE DEF r, c
  <2> QED BY <2>1, <2>2, MoveEffect
<1>2. ASSUME LoopEnds(k) PROVE Moved(k, "last", {})
  <2> DEFINE r == [req[k] EXCEPT !.pc = "last"]
  <2>1. r \in Requests /\ r.b = req[k].b /\ r.op = req[k].op /\ r.pc = "last"
        /\ r.todo = req[k].todo
    BY <1>0 DEF Requests
  <2>2. req' = [req EXCEPT ![k] = r] /\ req[k].todo = {}
    BY <1>2 DEF LoopEnds
  <2> HIDE DEF r
  <2> QED BY <2>1, <2>2, MoveEffect
<1>3. ASSUME CancelReconciled(k) PROVE Moved(k, "cancel", req[k].todo)
  <2> DEFINE r == [req[k] EXCEPT !.pc = "cancel"]
  <2>1. r \in Requests /\ r.b = req[k].b /\ r.op = req[k].op /\ r.pc = "cancel"
        /\ r.todo = req[k].todo
    BY <1>0 DEF Requests
  <2>2. req' = [req EXCEPT ![k] = r]
    BY <1>3 DEF CancelReconciled
  <2> HIDE DEF r
  <2> QED BY <2>1, <2>2, MoveEffect
<1>4. ASSUME CancelChild(k)
      PROVE  Moved(k, IF child[c] \in Unstarted \cup {"CANCELLED"} THEN "reconcile" ELSE "cancel",
                   req[k].todo \ {c})
  <2> DEFINE p == IF child[c] \in Unstarted \cup {"CANCELLED"} THEN "reconcile" ELSE "cancel"
             r == [req[k] EXCEPT !.todo = req[k].todo \ {c}, !.pc = p]
  <2>1. req' = [req EXCEPT ![k] = r]
    BY <1>4 DEF CancelChild
  <2>2. p \in {"reconcile", "cancel"}
    OBVIOUS
  <2> HIDE DEF p, c
  <2>3. r \in Requests /\ r.b = req[k].b /\ r.op = req[k].op /\ r.pc = p
        /\ r.todo = req[k].todo \ {c}
    BY <1>0, <2>2 DEF Requests
  <2> HIDE DEF r
  <2>4. Moved(k, p, req[k].todo \ {c})
    BY <2>1, <2>3, MoveEffect
  <2> QED BY <2>4 DEF p
<1>5. ASSUME CancelLoaded(k), tx[k].status \notin Terminal
      PROVE  Moved(k, "cancel", {d \in DOMAIN tx[k].seen : tx[k].seen[d] \notin Terminal})
  <2> DEFINE T == {d \in DOMAIN tx[k].seen : tx[k].seen[d] \notin Terminal}
             r == [req[k] EXCEPT !.pc = "cancel", !.todo = T]
  <2>1. req' = [req EXCEPT ![k] = r]
    BY <1>5 DEF CancelLoaded
  <2>2. T \in SUBSET Children
    BY <1>0, SeenFacts DEF Shape, Transactions
  <2> HIDE DEF T
  <2>3. r \in Requests /\ r.b = req[k].b /\ r.op = req[k].op /\ r.pc = "cancel" /\ r.todo = T
    BY <1>0, <2>2 DEF Requests
  <2> HIDE DEF r
  <2>4. Moved(k, "cancel", T)
    BY <2>1, <2>3, MoveEffect
  <2> QED BY <2>4 DEF T
<1> QED BY <1>1, <1>2, <1>3, <1>4, <1>5

\* A request on a batch is about one that exists.
LEMMA GetEffect ==
    ASSUME Shape, NEW k \in Clients, Get(k)
    PROVE  /\ RequestKept(k) /\ req'[k].todo = {} /\ req'[k].pc \in {"first", "last"}
           /\ req'[k].pc = "last" <=> req'[k].op = "get"
           /\ req'[k].b \in Batches /\ batch[req'[k].b].status # NoTask
           /\ tx' = Call(k, req'[k].b, FALSE)
<1>1. PICK b \in Batches, op \in Ops :
        /\ batch[b].status # NoTask
        /\ req' = [req EXCEPT ![k] = [NoRequest EXCEPT
              !.op = op, !.b = b, !.pc = IF op = "get" THEN "last" ELSE "first"]]
        /\ tx' = Call(k, b, FALSE)
  BY DEF Get
<1> DEFINE p == IF op = "get" THEN "last" ELSE "first"
           r == [NoRequest EXCEPT !.op = op, !.b = b, !.pc = p]
<1>2. op \in {"get", "cancel", "retry"} /\ p \in {"first", "last"} /\ (p = "last" <=> op = "get")
  BY BatchAssumption
<1>3. req' = [req EXCEPT ![k] = r]
  BY <1>1
<1> HIDE DEF p
<1>4. r \in Requests /\ r.todo = {} /\ r.pc = p /\ r.op = op /\ r.b = b
  BY <1>2 DEF NoRequest, Requests
<1> HIDE DEF r
<1>5. RequestKept(k) /\ req'[k] = r
  BY <1>3, <1>4 DEF Shape, RequestKept
<1> QED BY <1>1, <1>2, <1>4, <1>5

\* A request to cancel marks children.
LEMMA MarkEffect ==
    ASSUME Shape, NEW k \in Clients, req[k].todo # {}, Mark(FirstItem(req[k].todo))
    PROVE  /\ cancelMark' \subseteq Children /\ cancelMark \subseteq cancelMark'
           /\ recentMarks' \subseteq cancelMark'
           /\ \A c \in recentMarks' \ recentMarks : child[c] = "RUNNING" /\ proc = "interrupt"
<1>1. req[k].todo \in SUBSET Children
  BY DEF Shape, Requests
<1>2. FirstItem(req[k].todo) \in Children
  BY <1>1, FirstItemIsLeft
<1> QED BY <1>2 DEF Mark, Shape

\* A request keeps the shape of what runs.
LEMMA RequestShape ==
    ASSUME Shape, Locks, NEW k \in Clients,
           Get(k) \/ (RequestStep(k) /\ ~RetryLoaded(k)) \/ RequestFails(k)
    PROVE  RunShape' /\ parentAudit' = parentAudit
<1>1. CASE Get(k)
  <2>1. req' \in [Clients -> Requests]
    BY <1>1, GetEffect DEF RequestKept
  <2> QED BY <2>1, <1>1 DEF Get, Shape, RunShape, dbVars, runVars, workerVars
<1>2. CASE QueueChild(k)
  <2>1. req' \in [Clients -> Requests]
    BY <1>2, LoopEffect DEF Moved, RequestKept
  <2> QED BY <2>1, <1>2 DEF QueueChild, Shape, RunShape, runVars, workerVars
<1>3. CASE QueueConflict(k)
  <2>1. req' \in [Clients -> Requests]
    BY <1>3, AnswerEffect DEF QueueConflict, RequestKept
  <2> QED BY <2>1, <1>3 DEF QueueConflict, Shape, RunShape, dbVars, runVars, workerVars
<1>4. CASE LoopEnds(k)
  <2>1. req' \in [Clients -> Requests]
    BY <1>4, LoopEffect DEF Moved, RequestKept
  <2> QED BY <2>1, <1>4 DEF LoopEnds, Shape, RunShape, dbVars, runVars, workerVars
<1>5. CASE CancelLoaded(k)
  <2>1. req' \in [Clients -> Requests]
    <3>1. CASE tx[k].status \in Terminal
      BY <3>1, <1>5, AnswerEffect DEF CancelLoaded, RequestKept
    <3>2. CASE tx[k].status \notin Terminal
      BY <3>2, <1>5, LoopEffect DEF Moved, RequestKept
    <3> QED BY <3>1, <3>2
  <2> QED BY <2>1, <1>5 DEF CancelLoaded, Shape, RunShape, dbVars, runVars, workerVars
<1>6. CASE CancelChild(k)
  <2>1. req' \in [Clients -> Requests]
    BY <1>6, LoopEffect DEF Moved, RequestKept
  <2>2. cancelMark' \subseteq Children /\ recentMarks' \subseteq cancelMark'
    BY <1>6, MarkEffect DEF CancelChild
  <2>3. UNCHANGED <<unreadable, childAudit, proc, toReconcile, toQueue, wpc, wchild, wresult, cancelOK,
                    parentAudit>>
    BY <1>6 DEF CancelChild, runVars, workerVars
  <2> QED BY <2>1, <2>2, <2>3 DEF Shape, RunShape
<1>7. CASE CancelReconciled(k)
  <2>1. req' \in [Clients -> Requests]
    BY <1>7, LoopEffect DEF Moved, RequestKept
  <2> QED BY <2>1, <1>7 DEF CancelReconciled, Shape, RunShape, dbVars, runVars, workerVars
<1>8. CASE RetryRefused(k)
  <2>1. req' \in [Clients -> Requests]
    BY <1>8, AnswerEffect DEF RetryRefused, RequestKept
  <2> QED BY <2>1, <1>8 DEF RetryRefused, Shape, RunShape, dbVars, runVars, workerVars
<1>9. CASE LastReturns(k)
  <2>1. req' \in [Clients -> Requests]
    BY <1>9, AnswerEffect DEF LastReturns, RequestKept
  <2>2. cancelOK' \subseteq Batches
    BY <1>9 DEF LastReturns, Shape, Locks, RequestsHold
  <2> QED BY <2>1, <2>2, <1>9 DEF LastReturns, Shape, RunShape, dbVars, runVars, workerVars
<1>10. CASE RequestRejected(k) \/ RequestFails(k)
  <2>1. req' \in [Clients -> Requests]
    BY <1>10, AnswerEffect DEF RequestRejected, RequestFails, RequestKept
  <2> QED BY <2>1, <1>10 DEF RequestRejected, RequestFails, Shape, RunShape, dbVars, runVars, workerVars
<1>11. CASE CancelRejected(k)
  <2>1. req' \in [Clients -> Requests]
    BY <1>11, AnswerEffect DEF CancelRejected, RequestKept
  <2>2. cancelMark' \subseteq Children /\ recentMarks' \subseteq cancelMark'
    BY <1>11, MarkEffect DEF CancelRejected
  <2>3. UNCHANGED <<unreadable, childAudit, proc, toReconcile, toQueue, wpc, wchild, wresult, cancelOK,
                    parentAudit>>
    BY <1>11 DEF CancelRejected, workerVars
  <2> QED BY <2>1, <2>2, <2>3 DEF Shape, RunShape
<1> QED BY <1>1, <1>2, <1>3, <1>4, <1>5, <1>6, <1>7, <1>8, <1>9, <1>10, <1>11 DEF RequestStep
\* The transactions leave everything else alone.
LEMMA RefreshLeaves ==
    ASSUME NEW a \in Actors, RefreshLock(a) \/ RefreshItems(a) \/ RefreshFix(a) \/ RefreshWrite(a)
    PROVE  /\ UNCHANGED <<cancelMark, unreadable, childAudit, proc, ctxDone, recentMarks, toReconcile,
                          toQueue, wpc, wchild, wresult, req, cancelOK>>
           /\ RefreshWrite(a) \/ UNCHANGED <<child, batch, parent, parentAudit>>
<1>1. CASE RefreshLock(a)
  BY <1>1 DEF RefreshLock, dbVars, runVars, workerVars
<1>2. CASE RefreshItems(a)
  BY <1>2 DEF RefreshItems, dbVars, runVars, workerVars
<1>3. CASE RefreshFix(a)
  BY <1>3 DEF RefreshFix, dbVars, runVars, workerVars
<1>4. CASE RefreshWrite(a)
  BY <1>4 DEF RefreshWrite, runVars, workerVars
<1> QED BY <1>1, <1>2, <1>3, <1>4

\* What SyncDirectTerminalAudits leaves alone.
LEMMA SyncLeaves ==
    ASSUME Shape, NEW a \in Actors, SyncDirectTerminalAudits(a)
    PROVE  /\ UNCHANGED <<cancelMark, unreadable, proc, ctxDone, recentMarks, toReconcile, toQueue,
                          wpc, wchild, wresult, req, cancelOK, child, batch, parent, parentAudit>>
           /\ childAudit' \in [Children -> {"NONE", "OPEN", "DONE"}]
BY DEF SyncDirectTerminalAudits, Shape, runVars, workerVars

\* Every step keeps the shape of what runs.
LEMMA RunShapeStep ==
    ASSUME Shape, Locks, Snapshots, [Next]_vars
    PROVE  RunShape' /\ parentAudit' \in [Batches -> Terminal \cup {"NONE", "OPEN"}]
<1> USE DEF Shape, RunShape
<1>1. CASE Start
  BY <1>1 DEF Start, dbVars, workerVars
<1>2. CASE Crash \/ RunReturns \/ RecoverFails
  BY <1>2, ExitShape DEF Crash, RunReturns, RecoverFails
<1>3. CASE Shutdown
  BY <1>3 DEF Shutdown, dbVars, workerVars
<1>4. CASE RecoverStep
  BY <1>4, RecoverShape
<1>5. ASSUME NEW a \in Actors, TxStep(a)
      PROVE  RunShape' /\ parentAudit' \in [Batches -> Terminal \cup {"NONE", "OPEN"}]
  <2>1. CASE SyncDirectTerminalAudits(a)
    BY <2>1, SyncLeaves
  <2>2. CASE RefreshLock(a) \/ RefreshItems(a) \/ RefreshFix(a)
    <3>1. /\ UNCHANGED <<cancelMark, unreadable, childAudit, proc, ctxDone, recentMarks, toReconcile,
                         toQueue, wpc, wchild, wresult, req, cancelOK>>
          /\ RefreshWrite(a) \/ UNCHANGED <<child, batch, parent, parentAudit>>
      BY <2>2, RefreshLeaves
    <3>2. parentAudit' \in [Batches -> Terminal \cup {"NONE", "OPEN"}]
      BY <3>1, WriteEffect
    <3> QED BY <3>1, <3>2
  <2>3. CASE RefreshWrite(a)
    <3>1. UNCHANGED <<cancelMark, unreadable, childAudit, proc, ctxDone, recentMarks, toReconcile,
                      toQueue, wpc, wchild, wresult, req, cancelOK>>
      BY <2>3, RefreshLeaves
    <3> QED BY <3>1, <2>3, WriteEffect
  <2> QED BY <1>5, <2>1, <2>2, <2>3 DEF TxStep
<1>6. ASSUME NEW w \in Workers, WorkerStep(w) \/ WorkerFails(w)
      PROVE  RunShape' /\ parentAudit' = parentAudit
  BY <1>6, WorkerShape
<1>7. ASSUME NEW k \in Clients, Submit(k) \/ Get(k) \/ RequestStep(k) \/ RequestFails(k)
      PROVE  RunShape' /\ parentAudit' \in [Batches -> Terminal \cup {"NONE", "OPEN"}]
  <2>1. CASE Submit(k) \/ RetryLoaded(k)
    <3>1. PICK b \in Batches, D \in (SUBSET Devices) \ {{}}, source \in Batches \cup {Nobody} :
            CreateStep(k, b, D, source)
      BY <2>1, SubmitCreates, RetryCreates
    <3> QED BY <3>1 DEF CreateStep, NewRows, workerVars
  <2>2. CASE Get(k) \/ (RequestStep(k) /\ ~RetryLoaded(k)) \/ RequestFails(k)
    BY <2>2, RequestShape
  <2> QED BY <1>7, <2>1, <2>2
<1>8. CASE UNCHANGED vars
  BY <1>8 DEF vars
<1> QED BY <1>1, <1>2, <1>3, <1>4, <1>5, <1>6, <1>7, <1>8 DEF Next

\* Every step keeps the shape of the state.
LEMMA ShapeStep == ASSUME Shape, Locks, Snapshots, [Next]_vars PROVE Shape'
<1> DEFINE Core == /\ child' \in [Children -> Statuses \cup {NoTask}]
                   /\ batch' \in [Batches -> BatchRows]
                   /\ parent' \in [Batches -> Statuses \cup {NoTask}]
                   /\ tx' \in [Actors -> Transactions]
<1>1. Core
  <2>1. CASE QuietStep
    BY <2>1 DEF QuietStep, TxQuiet, Shape
  <2>2. ASSUME NEW a \in Actors, RefreshLock(a) \/ RefreshItems(a) \/ RefreshFix(a)
        PROVE  Core
    <3>1. OthersKeep(a)
      BY <2>2, LockEffect, ItemsEffect, FixEffect
    <3>2. UNCHANGED <<child, batch, parent>>
      BY <2>2 DEF RefreshLock, RefreshItems, RefreshFix, dbVars
    <3> QED BY <3>1, <3>2 DEF OthersKeep, Shape
  <2>3. ASSUME NEW a \in Actors, RefreshWrite(a) PROVE Core
    <3>1. child' = [c \in Children |-> View(a, c)]
      BY <2>3, WriteEffect
    <3>2. child' \in [Children -> Statuses \cup {NoTask}]
      BY <3>1 DEF View, Shape, Statuses, Terminal
    <3> QED BY <3>2, <2>3, WriteEffect DEF OthersKeep
  <2>4. ASSUME NEW k \in Clients, Submit(k) \/ RetryLoaded(k) PROVE Core
    <3>1. PICK b \in Batches, D \in (SUBSET Devices) \ {{}}, source \in Batches \cup {Nobody} :
            CreateStep(k, b, D, source)
      BY <2>4, SubmitCreates, RetryCreates
    <3> QED BY <3>1 DEF CreateStep, NewRows, OthersKeep
  <2> QED BY <2>1, <2>2, <2>3, <2>4, QuietOrLoud DEF Loud
<1>2. RunShape' /\ parentAudit' \in [Batches -> Terminal \cup {"NONE", "OPEN"}]
  BY RunShapeStep
<1> QED BY <1>1, <1>2 DEF Shape, RunShape

-----------------------------------------------------------------------------
(***************************************************************************)
(* Children move along the transition table                                *)
(***************************************************************************)

\* What a move along the table can and cannot do.
LEMMA AdvanceFacts ==
    ASSUME Shape, NEW c \in Children, Advance(c)
    PROVE  /\ child[c] \in Terminal => child'[c] = child[c]
           /\ child[c] = NoTask <=> child'[c] = NoTask
           /\ child'[c] \in Unstarted => child[c] \in Unstarted
           /\ child'[c] \in FailedStatuses => child[c] \in FailedStatuses \cup {"RUNNING"}
           /\ child'[c] = "RUNNING" => child[c] \in {"RUNNING", "QUEUED"}
           /\ child[c] = "RUNNING" => child'[c] \in Terminal \cup {"RUNNING"}
BY TransitionFacts DEF Advance, Shape, Terminal, NoTask, Unstarted, FailedStatuses, Statuses

\* The commit of a transaction cancels children that have not started.
LEMMA WriteAdvances ==
    ASSUME Shape, Locks, Snapshots, NEW a \in Actors, RefreshWrite(a), NEW c \in Children
    PROVE  Advance(c) /\ child'[c] = View(a, c)
<1>1. child'[c] = View(a, c)
  BY WriteEffect
<1>2. c \in tx[a].cancels => child[c] \in Unstarted
  BY DEF Locks, CancelsLocked
<1> QED BY <1>1, <1>2, TransitionFacts DEF Advance, View, Unstarted

\* Before a batch is created none of its children exists.
LEMMA CreateIsNew ==
    ASSUME Shape, Locks, NEW k \in Clients, NEW b \in Batches, NEW D, NEW source,
           CreateStep(k, b, D, source), NEW c \in Children
    PROVE  /\ c[1] = b => child[c] = NoTask /\ child'[c] \in {NoTask, "PENDING"}
           /\ c[1] # b => child'[c] = child[c]
<1>1. batch[b].status = NoTask
  BY DEF CreateStep, NewRows
<1>2. c[1] = b => child[c] = NoTask
  BY <1>1 DEF Locks, RowsTogether
<1> QED BY <1>2 DEF CreateStep, NewRows

\* Every step moves every child along the table, or creates it.
LEMMA StepMoves ==
    ASSUME Shape, Locks, Snapshots, [Next]_vars, NEW c \in Children
    PROVE  Advance(c) \/ (child[c] = NoTask /\ child'[c] = "PENDING")
<1>1. CASE QuietStep
  BY <1>1 DEF QuietStep
<1>2. ASSUME NEW a \in Actors, RefreshLock(a) \/ RefreshItems(a) \/ RefreshFix(a) PROVE Advance(c)
  BY <1>2 DEF RefreshLock, RefreshItems, RefreshFix, dbVars, Advance
<1>3. ASSUME NEW a \in Actors, RefreshWrite(a) PROVE Advance(c)
  BY <1>3, WriteAdvances
<1>4. ASSUME NEW k \in Clients, Submit(k) \/ RetryLoaded(k)
      PROVE  Advance(c) \/ (child[c] = NoTask /\ child'[c] = "PENDING")
  <2>1. PICK b \in Batches, D \in (SUBSET Devices) \ {{}}, source \in Batches \cup {Nobody} :
          CreateStep(k, b, D, source)
    BY <1>4, SubmitCreates, RetryCreates
  <2> QED BY <2>1, CreateIsNew DEF Advance
<1> QED BY <1>1, <1>2, <1>3, <1>4, QuietOrLoud DEF Loud

\* What exists goes on to exist.
LEMMA RowsStay ==
    ASSUME Shape, Locks, Snapshots, [Next]_vars
    PROVE  /\ \A b \in Batches : batch[b].status # NoTask => batch'[b].status # NoTask
           /\ \A c \in Children : child[c] # NoTask => child'[c] # NoTask
<1>1. ASSUME NEW c \in Children, child[c] # NoTask PROVE child'[c] # NoTask
  BY <1>1, StepMoves, AdvanceFacts
<1>2. ASSUME NEW b \in Batches, batch[b].status # NoTask PROVE batch'[b].status # NoTask
  <2>1. CASE QuietStep
    BY <1>2, <2>1 DEF QuietStep
  <2>2. ASSUME NEW a \in Actors, RefreshLock(a) \/ RefreshItems(a) \/ RefreshFix(a)
        PROVE  batch'[b].status # NoTask
    BY <1>2, <2>2 DEF RefreshLock, RefreshItems, RefreshFix, dbVars
  <2>3. ASSUME NEW a \in Actors, RefreshWrite(a) PROVE batch'[b].status # NoTask
    <3>1. AggregateStatus(tx[a].seen) \in Statuses
      <4>1. tx[a].at = "write"
        BY <2>3 DEF RefreshWrite
      <4>2. DOMAIN tx[a].seen # {} /\ \A c \in DOMAIN tx[a].seen : tx[a].seen[c] \in Statuses
        BY <4>1, WriteKnows
      <4> QED BY <4>2, AggregateFacts
    <3>2. /\ \A x \in Batches \ {tx[a].b} : batch'[x] = batch[x]
          /\ batch'[tx[a].b].status = AggregateStatus(tx[a].seen)
      BY <2>3, WriteEffect
    <3> QED BY <1>2, <3>1, <3>2, StatusFacts
  <2>4. ASSUME NEW k \in Clients, Submit(k) \/ RetryLoaded(k) PROVE batch'[b].status # NoTask
    <3>1. PICK x \in Batches, D \in (SUBSET Devices) \ {{}}, source \in Batches \cup {Nobody} :
            CreateStep(k, x, D, source)
      BY <2>4, SubmitCreates, RetryCreates
    <3> QED BY <3>1, <1>2 DEF CreateStep, NewRows, NoTask
  <2> QED BY <2>1, <2>2, <2>3, <2>4, QuietOrLoud DEF Loud
<1> QED BY <1>1, <1>2

-----------------------------------------------------------------------------
(***************************************************************************)
(* The locks                                                               *)
(***************************************************************************)

\* In a quiet step a transaction that holds a lock, or shows a snapshot, is
\* one that did before.
LEMMA QuietTx ==
    ASSUME Shape, Locks, TxQuiet, NEW a \in Actors
    PROVE  /\ tx'[a].at \in Held \/ tx'[a].cancels # {} => tx'[a] = tx[a]
           /\ tx'[a].at # "off" => tx'[a].b \in Batches /\ batch[tx'[a].b].status # NoTask
           /\ tx'[a].fixed => tx'[a] = tx[a] \/ (tx[a].fixed /\ tx[a].at = "sync")
           /\ \/ tx'[a] = tx[a]
              \/ tx'[a].seen = <<>> /\ tx'[a].at \in {"off", "lock"}
              \/ /\ tx[a].at = "sync" /\ tx'[a].at = "done" /\ tx'[a].seen = tx[a].seen
                 /\ tx'[a].b = tx[a].b /\ tx[a].cancels = {} /\ tx'[a].cancels = {}
<1>1. tx[a] \in Transactions
  BY DEF Shape
<1>2. tx[a].at # "off" => tx[a].b \in Batches /\ batch[tx[a].b].status # NoTask
  BY DEF Locks, TxHasBatch
<1>3. CASE tx'[a] = tx[a]
  BY <1>2, <1>3
<1>4. CASE tx'[a] = NoTx
  BY <1>4, TxRecords DEF Held
<1>5. ASSUME NEW b \in Batches, NEW sync \in BOOLEAN, batch[b].status # NoTask,
             tx'[a] = LockTx(b, sync)
      PROVE  /\ tx'[a].at = "lock" /\ tx'[a].b = b /\ tx'[a].cancels = {}
             /\ tx'[a].seen = <<>> /\ tx'[a].fixed = FALSE
  BY <1>5, TxRecords
<1>6. CASE tx[a].at = "sync" /\ tx'[a] = [tx[a] EXCEPT !.at = "done"]
  <2>1. tx'[a].at = "done" /\ tx'[a].seen = tx[a].seen /\ tx'[a].b = tx[a].b
        /\ tx'[a].cancels = tx[a].cancels /\ tx'[a].fixed = tx[a].fixed
    BY <1>1, <1>6 DEF Transactions
  <2>2. tx[a].cancels = {}
    BY <1>6 DEF Locks, CancelsLocked, Held
  <2> QED BY <1>2, <1>6, <2>1, <2>2 DEF Held
<1>7. CASE \E b \in Batches, sync \in BOOLEAN : batch[b].status # NoTask /\ tx'[a] = LockTx(b, sync)
  BY <1>5, <1>7 DEF Held
<1> QED BY <1>3, <1>4, <1>6, <1>7 DEF TxQuiet, NewTx

TxLocks == Exclusive /\ CancelsLocked
           /\ \A a \in Actors : tx[a].at # "off" => tx[a].b \in Batches /\ batch[tx[a].b].status # NoTask

\* A batch has one transaction, and what it has updated stays.
LEMMA TxLocksStep ==
    ASSUME Shape, Locks, Snapshots, [Next]_vars
    PROVE  TxLocks'
<1>0. Shape'
  BY ShapeStep
<1>1. CASE QuietStep
  <2>1. TxQuiet /\ batch' = batch
    BY <1>1 DEF QuietStep
  <2>2. Exclusive'
    BY <2>1, QuietTx DEF Exclusive, Locks
  <2>3. ASSUME NEW a \in Actors, NEW c \in tx'[a].cancels
        PROVE  tx'[a].at \in Held /\ c[1] = tx'[a].b /\ child'[c] \in Unstarted
    <3>1. tx'[a] = tx[a]
      BY <2>1, QuietTx
    <3>2. c \in tx[a].cancels
      BY <3>1
    <3>3. child'[c] = child[c]
      BY <3>2, <1>1 DEF QuietStep
    <3> QED BY <3>1, <3>2, <3>3 DEF Locks, CancelsLocked
  <2>4. CancelsLocked'
    BY <2>3 DEF CancelsLocked
  <2>5. \A a \in Actors : tx'[a].at # "off" => tx'[a].b \in Batches /\ batch'[tx'[a].b].status # NoTask
    BY <2>1, QuietTx
  <2> QED BY <2>2, <2>4, <2>5 DEF TxLocks
<1>2. ASSUME NEW a \in Actors, OthersKeep(a), tx'[a].b = tx[a].b, tx[a].at # "off",
             Exclusive', \A c \in Children : c \notin tx[a].cancels => child'[c] = child[c],
             \A c \in tx'[a].cancels :
                 tx'[a].at \in Held /\ c[1] = tx[a].b /\ child'[c] \in Unstarted,
             tx[a].at \in Held \/ child' = child
      PROVE  TxLocks'
  <2>1. ASSUME NEW x \in Actors \ {a}, NEW c \in tx'[x].cancels
        PROVE  tx'[x].at \in Held /\ c[1] = tx'[x].b /\ child'[c] \in Unstarted
    <3>1. tx'[x] = tx[x] /\ c \in tx[x].cancels
      BY <1>2 DEF OthersKeep
    <3>2. tx[x].at \in Held /\ c[1] = tx[x].b /\ child[c] \in Unstarted /\ c \in Children
      BY <3>1 DEF Locks, CancelsLocked, Shape, Transactions
    <3>3. c \notin tx[a].cancels \/ child' = child
      BY <1>2, <3>1, <3>2 DEF Locks, Exclusive, CancelsLocked
    <3> QED BY <1>2, <3>1, <3>2, <3>3
  <2>2. CancelsLocked'
    BY <1>2, <2>1 DEF CancelsLocked
  <2>3. ASSUME NEW x \in Actors, tx'[x].at # "off"
        PROVE  tx'[x].b \in Batches /\ batch'[tx'[x].b].status # NoTask
    <3>1. tx'[x].b = tx[x].b /\ tx[x].at # "off"
      BY <1>2, <2>3 DEF OthersKeep
    <3> QED BY <3>1, RowsStay DEF Locks, TxHasBatch
  <2> QED BY <1>2, <2>2, <2>3 DEF TxLocks
<1>3. ASSUME NEW a \in Actors, RefreshLock(a) PROVE TxLocks'
  <2>1. OthersKeep(a) /\ tx'[a].b = tx[a].b /\ tx'[a].cancels = tx[a].cancels
    BY <1>3, LockEffect
  <2>2. tx[a].at = "lock" /\ ~BatchLocked(tx[a].b) /\ child' = child
    BY <1>3 DEF RefreshLock, dbVars
  <2>3. tx[a].cancels = {}
    BY <2>2 DEF Locks, CancelsLocked, Held
  <2>4. Exclusive'
    BY <2>1, <2>2 DEF Locks, Exclusive, BatchLocked, Held, OthersKeep
  <2> QED BY <1>2, <2>1, <2>2, <2>3, <2>4
<1>4. ASSUME NEW a \in Actors, RefreshItems(a) PROVE TxLocks'
  <2>1. OthersKeep(a) /\ tx'[a].b = tx[a].b /\ tx'[a].cancels = tx[a].cancels /\ tx'[a].at \in Held
    BY <1>4, ItemsEffect DEF Held
  <2>2. tx[a].at = "items" /\ child' = child
    BY <1>4 DEF RefreshItems, dbVars
  <2>3. Exclusive'
    BY <2>1, <2>2 DEF Locks, Exclusive, Held, OthersKeep
  <2>4. \A c \in tx[a].cancels : c[1] = tx[a].b /\ child[c] \in Unstarted
    BY DEF Locks, CancelsLocked
  <2> QED BY <1>2, <2>1, <2>2, <2>3, <2>4 DEF Held
<1>5. ASSUME NEW a \in Actors, RefreshFix(a) PROVE TxLocks'
  <2>1. OthersKeep(a) /\ tx'[a].b = tx[a].b /\ tx'[a].at \in Held
        /\ tx'[a].cancels = {c \in Items(tx[a].b) : child[c] \in Unstarted}
    BY <1>5, FixEffect DEF Held
  <2>2. tx[a].at = "fix" /\ child' = child
    BY <1>5 DEF RefreshFix, dbVars
  <2>3. Exclusive'
    BY <2>1, <2>2 DEF Locks, Exclusive, Held, OthersKeep
  <2>4. \A c \in tx'[a].cancels : c[1] = tx[a].b /\ child[c] \in Unstarted
    BY <2>1 DEF Items
  <2> QED BY <1>2, <2>1, <2>2, <2>3, <2>4 DEF Held
<1>6. ASSUME NEW a \in Actors, RefreshWrite(a) PROVE TxLocks'
  <2>1. OthersKeep(a) /\ tx'[a].b = tx[a].b /\ tx'[a].at \in {"sync", "done"} /\ tx'[a].cancels = {}
    BY <1>6, WriteEffect
  <2>2. tx[a].at = "write"
    BY <1>6 DEF RefreshWrite
  <2>3. Exclusive'
    BY <2>1, <2>2 DEF Locks, Exclusive, Held, OthersKeep
  <2>4. \A c \in Children : c \notin tx[a].cancels => child'[c] = child[c]
    BY <1>6, WriteAdvances DEF View
  <2> QED BY <1>2, <2>1, <2>2, <2>3, <2>4 DEF Held
<1>7. ASSUME NEW k \in Clients, Submit(k) \/ RetryLoaded(k) PROVE TxLocks'
  <2>1. PICK b \in Batches, D \in (SUBSET Devices) \ {{}}, source \in Batches \cup {Nobody} :
          CreateStep(k, b, D, source)
    BY <1>7, SubmitCreates, RetryCreates
  <2>2. TxQuiet
    BY <2>1 DEF CreateStep
  <2>3. Exclusive'
    BY <2>2, QuietTx DEF Exclusive, Locks
  <2>4. ASSUME NEW a \in Actors, NEW c \in tx'[a].cancels
        PROVE  tx'[a].at \in Held /\ c[1] = tx'[a].b /\ child'[c] \in Unstarted
    <3>1. tx'[a] = tx[a]
      BY <2>2, QuietTx
    <3>2. tx[a].at \in Held /\ c[1] = tx[a].b /\ child[c] \in Unstarted /\ c \in Children
      BY <3>1 DEF Locks, CancelsLocked, Shape, Transactions
    <3>3. child'[c] = child[c]
      BY <2>1, <3>2, CreateIsNew DEF Unstarted, NoTask
    <3> QED BY <3>1, <3>2, <3>3
  <2>5. CancelsLocked'
    BY <2>4 DEF CancelsLocked
  <2>6. \A a \in Actors : tx'[a].at # "off" => tx'[a].b \in Batches /\ batch'[tx'[a].b].status # NoTask
    BY <2>2, QuietTx, RowsStay
  <2> QED BY <2>3, <2>5, <2>6 DEF TxLocks
<1> QED BY <1>1, <1>3, <1>4, <1>5, <1>6, <1>7, QuietOrLoud DEF Loud

\* A batch and its children are created together.
LEMMA RowsTogetherStep ==
    ASSUME Shape, Locks, Snapshots, [Next]_vars
    PROVE  RowsTogether'
<1>1. ASSUME \A c \in Children : Advance(c),
             \A b \in Batches : batch[b].status = NoTask <=> batch'[b].status = NoTask
      PROVE  RowsTogether'
  <2>1. \A c \in Children : child[c] = NoTask <=> child'[c] = NoTask
    BY <1>1, AdvanceFacts
  <2> QED BY <1>1, <2>1 DEF Locks, RowsTogether
<1>2. CASE QuietStep
  BY <1>1, <1>2 DEF QuietStep
<1>3. ASSUME NEW a \in Actors, RefreshLock(a) \/ RefreshItems(a) \/ RefreshFix(a)
      PROVE  RowsTogether'
  BY <1>1, <1>3 DEF RefreshLock, RefreshItems, RefreshFix, dbVars, Advance
<1>4. ASSUME NEW a \in Actors, RefreshWrite(a) PROVE RowsTogether'
  <2>1. tx[a].b \in Batches /\ batch[tx[a].b].status # NoTask
    BY <1>4 DEF RefreshWrite, Locks, TxHasBatch
  <2>2. batch'[tx[a].b].status # NoTask
    BY <2>1, RowsStay
  <2>3. \A b \in Batches \ {tx[a].b} : batch'[b] = batch[b]
    BY <1>4, WriteEffect
  <2>4. \A c \in Children : Advance(c)
    BY <1>4, WriteAdvances
  <2> QED BY <1>1, <2>1, <2>2, <2>3, <2>4
<1>5. ASSUME NEW k \in Clients, Submit(k) \/ RetryLoaded(k) PROVE RowsTogether'
  <2>1. PICK b \in Batches, D \in (SUBSET Devices) \ {{}}, source \in Batches \cup {Nobody} :
          CreateStep(k, b, D, source)
    BY <1>5, SubmitCreates, RetryCreates
  <2>2. batch'[b].status # NoTask /\ \A x \in Batches \ {b} : batch'[x] = batch[x]
    BY <2>1 DEF CreateStep, NewRows, NoTask
  <2>3. \A c \in Children : c[1] # b => child'[c] = child[c]
    BY <2>1, CreateIsNew
  <2>4. PICK d \in D : TRUE
    OBVIOUS
  <2>5. <<b, d>> \in Children /\ <<b, d>>[1] = b /\ child'[<<b, d>>] # NoTask
    <3>1. <<b, d>> \in Children
      BY <2>4 DEF Children
    <3> QED BY <2>1, <2>4, <3>1 DEF CreateStep, NewRows, NoTask
  <2> QED BY <2>2, <2>3, <2>5 DEF Locks, RowsTogether
<1> QED BY <1>2, <1>3, <1>4, <1>5, QuietOrLoud DEF Loud

\* The steps of others: nothing of a worker changes but the rows.
LEMMA WorkersKeep ==
    ASSUME Shape, Locks, UNCHANGED <<wpc, wchild, wresult>>, proc = "up" \/ proc' # "up",
           \A c \in Children : child[c] = "RUNNING" => child'[c] = "RUNNING"
                               \/ \A w \in Workers : wpc[w] = "off",
           proc' = "up" \/ proc # "up" \/ \A w \in Workers : wpc[w] = "off"
    PROVE  WorkersOwn'
<1>1. proc' # "up" => \A w \in Workers : wpc'[w] = "off"
  BY DEF Locks, WorkersOwn
<1>2. ASSUME NEW w \in Workers, Executing(w)'
      PROVE  wchild'[w] \in Children /\ child'[wchild'[w]] = "RUNNING"
  BY <1>2 DEF Locks, WorkersOwn, Executing
<1>3. \A v, w \in Workers : Executing(v)' /\ Executing(w)' /\ wchild'[v] = wchild'[w] => v = w
  BY DEF Locks, WorkersOwn, Executing
<1>4. \A w \in Workers : wpc'[w] = "save" => wresult'[w] \in Terminal
  BY DEF Locks, WorkersOwn
<1> QED BY <1>1, <1>2, <1>3, <1>4 DEF WorkersOwn

\* When all workers are off there is nothing to own.
LEMMA AllOffOwn == ASSUME \A w \in Workers : wpc'[w] = "off" PROVE WorkersOwn'
BY DEF WorkersOwn, Executing

\* A worker's step: the others keep their children.
LEMMA OneWorkerOwns ==
    ASSUME Shape, Shape', Locks, NEW w \in Workers, proc' = proc, wpc[w] # "off",
           \A v \in Workers \ {w} : wpc'[v] = wpc[v] /\ wchild'[v] = wchild[v] /\ wresult'[v] = wresult[v],
           \A v \in Workers \ {w} : Executing(v) => child'[wchild[v]] = child[wchild[v]],
           Executing(w)' => /\ wchild'[w] \in Children /\ child'[wchild'[w]] = "RUNNING"
                            /\ \A v \in Workers \ {w} : Executing(v) => wchild[v] # wchild'[w],
           wpc'[w] = "save" => wresult'[w] \in Terminal
    PROVE  WorkersOwn'
<1>1. proc' = "up"
  BY DEF Locks, WorkersOwn
<1>2. ASSUME NEW v \in Workers, Executing(v)'
      PROVE  wchild'[v] \in Children /\ child'[wchild'[v]] = "RUNNING"
  BY <1>2 DEF Locks, WorkersOwn, Executing
<1>3. ASSUME NEW u \in Workers, NEW v \in Workers, Executing(u)', Executing(v)', wchild'[u] = wchild'[v]
      PROVE  u = v
  BY <1>3 DEF Locks, WorkersOwn, Executing
<1>4. \A v \in Workers : wpc'[v] = "save" => wresult'[v] \in Terminal
  BY DEF Locks, WorkersOwn
<1> QED BY <1>1, <1>2, <1>3, <1>4 DEF WorkersOwn

\* A step of a worker leaves each worker with a child of its own.
LEMMA WorkersOwnByWorker ==
    ASSUME Shape, Shape', Locks, NEW w \in Workers, WorkerStep(w) \/ WorkerFails(w)
    PROVE  WorkersOwn'
<1>1. CASE ClaimNextQueued(w)
  <2>1. PICK c \in Children :
          /\ child[c] = "QUEUED" /\ ~RowLocked(c)
          /\ child' = [child EXCEPT ![c] = "RUNNING"]
          /\ wchild' = [wchild EXCEPT ![w] = c]
    BY <1>1 DEF ClaimNextQueued
  <2>2. \A v \in Workers : Executing(v) => wchild[v] \in Children /\ child[wchild[v]] = "RUNNING"
    BY DEF Locks, WorkersOwn
  <2>3. proc' = proc /\ wpc[w] = "idle" /\ wpc' = [wpc EXCEPT ![w] = "run"] /\ wresult' = wresult
    BY <1>1 DEF ClaimNextQueued, runVars
  <2>4. child'[c] = "RUNNING" /\ \A d \in Children \ {c} : child'[d] = child[d]
    BY <2>1 DEF Shape
  <2>5. wchild'[w] = c /\ \A v \in Workers \ {w} : wchild'[v] = wchild[v]
    BY <2>1 DEF Shape
  <2>6. wpc'[w] = "run" /\ \A v \in Workers \ {w} : wpc'[v] = wpc[v]
    BY <2>3 DEF Shape
  <2>7. \A v \in Workers : Executing(v) => wchild[v] # c
    BY <2>1, <2>2
  <2> QED BY <2>2, <2>3, <2>4, <2>5, <2>6, <2>7, OneWorkerOwns DEF Executing
<1>2. ASSUME proc' = proc, wpc[w] = "run", wpc' = [wpc EXCEPT ![w] = "save"], wchild' = wchild,
             child' = child, NEW s \in Terminal, wresult' = [wresult EXCEPT ![w] = s]
      PROVE  WorkersOwn'
  <2>1. wpc'[w] = "save" /\ \A v \in Workers \ {w} : wpc'[v] = wpc[v]
    BY <1>2 DEF Shape
  <2>2. wresult'[w] = s /\ \A v \in Workers \ {w} : wresult'[v] = wresult[v]
    BY <1>2 DEF Shape
  <2>3. wchild[w] \in Children /\ child[wchild[w]] = "RUNNING"
    BY <1>2 DEF Locks, WorkersOwn, Executing
  <2>4. \A v \in Workers \ {w} : Executing(v) => wchild[v] # wchild[w]
    BY <1>2 DEF Locks, WorkersOwn, Executing
  <2> QED BY <1>2, <2>1, <2>2, <2>3, <2>4, OneWorkerOwns
<1>3. CASE HandlerEnds(w)
  <2>1. PICK s \in Outcomes(wchild[w]) : wresult' = [wresult EXCEPT ![w] = s]
    BY <1>3 DEF HandlerEnds
  <2>2. s \in Terminal
    BY BatchAssumption DEF Outcomes, Terminal
  <2> QED BY <2>1, <2>2, <1>2, <1>3 DEF HandlerEnds, runVars
<1>4. CASE HandlerSkipped(w)
  <2>1. PICK s \in Outcomes(wchild[w]) \cap {"CANCELLED", "INTERRUPTED"} :
          wresult' = [wresult EXCEPT ![w] = s]
    BY <1>4 DEF HandlerSkipped
  <2>2. s \in Terminal
    BY DEF Terminal
  <2> QED BY <2>1, <2>2, <1>2, <1>4 DEF HandlerSkipped, runVars, dbVars
<1>5. CASE Save(w)
  <2>1. /\ proc' = proc /\ wpc[w] = "save" /\ wpc' = [wpc EXCEPT ![w] = "reconcile"]
        /\ wchild' = wchild /\ wresult' = wresult /\ child' = [child EXCEPT ![wchild[w]] = wresult[w]]
    BY <1>5 DEF Save, runVars
  <2>2. \A v \in Workers \ {w} : Executing(v) => wchild[v] # wchild[w] /\ wchild[v] \in Children
    BY <2>1 DEF Locks, WorkersOwn, Executing
  <2>3. \A v \in Workers \ {w} : Executing(v) => child'[wchild[v]] = child[wchild[v]]
    BY <2>1, <2>2 DEF Shape
  <2>4. wpc'[w] = "reconcile" /\ \A v \in Workers \ {w} : wpc'[v] = wpc[v]
    BY <2>1 DEF Shape
  <2> QED BY <2>1, <2>3, <2>4, OneWorkerOwns DEF Executing
<1>6. ASSUME proc' = proc, wpc[w] # "off", NEW p \in {"idle", "stopped"},
             wpc' = [wpc EXCEPT ![w] = p], child' = child,
             \A v \in Workers \ {w} : wchild'[v] = wchild[v] /\ wresult'[v] = wresult[v]
      PROVE  WorkersOwn'
  <2>1. wpc'[w] = p /\ \A v \in Workers \ {w} : wpc'[v] = wpc[v]
    BY <1>6 DEF Shape
  <2> QED BY <1>6, <2>1, OneWorkerOwns DEF Executing
<1>7. CASE SaveReturns(w)
  BY <1>6, <1>7 DEF SaveReturns, runVars, dbVars, Shape
<1>8. CASE WorkerStops(w)
  BY <1>6, <1>8 DEF WorkerStops, runVars, dbVars, Shape
<1>9. CASE SaveRejected(w) \/ WorkerFails(w)
  BY <1>6, <1>9 DEF SaveRejected, WorkerFails, Returns, runVars, dbVars, Shape
<1>10. CASE ClaimTooEarly(w)
  <2>1. PICK c \in Children : child[c] = "QUEUED" /\ child' = [child EXCEPT ![c] = "RUNNING"]
    BY <1>10 DEF ClaimTooEarly
  <2>2. proc' = proc /\ wpc[w] = "idle" /\ Returns(w)
    BY <1>10 DEF ClaimTooEarly
  <2>3. wpc'[w] = "stopped" /\ \A v \in Workers \ {w} :
            wpc'[v] = wpc[v] /\ wchild'[v] = wchild[v] /\ wresult'[v] = wresult[v]
    BY <2>2 DEF Returns, Shape
  <2>4. \A v \in Workers \ {w} : Executing(v) => child'[wchild[v]] = child[wchild[v]]
    BY <2>1 DEF Locks, WorkersOwn, Shape
  <2> QED BY <2>2, <2>3, <2>4, OneWorkerOwns DEF Executing
<1> QED BY <1>1, <1>3, <1>4, <1>5, <1>7, <1>8, <1>9, <1>10 DEF WorkerStep

\* Every step leaves each worker with a child of its own.
LEMMA WorkersOwnStep == ASSUME Shape, Locks, Snapshots, [Next]_vars PROVE WorkersOwn'
<1>0. Shape'
  BY ShapeStep
<1>1. ASSUME UNCHANGED <<wpc, wchild, wresult, proc>>,
             \A c \in Children : child[c] = "RUNNING" => child'[c] = "RUNNING"
      PROVE  WorkersOwn'
  BY <1>1, WorkersKeep
<1>2. CASE Start
  <2>1. UNCHANGED <<wpc, wchild, wresult, child>> /\ proc' # "up" /\ proc # "up"
    BY <1>2 DEF Start, dbVars, workerVars
  <2> QED BY <2>1, WorkersKeep
<1>3. ASSUME Exit PROVE WorkersOwn'
  BY <1>3, AllOffOwn DEF Exit
<1>4. CASE Shutdown
  BY <1>1, <1>4 DEF Shutdown, dbVars, workerVars
<1>5. CASE RecoverStep
  <2>1. ASSUME proc # "up", wpc' = wpc PROVE WorkersOwn'
    BY <2>1, AllOffOwn DEF Locks, WorkersOwn
  <2>2. CASE RecoverInterrupt \/ RecoverListOpen \/ RecoverReconcile \/ RecoverList
    BY <2>1, <2>2 DEF RecoverInterrupt, RecoverListOpen, RecoverReconcile, RecoverList, workerVars
  <2>3. CASE RecoverQueue
    BY <2>1, <2>3, <1>3 DEF RecoverQueue, workerVars
  <2>6. CASE RecoverRejected
    BY <1>3, <2>6 DEF RecoverRejected
  <2>4. CASE RecoverReconciled
    BY <1>1, <2>4 DEF RecoverReconciled, dbVars, runVars, workerVars
  <2>5. CASE StartWorkers
    <3>1. proc' = "up" /\ \A w \in Workers : wpc'[w] = "idle"
      BY <2>5 DEF StartWorkers
    <3> QED BY <3>1 DEF WorkersOwn, Executing
  <2> QED BY <1>5, <2>2, <2>3, <2>4, <2>5, <2>6 DEF RecoverStep
<1>6. ASSUME NEW a \in Actors, TxStep(a) PROVE WorkersOwn'
  <2>1. UNCHANGED <<wpc, wchild, wresult, proc>>
    BY <1>6, RefreshLeaves, SyncLeaves DEF TxStep
  <2>2. ASSUME NEW c \in Children, child[c] = "RUNNING" PROVE child'[c] = "RUNNING"
    <3>1. CASE RefreshWrite(a)
      <4>1. c \notin tx[a].cancels
        BY <2>2 DEF Locks, CancelsLocked, Unstarted
      <4> QED BY <3>1, <4>1, <2>2, WriteAdvances DEF View
    <3>2. CASE ~RefreshWrite(a)
      BY <1>6, <2>2, <3>2, RefreshLeaves, SyncLeaves DEF TxStep
    <3> QED BY <3>1, <3>2
  <2> QED BY <1>1, <2>1, <2>2
<1>7. ASSUME NEW w \in Workers, WorkerStep(w) \/ WorkerFails(w) PROVE WorkersOwn'
  BY <1>0, <1>7, WorkersOwnByWorker
<1>8. ASSUME NEW k \in Clients, Submit(k) \/ Get(k) \/ RequestStep(k) \/ RequestFails(k)
      PROVE  WorkersOwn'
  <2>1. CASE Submit(k) \/ RetryLoaded(k)
    <3>1. PICK b \in Batches, D \in (SUBSET Devices) \ {{}}, source \in Batches \cup {Nobody} :
            CreateStep(k, b, D, source)
      BY <2>1, SubmitCreates, RetryCreates
    <3>2. UNCHANGED <<wpc, wchild, wresult, proc>>
      BY <3>1 DEF CreateStep, NewRows, workerVars
    <3>3. \A c \in Children : child[c] = "RUNNING" => child'[c] = "RUNNING"
      BY <3>1, CreateIsNew DEF NoTask
    <3> QED BY <1>1, <3>2, <3>3
  <2>2. CASE QueueChild(k)
    <3>1. UNCHANGED <<wpc, wchild, wresult, proc>>
      BY <2>2 DEF QueueChild, runVars, workerVars
    <3>2. \A c \in Children : child[c] = "RUNNING" => child'[c] = "RUNNING"
      BY <2>2 DEF QueueChild, Shape, Unstarted
    <3> QED BY <1>1, <3>1, <3>2
  <2>3. CASE CancelChild(k)
    <3>1. UNCHANGED <<wpc, wchild, wresult, proc>>
      BY <2>3 DEF CancelChild, runVars, workerVars
    <3>2. \A c \in Children : child[c] = "RUNNING" => child'[c] = "RUNNING"
      BY <2>3 DEF CancelChild, Shape, Unstarted
    <3> QED BY <1>1, <3>1, <3>2
  <2>4. CASE Get(k) \/ QueueConflict(k) \/ LoopEnds(k) \/ CancelLoaded(k) \/ CancelReconciled(k)
             \/ CancelRejected(k) \/ RetryRefused(k) \/ LastReturns(k) \/ RequestRejected(k)
             \/ RequestFails(k)
    <3>1. UNCHANGED <<wpc, wchild, wresult, proc, child>>
      BY <2>4 DEF Get, QueueConflict, LoopEnds, CancelLoaded, CancelReconciled, CancelRejected,
         RetryRefused, LastReturns, RequestRejected, RequestFails, dbVars, runVars, workerVars
    <3> QED BY <1>1, <3>1
  <2> QED BY <1>8, <2>1, <2>2, <2>3, <2>4 DEF RequestStep
<1>9. CASE UNCHANGED vars
  BY <1>1, <1>9 DEF vars
<1> QED BY <1>2, <1>3, <1>4, <1>5, <1>6, <1>7, <1>8, <1>9 DEF Next, Crash, RunReturns, RecoverFails

\* The requests keep to their batch.
LEMMA RequestsHoldStep == ASSUME Shape, Locks, Snapshots, [Next]_vars PROVE RequestsHold'
<1>0. Shape'
  BY ShapeStep
<1>1. ASSUME NEW k \in Clients, req'[k].b = req[k].b, req[k].pc # "idle" \/ req'[k].pc = "idle",
             req'[k].todo \subseteq req[k].todo
      PROVE  /\ req'[k].pc # "idle" => req'[k].b \in Batches /\ batch'[req'[k].b].status # NoTask
             /\ \A c \in req'[k].todo : c[1] = req'[k].b /\ child'[c] # NoTask
  <2>1. req[k].pc # "idle" => req[k].b \in Batches /\ batch[req[k].b].status # NoTask
    BY DEF Locks, RequestsHold
  <2>2. \A c \in req[k].todo : c \in Children /\ c[1] = req[k].b /\ child[c] # NoTask
    BY DEF Locks, RequestsHold, Shape, Requests
  <2> QED BY <1>1, <2>1, <2>2, RowsStay
<1>2. ASSUME NEW k \in Clients, RequestKept(k),
             /\ req'[k].pc # "idle" => req'[k].b \in Batches /\ batch'[req'[k].b].status # NoTask
             /\ \A c \in req'[k].todo : c[1] = req'[k].b /\ child'[c] # NoTask
      PROVE  RequestsHold'
  <2>1. ASSUME NEW x \in Clients \ {k}
        PROVE  /\ req'[x].pc # "idle" => req'[x].b \in Batches /\ batch'[req'[x].b].status # NoTask
               /\ \A c \in req'[x].todo : c[1] = req'[x].b /\ child'[c] # NoTask
    BY <1>1, <1>2 DEF RequestKept
  <2> QED BY <1>2, <2>1 DEF RequestsHold
<1>3. ASSUME req' = req PROVE RequestsHold'
  BY <1>1, <1>3 DEF RequestsHold
<1>4. ASSUME Exit PROVE RequestsHold'
  BY <1>4 DEF Exit, NoRequest, RequestsHold
<1>5. ASSUME NEW k \in Clients, NEW pc, NEW todo, Moved(k, pc, todo), todo \subseteq req[k].todo,
             req[k].pc # "idle"
      PROVE  RequestsHold'
  BY <1>1, <1>2, <1>5 DEF Moved
<1>6. ASSUME NEW k \in Clients, Answer(k) PROVE RequestsHold'
  BY <1>2, <1>6, AnswerEffect
<1>7. ASSUME NEW k \in Clients, Submit(k) \/ RetryLoaded(k) PROVE RequestsHold'
  <2>1. PICK b \in Batches, D \in (SUBSET Devices) \ {{}}, source \in Batches \cup {Nobody} :
          CreateStep(k, b, D, source)
    BY <1>7, SubmitCreates, RetryCreates
  <2>2. RequestKept(k) /\ req'[k].b = b /\ req'[k].todo = {b} \X D /\ batch'[b].status # NoTask
    BY <2>1 DEF CreateStep, NewRows, RequestKept, NoTask
  <2>3. ASSUME NEW c \in {b} \X D PROVE c[1] = b /\ child'[c] # NoTask
    <3>1. c \in Children /\ c[1] = b /\ c[2] \in D
      BY DEF Children
    <3> QED BY <2>1, <3>1 DEF CreateStep, NewRows, NoTask
  <2> QED BY <1>2, <2>2, <2>3
<1>8. ASSUME NEW k \in Clients, Get(k) PROVE RequestsHold'
  <2>1. /\ RequestKept(k) /\ req'[k].todo = {}
        /\ req'[k].b \in Batches /\ batch[req'[k].b].status # NoTask
    BY <1>8, GetEffect
  <2> QED BY <1>2, <2>1, RowsStay
<1>9. ASSUME NEW k \in Clients, RequestStep(k) PROVE RequestsHold'
  <2>1. CASE QueueChild(k) \/ LoopEnds(k) \/ CancelReconciled(k) \/ CancelChild(k)
    <3>1. req[k].pc # "idle"
      BY <2>1 DEF QueueChild, LoopEnds, CancelReconciled, CancelChild
    <3> QED BY <2>1, <3>1, <1>5, LoopEffect
  <2>2. CASE CancelLoaded(k)
    <3>1. CASE tx[k].status \in Terminal
      BY <2>2, <3>1, <1>6 DEF CancelLoaded
    <3>2. CASE tx[k].status \notin Terminal
      <4> DEFINE T == {c \in DOMAIN tx[k].seen : tx[k].seen[c] \notin Terminal}
      <4>1. Moved(k, "cancel", T)
        BY <2>2, <3>2, LoopEffect
      <4>2. /\ req[k].b \in Batches /\ batch[req[k].b].status # NoTask
            /\ DOMAIN tx[k].seen = Items(req[k].b)
        BY <2>2 DEF CancelLoaded, Returned, Snapshots, FirstHasAll, Locks, RequestsHold
      <4>3. \A c \in T : c \in Children /\ c[1] = req[k].b /\ child[c] # NoTask
        BY <4>2 DEF Items
      <4> QED BY <1>2, <4>1, <4>2, <4>3, RowsStay DEF Moved
    <3> QED BY <3>1, <3>2
  <2>3. CASE QueueConflict(k) \/ CancelRejected(k) \/ RetryRefused(k) \/ RequestRejected(k)
             \/ LastReturns(k)
    BY <2>3, <1>6 DEF QueueConflict, CancelRejected, RetryRefused, RequestRejected, LastReturns
  <2> QED BY <1>7, <1>9, <2>1, <2>2, <2>3 DEF RequestStep
<1>10. ASSUME NEW k \in Clients, RequestFails(k) PROVE RequestsHold'
  BY <1>6, <1>10 DEF RequestFails
<1>11. ASSUME NEW a \in Actors, TxStep(a) PROVE RequestsHold'
  BY <1>3, <1>11, RefreshLeaves, SyncLeaves DEF TxStep
<1>12. ASSUME NEW w \in Workers, WorkerStep(w) \/ WorkerFails(w) PROVE RequestsHold'
  BY <1>3, <1>12 DEF WorkerStep, WorkerFails, ClaimNextQueued, ClaimTooEarly, HandlerEnds,
     HandlerSkipped, Save, SaveReturns, SaveRejected, WorkerStops
<1>13. CASE RecoverStep
  BY <1>3, <1>4, <1>13 DEF RecoverStep, RecoverInterrupt, RecoverListOpen, RecoverReconcile,
     RecoverReconciled, RecoverRejected, RecoverList, RecoverQueue, StartWorkers
<1>14. CASE Start \/ Shutdown \/ UNCHANGED vars
  BY <1>3, <1>14 DEF Start, Shutdown, vars
<1> QED BY <1>4, <1>7, <1>8, <1>9, <1>10, <1>11, <1>12, <1>13, <1>14
    DEF Next, Crash, RunReturns, RecoverFails

\* The batches that recovery has listed exist.
LEMMA ListedStep ==
    ASSUME Shape, Locks, Snapshots, [Next]_vars
    PROVE  \A b \in toReconcile' : batch'[b].status # NoTask
<1>1. ASSUME toReconcile' \subseteq toReconcile
      PROVE  \A b \in toReconcile' : batch'[b].status # NoTask
  BY <1>1, RowsStay DEF Shape, Locks, TxHasBatch
<1>2. ASSUME Exit PROVE toReconcile' \subseteq toReconcile
  BY <1>2 DEF Exit
<1>3. CASE RecoverListOpen
  BY <1>3, RowsStay DEF RecoverListOpen
<1>4. CASE RecoverStep /\ ~RecoverListOpen
  BY <1>1, <1>2, <1>4 DEF RecoverStep, RecoverInterrupt, RecoverReconcile, RecoverReconciled,
     RecoverRejected, RecoverList, RecoverQueue, StartWorkers, runVars
<1>5. ASSUME NEW a \in Actors, TxStep(a) PROVE toReconcile' = toReconcile
  BY <1>5, RefreshLeaves, SyncLeaves DEF TxStep
<1>6. ASSUME NEW w \in Workers, WorkerStep(w) \/ WorkerFails(w) PROVE toReconcile' = toReconcile
  BY <1>6 DEF WorkerStep, WorkerFails, ClaimNextQueued, ClaimTooEarly, HandlerEnds, HandlerSkipped,
     Save, SaveReturns, SaveRejected, WorkerStops, runVars
<1>7. ASSUME NEW k \in Clients, Submit(k) \/ Get(k) \/ RequestStep(k) \/ RequestFails(k)
      PROVE  toReconcile' = toReconcile
  BY <1>7 DEF Submit, Get, RequestStep, RequestFails, CreateBatch, QueueChild, QueueConflict, LoopEnds,
     CancelLoaded, CancelChild, CancelRejected, CancelReconciled, RetryLoaded, RetryRefused,
     RequestRejected, LastReturns, runVars
<1>8. CASE Start \/ Shutdown \/ UNCHANGED vars
  BY <1>1, <1>8 DEF Start, Shutdown, vars
<1> QED BY <1>1, <1>2, <1>3, <1>4, <1>5, <1>6, <1>7, <1>8
    DEF Next, Crash, RunReturns, RecoverFails

\* Every step keeps Locks.
LEMMA LocksStep == ASSUME Shape, Locks, Snapshots, [Next]_vars PROVE Locks'
BY TxLocksStep, RowsTogetherStep, WorkersOwnStep, RequestsHoldStep, ListedStep
   DEF Locks, TxLocks, TxHasBatch

-----------------------------------------------------------------------------
(***************************************************************************)
(* The snapshots                                                           *)
(***************************************************************************)

\* Terminal is the end, and nothing becomes unstarted again.
LEMMA EndsStay ==
    ASSUME Shape, Locks, Snapshots, [Next]_vars, NEW c \in Children, child[c] # NoTask
    PROVE  /\ Advance(c)
           /\ child[c] \in Terminal => child'[c] = child[c]
           /\ child'[c] \in Unstarted => child[c] \in Unstarted
BY StepMoves, AdvanceFacts

\* The children of a batch that exists are always the same.
LEMMA ItemsStay ==
    ASSUME Shape, Locks, Snapshots, [Next]_vars, NEW b \in Batches, batch[b].status # NoTask
    PROVE  Items(b)' = Items(b) /\ \A c \in Children : c[1] = b => Advance(c)
<1>1. ASSUME NEW c \in Children, c[1] = b, child[c] = NoTask PROVE child'[c] = child[c]
  <2>1. CASE QuietStep
    BY <1>1, <2>1, AdvanceFacts DEF QuietStep
  <2>2. ASSUME NEW a \in Actors, RefreshLock(a) \/ RefreshItems(a) \/ RefreshFix(a)
        PROVE  child'[c] = child[c]
    BY <2>2 DEF RefreshLock, RefreshItems, RefreshFix, dbVars
  <2>3. ASSUME NEW a \in Actors, RefreshWrite(a) PROVE child'[c] = child[c]
    BY <1>1, <2>3, WriteAdvances, AdvanceFacts
  <2>4. ASSUME NEW k \in Clients, Submit(k) \/ RetryLoaded(k) PROVE child'[c] = child[c]
    <3>1. PICK x \in Batches, D \in (SUBSET Devices) \ {{}}, source \in Batches \cup {Nobody} :
            CreateStep(k, x, D, source)
      BY <2>4, SubmitCreates, RetryCreates
    <3>2. x # b
      BY <3>1 DEF CreateStep, NewRows
    <3> QED BY <3>1, <3>2, <1>1, CreateIsNew
  <2> QED BY <2>1, <2>2, <2>3, <2>4, QuietOrLoud DEF Loud
<1>2. ASSUME NEW c \in Children, c[1] = b PROVE Advance(c)
  BY <1>1, <1>2, EndsStay DEF Advance
<1>3. ASSUME NEW c \in Children, c[1] = b PROVE child[c] # NoTask <=> child'[c] # NoTask
  BY <1>2, <1>3, AdvanceFacts
<1>4. Items(b)' = {c \in Children : c[1] = b /\ child'[c] # NoTask}
  BY DEF Items
<1> QED BY <1>2, <1>3, <1>4 DEF Items

\* While a transaction waits, nobody touches the batch it has locked.
LEMMA HolderKeeps ==
    ASSUME Shape, Locks, Snapshots, [Next]_vars, NEW x \in Actors, tx'[x] = tx[x]
    PROVE  /\ \A c \in tx[x].cancels : child'[c] = child[c]
           /\ tx[x].at \in Held =>
                 /\ batch'[tx[x].b] = batch[tx[x].b]
                 /\ parent[tx[x].b] \in Terminal => parent'[tx[x].b] = parent[tx[x].b]
<1>0. /\ tx[x].at \in Held => tx[x].b \in Batches /\ batch[tx[x].b].status # NoTask
      /\ \A c \in tx[x].cancels : c \in Children /\ tx[x].at \in Held /\ c[1] = tx[x].b
                                  /\ child[c] # NoTask
  BY DEF Locks, TxHasBatch, CancelsLocked, Held, Shape, Transactions, Unstarted, NoTask
<1>1. CASE QuietStep
  BY <1>0, <1>1 DEF QuietStep
<1>2. ASSUME NEW a \in Actors, RefreshLock(a) \/ RefreshItems(a) \/ RefreshFix(a)
      PROVE  UNCHANGED <<child, batch, parent>>
  BY <1>2 DEF RefreshLock, RefreshItems, RefreshFix, dbVars
<1>3. ASSUME NEW a \in Actors, RefreshWrite(a)
      PROVE  /\ \A c \in tx[x].cancels : child'[c] = child[c]
             /\ tx[x].at \in Held => batch'[tx[x].b] = batch[tx[x].b]
             /\ tx[x].at \in Held => parent'[tx[x].b] = parent[tx[x].b]
  <2>1. tx[a].at = "write" /\ tx'[a].at \in {"sync", "done"}
    BY <1>3, WriteEffect DEF RefreshWrite
  <2>2. a # x
    BY <2>1
  <2>3. tx[x].at \in Held => tx[x].b # tx[a].b
    BY <2>1, <2>2 DEF Locks, Exclusive, Held
  <2>4. \A c \in tx[x].cancels : c \notin tx[a].cancels
    BY <1>0, <2>3 DEF Locks, CancelsLocked
  <2>5. \A c \in tx[x].cancels : child'[c] = child[c]
    BY <1>0, <1>3, <2>4, WriteAdvances DEF View
  <2> QED BY <1>0, <1>3, <2>3, <2>5, WriteEffect
<1>4. ASSUME NEW k \in Clients, Submit(k) \/ RetryLoaded(k)
      PROVE  /\ \A c \in tx[x].cancels : child'[c] = child[c]
             /\ tx[x].at \in Held => batch'[tx[x].b] = batch[tx[x].b]
             /\ tx[x].at \in Held => parent'[tx[x].b] = parent[tx[x].b]
  <2>1. PICK b \in Batches, D \in (SUBSET Devices) \ {{}}, source \in Batches \cup {Nobody} :
          CreateStep(k, b, D, source)
    BY <1>4, SubmitCreates, RetryCreates
  <2>2. tx[x].at \in Held => tx[x].b # b
    BY <1>0, <2>1 DEF CreateStep, NewRows
  <2>3. \A c \in tx[x].cancels : child'[c] = child[c]
    BY <1>0, <2>1, CreateIsNew
  <2> QED BY <1>0, <2>1, <2>2, <2>3 DEF CreateStep, NewRows
<1> QED BY <1>0, <1>1, <1>2, <1>3, <1>4, QuietOrLoud DEF Loud

\* What Snapshots says of one transaction.
SnapshotOf(a) ==
    /\ tx[a].at = "write" => DOMAIN tx[a].seen = Items(tx[a].b)
    /\ \A c \in DOMAIN tx[a].seen :
          /\ c[1] = tx[a].b
          /\ tx[a].at = "write" => child[c] # NoTask
          /\ tx[a].at \in {"write", "sync", "done"} /\ tx[a].seen[c] \in Terminal
                => View(a, c) = tx[a].seen[c]
          /\ /\ tx[a].at = "write" /\ ~batch[tx[a].b].continueOnFailure
             /\ tx[a].seen[c] \in FailedStatuses
             => tx[a].fixed
    /\ tx[a].fixed =>
          /\ tx[a].at \in Held
          /\ \A c \in Children : c[1] = tx[a].b /\ child[c] \in Unstarted => c \in tx[a].cancels
    /\ tx[a].at \in Held /\ tx[a].parent \in Terminal => parent[tx[a].b] = tx[a].parent

\* SnapshotOf is Snapshots but for FirstHasAll, one actor at a time.
LEMMA SnapshotParts ==
    (\A a \in Actors : SnapshotOf(a)) <=> SeenIsOld /\ FixIsFinal /\ FixComesFirst /\ ParentRead
BY DEF SnapshotOf, SeenIsOld, FixIsFinal, FixComesFirst, ParentRead

\* A snapshot stays right while its transaction waits.
LEMMA KeptSnapshot ==
    ASSUME Shape, Locks, Snapshots, [Next]_vars, NEW x \in Actors, tx'[x] = tx[x]
    PROVE  SnapshotOf(x)'
<1> DEFINE t == tx[x]
<1>0. SnapshotOf(x)
  BY SnapshotParts DEF Snapshots
<1>1. t.at # "off" => t.b \in Batches /\ batch[t.b].status # NoTask
  BY DEF Locks, TxHasBatch
<1>2. t.at = "write" => DOMAIN t.seen = Items(t.b)'
  BY <1>0, <1>1, ItemsStay DEF SnapshotOf
<1>3. ASSUME NEW c \in DOMAIN t.seen
      PROVE  /\ c[1] = t.b
             /\ t.at = "write" => child'[c] # NoTask
             /\ t.at \in {"write", "sync", "done"} /\ t.seen[c] \in Terminal
                   => View(x, c)' = t.seen[c]
             /\ /\ t.at = "write" /\ ~batch'[t.b].continueOnFailure
                /\ t.seen[c] \in FailedStatuses
                => t.fixed
  <2>1. c \in Children
    BY SeenFacts DEF Shape, Transactions
  <2>2. t.at = "write" => child'[c] # NoTask
    BY <1>0, <2>1, RowsStay DEF SnapshotOf
  <2>3. ASSUME t.at \in {"write", "sync", "done"}, t.seen[c] \in Terminal
        PROVE  View(x, c)' = t.seen[c]
    <3>1. View(x, c) = t.seen[c]
      BY <1>0, <2>3 DEF SnapshotOf
    <3>2. CASE c \in t.cancels
      BY <3>1, <3>2 DEF View
    <3>3. CASE c \notin t.cancels
      <4>1. child[c] \in Terminal /\ child[c] = t.seen[c]
        BY <3>1, <3>3, <2>3 DEF View
      <4>2. child'[c] = child[c]
        BY <2>1, <4>1, StatusFacts, EndsStay
      <4> QED BY <3>3, <4>1, <4>2 DEF View
    <3> QED BY <3>2, <3>3
  <2>4. t.at = "write" => batch'[t.b] = batch[t.b]
    BY HolderKeeps DEF Held
  <2> QED BY <1>0, <2>2, <2>3, <2>4 DEF SnapshotOf
<1>4. ASSUME t.fixed, NEW c \in Children, c[1] = t.b, child'[c] \in Unstarted
      PROVE  c \in t.cancels
  <2>0. t.at \in Held
    BY <1>0, <1>4 DEF SnapshotOf
  <2>1. child[c] \in Unstarted
    BY <1>1, <1>4, <2>0, ItemsStay, AdvanceFacts DEF Held
  <2> QED BY <1>0, <1>4, <2>1 DEF SnapshotOf
<1>5. t.at \in Held /\ t.parent \in Terminal => parent'[t.b] = t.parent
  BY <1>0, HolderKeeps DEF SnapshotOf
<1>6. t.fixed => t.at \in Held
  BY <1>0 DEF SnapshotOf
<1> QED BY <1>2, <1>3, <1>4, <1>5, <1>6 DEF SnapshotOf

\* A transaction that shows no snapshot and holds no lock.
LEMMA EmptySnapshot ==
    ASSUME NEW x \in Actors, tx'[x].seen = <<>>, tx'[x].at \notin Held, ~tx'[x].fixed
    PROVE  SnapshotOf(x)'
<1>1. DOMAIN tx'[x].seen = {} /\ tx'[x].at # "write"
  BY SeenFacts DEF Held
<1> QED BY <1>1 DEF SnapshotOf

\* The steps of the transaction itself.
LEMMA LockSnapshot ==
    ASSUME Shape, Locks, Snapshots, NEW a \in Actors, RefreshLock(a) PROVE SnapshotOf(a)'
<1>1. /\ tx'[a].at = "items" /\ tx'[a].parent = parent[tx[a].b] /\ tx'[a].b = tx[a].b
      /\ tx'[a].fixed = tx[a].fixed /\ tx'[a].seen = tx[a].seen
  BY LockEffect
<1>2. UNCHANGED <<child, batch, parent>>
  BY DEF RefreshLock, dbVars
<1>3. tx[a].at = "lock" /\ SnapshotOf(a)
  BY SnapshotParts DEF Snapshots, RefreshLock
<1>4. ~tx[a].fixed
  BY <1>3 DEF SnapshotOf, Held
<1>5. \A c \in DOMAIN tx[a].seen : c[1] = tx[a].b
  BY <1>3 DEF SnapshotOf
<1> QED BY <1>1, <1>2, <1>4, <1>5 DEF SnapshotOf

\* The SELECT of the items reads a snapshot that is right.
LEMMA ItemsSnapshot ==
    ASSUME Shape, Locks, Snapshots, NEW a \in Actors, RefreshItems(a) PROVE SnapshotOf(a)'
<1>0. PICK b \in Batches : b = tx[a].b
  BY DEF RefreshItems, Locks, TxHasBatch
<1> DEFINE s == [c \in Items(b) |-> View(a, c)]
<1>1. /\ tx'[a].seen = s /\ tx'[a].b = b /\ tx'[a].fixed = tx[a].fixed
      /\ tx'[a].parent = tx[a].parent /\ tx'[a].cancels = tx[a].cancels
      /\ tx'[a].at \in {"fix", "write"}
      /\ tx'[a].at = "write" =>
            batch[b].continueOnFailure \/ tx[a].fixed \/ ~HasFailedChild(s)
  BY <1>0, ItemsEffect
<1>2. UNCHANGED <<child, batch, parent>>
  BY DEF RefreshItems, dbVars
<1>3. tx[a].at = "items" /\ SnapshotOf(a)
  BY SnapshotParts DEF Snapshots, RefreshItems
<1>4. Items(b)' = Items(b)
  BY <1>2 DEF Items
<1>5. \A c \in Items(b) : c[1] = b /\ child[c] # NoTask /\ s[c] = View(a, c) /\ View(a, c)' = View(a, c)
  BY <1>1, <1>2 DEF Items, View
<1>6. DOMAIN s = Items(b) /\ IsFiniteSet(DOMAIN s)
  <2>1. Items(b) \in SUBSET {c \in Children : c[1] = b}
    BY DEF Items
  <2> QED BY <2>1, ItemsFinite, FS_Subset
<1> HIDE DEF s
<1>7. HasFailedChild(s) <=> \E c \in Items(b) : s[c] \in FailedStatuses
  BY <1>6, CountFacts DEF HasFailedChild
<1>8. tx[a].fixed => \A c \in Children : c[1] = b /\ child[c] \in Unstarted => c \in tx[a].cancels
  BY <1>0, <1>3 DEF SnapshotOf
<1>9. tx[a].parent \in Terminal => parent[b] = tx[a].parent
  BY <1>0, <1>3 DEF SnapshotOf, Held
<1>10. DOMAIN tx'[a].seen = Items(tx[a].b)'
  BY <1>1, <1>4, <1>6
<1>11. ASSUME NEW c \in DOMAIN tx'[a].seen
       PROVE  /\ c[1] = tx'[a].b
              /\ child'[c] # NoTask
              /\ View(a, c)' = tx'[a].seen[c]
              /\ /\ tx'[a].at = "write" /\ ~batch'[tx'[a].b].continueOnFailure
                 /\ tx'[a].seen[c] \in FailedStatuses
                 => tx'[a].fixed
  <2>1. c \in Items(b)
    BY <1>1, <1>6
  <2> QED BY <1>1, <1>2, <1>5, <1>7, <2>1
<1> QED BY <1>1, <1>2, <1>8, <1>9, <1>10, <1>11 DEF SnapshotOf, Held

\* The UPDATE of the unstarted children has all of them.
LEMMA FixSnapshot ==
    ASSUME Shape, Locks, Snapshots, NEW a \in Actors, RefreshFix(a) PROVE SnapshotOf(a)'
<1>1. /\ tx'[a].cancels = {c \in Items(tx[a].b) : child[c] \in Unstarted}
      /\ tx'[a].parent = parent[tx[a].b] /\ tx'[a].fixed = TRUE /\ tx'[a].at = "items"
      /\ tx'[a].b = tx[a].b /\ tx'[a].seen = tx[a].seen
  BY FixEffect
<1>2. UNCHANGED <<child, batch, parent>>
  BY DEF RefreshFix, dbVars
<1>3. \A c \in DOMAIN tx[a].seen : c[1] = tx[a].b
  BY SnapshotParts DEF Snapshots, SnapshotOf
<1>4. \A c \in Children : c[1] = tx[a].b /\ child[c] \in Unstarted => c \in tx'[a].cancels
  BY <1>1 DEF Items, Unstarted, NoTask
<1> QED BY <1>1, <1>2, <1>3, <1>4 DEF SnapshotOf, Held

\* What the commit returns is what it wrote.
LEMMA WriteSnapshot ==
    ASSUME Shape, Locks, Snapshots, NEW a \in Actors, RefreshWrite(a) PROVE SnapshotOf(a)'
<1>1. /\ tx'[a].at \in {"sync", "done"} /\ tx'[a].b = tx[a].b /\ tx'[a].cancels = {}
      /\ tx'[a].fixed = FALSE
      /\ tx'[a].seen \in {<<>>, [c \in Items(tx[a].b) |-> View(a, c)]}
  BY WriteEffect
<1>2. CASE tx'[a].seen = <<>>
  BY <1>1, <1>2, EmptySnapshot DEF Held
<1>3. CASE tx'[a].seen = [c \in Items(tx[a].b) |-> View(a, c)]
  <2>1. \A c \in DOMAIN tx'[a].seen : c \in Children /\ c[1] = tx[a].b /\ tx'[a].seen[c] = View(a, c)
    BY <1>3 DEF Items
  <2>2. \A c \in DOMAIN tx'[a].seen : View(a, c)' = tx'[a].seen[c]
    BY <1>1, <2>1, WriteAdvances DEF View
  <2> QED BY <1>1, <2>1, <2>2 DEF SnapshotOf, Held
<1> QED BY <1>1, <1>2, <1>3

\* Every step leaves every snapshot right.
LEMMA SnapshotStep ==
    ASSUME Shape, Locks, Snapshots, [Next]_vars, NEW x \in Actors PROVE SnapshotOf(x)'
<1>1. CASE tx'[x] = tx[x]
  BY <1>1, KeptSnapshot
<1>2. ASSUME TxQuiet PROVE SnapshotOf(x)'
  <2>0. ~tx'[x].fixed \/ tx'[x] = tx[x]
    <3>1. tx[x].at = "sync" => ~tx[x].fixed
      BY SnapshotParts DEF Snapshots, SnapshotOf, Held
    <3> QED BY <3>1, <1>2, QuietTx
  <2>1. CASE tx'[x].seen = <<>> /\ tx'[x].at \in {"off", "lock"}
    BY <1>1, <2>0, <2>1, EmptySnapshot DEF Held
  <2>2. CASE /\ tx[x].at = "sync" /\ tx'[x].at = "done" /\ tx'[x].seen = tx[x].seen
             /\ tx'[x].b = tx[x].b /\ tx[x].cancels = {} /\ tx'[x].cancels = {}
    <3>1. SnapshotOf(x)
      BY SnapshotParts DEF Snapshots
    <3>2. \A c \in DOMAIN tx[x].seen : c \in Children
      BY SeenFacts DEF Shape, Transactions
    <3>3. \A c \in DOMAIN tx[x].seen : tx[x].seen[c] \in Terminal => child[c] = tx[x].seen[c]
      BY <2>2, <3>1 DEF SnapshotOf, View
    <3>4. \A c \in DOMAIN tx[x].seen : tx[x].seen[c] \in Terminal => child'[c] = tx[x].seen[c]
      BY <3>2, <3>3, EndsStay, StatusFacts
    <3>5. \A c \in DOMAIN tx'[x].seen : tx'[x].seen[c] \in Terminal => View(x, c)' = tx'[x].seen[c]
      BY <2>2, <3>4 DEF View
    <3>6. \A c \in DOMAIN tx'[x].seen : c[1] = tx'[x].b
      BY <2>2, <3>1 DEF SnapshotOf
    <3>7. tx'[x].at # "write" /\ tx'[x].at \notin Held
      BY <2>2 DEF Held
    <3>8. ~tx'[x].fixed
      BY <2>0, <2>2
    <3> QED BY <3>5, <3>6, <3>7, <3>8 DEF SnapshotOf
  <2> QED BY <1>1, <1>2, <2>1, <2>2, QuietTx
<1>3. ASSUME NEW a \in Actors, RefreshLock(a) \/ RefreshItems(a) \/ RefreshFix(a) \/ RefreshWrite(a)
      PROVE  SnapshotOf(x)'
  <2>1. CASE x = a
    BY <1>3, <2>1, LockSnapshot, ItemsSnapshot, FixSnapshot, WriteSnapshot
  <2>2. CASE x # a
    <3>1. OthersKeep(a)
      BY <1>3, LockEffect, ItemsEffect, FixEffect, WriteEffect
    <3> QED BY <1>1, <2>2, <3>1 DEF OthersKeep
  <2> QED BY <2>1, <2>2
<1>4. ASSUME NEW k \in Clients, Submit(k) \/ RetryLoaded(k) PROVE TxQuiet
  <2>1. PICK b \in Batches, D \in (SUBSET Devices) \ {{}}, source \in Batches \cup {Nobody} :
          CreateStep(k, b, D, source)
    BY <1>4, SubmitCreates, RetryCreates
  <2> QED BY <2>1 DEF CreateStep
<1> QED BY <1>2, <1>3, <1>4, QuietOrLoud DEF Loud, QuietStep

\* A transaction changes in its own steps, in those of its caller and when
\* the process ends.
LEMMA OwnTx ==
    ASSUME Shape, Locks, Snapshots, [Next]_vars, NEW a \in Actors
    PROVE  \/ tx'[a] = tx[a]
           \/ Exit
           \/ TxStep(a)
           \/ a \in Workers /\ (WorkerStep(a) \/ WorkerFails(a))
           \/ a \in Clients /\ (Get(a) \/ RequestStep(a) \/ RequestFails(a))
           \/ a = Recovery /\ (RecoverReconcile \/ RecoverReconciled)
<1>0. Recovery \in Actors /\ Workers \subseteq Actors /\ Clients \subseteq Actors
  BY DEF Actors
<1>1. ASSUME NEW x \in Actors, OthersKeep(x), x # a PROVE tx'[a] = tx[a]
  BY <1>1 DEF OthersKeep
<1>2. ASSUME NEW x \in Actors, TxStep(x) PROVE OthersKeep(x)
  BY <1>2, LockEffect, ItemsEffect, FixEffect, WriteEffect, SyncQuiet DEF TxStep
<1>3. ASSUME NEW x \in Actors, NEW t, tx' = [tx EXCEPT ![x] = t], x # a PROVE tx'[a] = tx[a]
  BY <1>3 DEF Shape
<1>4. ASSUME NEW w \in Workers, w # a, WorkerStep(w) \/ WorkerFails(w) PROVE tx'[a] = tx[a]
  BY <1>0, <1>3, <1>4 DEF WorkerStep, WorkerFails, ClaimNextQueued, ClaimTooEarly, HandlerEnds,
     HandlerSkipped, Save, SaveReturns, SaveRejected, WorkerStops, Call, Forget
<1>5. ASSUME NEW k \in Clients, k # a, Submit(k) \/ Get(k) \/ RequestStep(k) \/ RequestFails(k)
      PROVE  tx'[a] = tx[a]
  BY <1>0, <1>3, <1>5 DEF Submit, Get, RequestStep, RequestFails, QueueChild, QueueConflict, LoopEnds,
     CancelLoaded, CancelChild, CancelRejected, CancelReconciled, RetryLoaded, RetryRefused,
     RequestRejected, LastReturns, Call, Forget
<1>6. ASSUME RecoverReconcile \/ RecoverReconciled, a # Recovery PROVE tx'[a] = tx[a]
  BY <1>0, <1>3, <1>6 DEF RecoverReconcile, RecoverReconciled, Call, Forget
<1>7. ASSUME RecoverStep, ~(RecoverReconcile \/ RecoverReconciled) PROVE tx' = tx \/ Exit
  BY <1>7 DEF RecoverStep, RecoverInterrupt, RecoverListOpen, RecoverRejected, RecoverList, RecoverQueue,
     StartWorkers
<1>8. CASE Start \/ Shutdown \/ UNCHANGED vars
  BY <1>8 DEF Start, Shutdown, vars
<1>9. ASSUME Submit(a) PROVE tx' = tx
  BY <1>9 DEF Submit
<1> QED BY <1>0, <1>1, <1>2, <1>4, <1>5, <1>6, <1>7, <1>8, <1>9
    DEF Next, Crash, RunReturns, RecoverFails

\* So does a request.
LEMMA OwnRequest ==
    ASSUME Shape, Locks, Snapshots, [Next]_vars, NEW k \in Clients
    PROVE  \/ req'[k] = req[k]
           \/ Exit
           \/ Submit(k) \/ Get(k) \/ RequestStep(k) \/ RequestFails(k)
<1>1. ASSUME NEW x \in Clients, NEW t, req' = [req EXCEPT ![x] = t], x # k PROVE req'[k] = req[k]
  BY <1>1 DEF Shape
<1>2. ASSUME NEW x \in Clients, x # k, Submit(x) \/ RetryLoaded(x) PROVE req'[k] = req[k]
  <2>1. PICK b \in Batches, D \in (SUBSET Devices) \ {{}}, source \in Batches \cup {Nobody} :
          CreateStep(x, b, D, source)
    BY <1>2, SubmitCreates, RetryCreates
  <2> QED BY <1>2, <2>1 DEF CreateStep
<1>3. ASSUME NEW x \in Clients, x # k,
             Get(x) \/ (RequestStep(x) /\ ~RetryLoaded(x)) \/ RequestFails(x)
      PROVE  req'[k] = req[k]
  <2>1. CASE Get(x)
    BY <1>3, <2>1, GetEffect DEF RequestKept
  <2>2. CASE QueueChild(x) \/ LoopEnds(x) \/ CancelReconciled(x) \/ CancelChild(x)
    BY <1>3, <2>2, LoopEffect DEF Moved, RequestKept
  <2>3. CASE CancelLoaded(x)
    BY <1>3, <2>3, LoopEffect, AnswerEffect DEF Moved, RequestKept, CancelLoaded
  <2>4. CASE QueueConflict(x) \/ CancelRejected(x) \/ RetryRefused(x) \/ LastReturns(x)
             \/ RequestRejected(x) \/ RequestFails(x)
    <3>1. Answer(x)
      BY <2>4 DEF QueueConflict, CancelRejected, RetryRefused, LastReturns, RequestRejected, RequestFails
    <3> QED BY <1>3, <3>1, AnswerEffect DEF RequestKept
  <2> QED BY <1>3, <2>1, <2>2, <2>3, <2>4 DEF RequestStep
<1>4. ASSUME NEW a \in Actors, TxStep(a) PROVE req' = req
  BY <1>4, RefreshLeaves, SyncLeaves DEF TxStep
<1>5. ASSUME NEW w \in Workers, WorkerStep(w) \/ WorkerFails(w) PROVE req' = req
  BY <1>5 DEF WorkerStep, WorkerFails, ClaimNextQueued, ClaimTooEarly, HandlerEnds, HandlerSkipped,
     Save, SaveReturns, SaveRejected, WorkerStops
<1>6. ASSUME RecoverStep PROVE req' = req \/ Exit
  BY <1>6 DEF RecoverStep, RecoverInterrupt, RecoverListOpen, RecoverReconcile, RecoverReconciled,
     RecoverRejected, RecoverList, RecoverQueue, StartWorkers
<1>7. CASE Start \/ Shutdown \/ UNCHANGED vars
  BY <1>7 DEF Start, Shutdown, vars
<1> QED BY <1>2, <1>3, <1>4, <1>5, <1>6, <1>7 DEF Next, Crash, RunReturns, RecoverFails

\* A request that looks at a snapshot has one of all the children.
LEMMA FirstHasAllStep == ASSUME Shape, Locks, Snapshots, [Next]_vars PROVE FirstHasAll'
<1> SUFFICES ASSUME NEW k \in Clients, req'[k].pc = "first"
             PROVE  /\ tx'[k].b = req'[k].b /\ tx'[k].at # "off"
                    /\ tx'[k].at \in {"sync", "done"} => DOMAIN tx'[k].seen = Items(tx[k].b)'
                                                         /\ tx'[k].b = tx[k].b
  BY DEF FirstHasAll
<1>0. k \in Actors /\ k \notin Workers /\ k # Recovery
  BY ActorsAssumption DEF Actors
<1>1. ~Exit
  BY DEF Exit, NoRequest
<1>2. CASE Submit(k) \/ RetryLoaded(k)
  <2>1. PICK b \in Batches, D \in (SUBSET Devices) \ {{}}, source \in Batches \cup {Nobody} :
          CreateStep(k, b, D, source)
    BY <1>2, SubmitCreates, RetryCreates
  <2> QED BY <2>1 DEF CreateStep
<1>3. CASE Get(k)
  <2>1. req'[k].b \in Batches /\ batch[req'[k].b].status # NoTask /\ tx' = Call(k, req'[k].b, FALSE)
    BY <1>3, GetEffect
  <2>2. tx'[k] = LockTx(req'[k].b, FALSE)
    BY <2>1, <1>0, CallQuiet
  <2> QED BY <2>1, <2>2, TxRecords
<1>4. CASE RequestFails(k) \/ (RequestStep(k) /\ ~RetryLoaded(k))
  <2>1. CASE QueueChild(k) \/ LoopEnds(k) \/ CancelReconciled(k) \/ CancelChild(k)
    BY <2>1, LoopEffect DEF Moved
  <2>2. CASE CancelLoaded(k)
    BY <2>2, LoopEffect, AnswerEffect DEF Moved, CancelLoaded
  <2>3. CASE QueueConflict(k) \/ CancelRejected(k) \/ RetryRefused(k) \/ LastReturns(k)
             \/ RequestRejected(k) \/ RequestFails(k)
    <3>1. Answer(k)
      BY <2>3 DEF QueueConflict, CancelRejected, RetryRefused, LastReturns, RequestRejected, RequestFails
    <3> QED BY <3>1, AnswerEffect
  <2> QED BY <1>4, <2>1, <2>2, <2>3 DEF RequestStep
<1>5. CASE req'[k] = req[k]
  <2>1. /\ tx[k].b = req[k].b /\ tx[k].at # "off" /\ req[k].pc = "first"
        /\ tx[k].at \in {"sync", "done"} => DOMAIN tx[k].seen = Items(tx[k].b)
    BY <1>5 DEF Snapshots, FirstHasAll
  <2>2. tx[k].b \in Batches /\ batch[tx[k].b].status # NoTask
    BY <1>0, <2>1 DEF Locks, TxHasBatch
  <2>3. Items(tx[k].b)' = {c \in Children : c[1] = tx'[k].b /\ child'[c] # NoTask}
    BY DEF Items
  <2>4. tx'[k].b = tx[k].b => Items(tx[k].b)' = Items(tx[k].b)
    <3>1. PICK b \in Batches : b = tx[k].b
      BY <2>2
    <3>2. Items(b)' = Items(b)
      BY <3>1, <2>2, ItemsStay
    <3>3. Items(b)' = {c \in Children : c[1] = b /\ child'[c] # NoTask}
      BY DEF Items
    <3> QED BY <3>1, <3>2, <3>3, <2>3
  <2>5. CASE tx'[k] = tx[k]
    BY <1>5, <2>1, <2>4, <2>5
  <2>6. CASE TxStep(k)
    <3>1. CASE RefreshLock(k) \/ RefreshItems(k) \/ RefreshFix(k)
      <4>1. tx'[k].b = tx[k].b /\ tx'[k].at \in Held
        BY <1>0, <3>1, LockEffect, ItemsEffect, FixEffect DEF Held
      <4> QED BY <1>5, <2>1, <4>1 DEF Held
    <3>2. CASE RefreshWrite(k)
      <4>1. tx'[k].b = tx[k].b /\ tx'[k].at \in {"sync", "done"}
            /\ tx'[k].seen = [c \in Items(tx[k].b) |-> View(k, c)]
        BY <1>0, <2>1, <3>2, WriteEffect
      <4> QED BY <1>5, <2>1, <2>4, <4>1
    <3>3. CASE SyncDirectTerminalAudits(k)
      <4>1. tx[k].at = "sync" /\ tx'[k].at = "done" /\ tx'[k].b = tx[k].b /\ tx'[k].seen = tx[k].seen
        BY <1>0, <3>3 DEF SyncDirectTerminalAudits, Shape, Transactions
      <4> QED BY <1>5, <2>1, <2>4, <4>1
    <3> QED BY <2>6, <3>1, <3>2, <3>3 DEF TxStep
  <2> QED BY <1>0, <1>1, <1>2, <1>3, <1>4, <2>5, <2>6, OwnTx
<1> QED BY <1>1, <1>2, <1>3, <1>4, <1>5, OwnRequest

\* Every step keeps Snapshots.
LEMMA SnapshotsStep == ASSUME Shape, Locks, Snapshots, [Next]_vars PROVE Snapshots'
<1>1. \A a \in Actors : SnapshotOf(a)'
  BY SnapshotStep
<1>2. (\A a \in Actors : SnapshotOf(a)') <=>
          SeenIsOld' /\ FixIsFinal' /\ FixComesFirst' /\ ParentRead'
  BY DEF SnapshotOf, SeenIsOld, FixIsFinal, FixComesFirst, ParentRead
<1> QED BY <1>1, <1>2, FirstHasAllStep DEF Snapshots

-----------------------------------------------------------------------------
(***************************************************************************)
(* The batch rows                                                          *)
(***************************************************************************)

\* A batch row is left alone, written by the transaction that has locked it,
\* or new.
LEMMA BatchCases ==
    ASSUME Shape, Locks, Snapshots, [Next]_vars, NEW b \in Batches
    PROVE  \/ /\ batch'[b] = batch[b]
              /\ parent[b] \in Terminal => parent'[b] = parent[b]
           \/ \E a \in Actors : RefreshWrite(a) /\ tx[a].b = b
           \/ /\ batch[b].status = NoTask /\ batch'[b].status = "PENDING"
              /\ batch'[b].success = 0 /\ batch'[b].failed = 0 /\ batch'[b].cancelled = 0
              /\ \E k \in Clients, D \in (SUBSET Devices) \ {{}}, source \in Batches \cup {Nobody} :
                    CreateStep(k, b, D, source)
<1>1. CASE QuietStep
  BY <1>1 DEF QuietStep
<1>2. ASSUME NEW a \in Actors, RefreshLock(a) \/ RefreshItems(a) \/ RefreshFix(a)
      PROVE  UNCHANGED <<batch, parent>>
  BY <1>2 DEF RefreshLock, RefreshItems, RefreshFix, dbVars
<1>3. ASSUME NEW a \in Actors, RefreshWrite(a), tx[a].b # b
      PROVE  batch'[b] = batch[b] /\ parent'[b] = parent[b]
  BY <1>3, WriteEffect
<1>4. ASSUME NEW k \in Clients, Submit(k) \/ RetryLoaded(k)
      PROVE  \/ batch'[b] = batch[b] /\ parent'[b] = parent[b]
             \/ /\ batch[b].status = NoTask /\ batch'[b].status = "PENDING"
                /\ batch'[b].success = 0 /\ batch'[b].failed = 0 /\ batch'[b].cancelled = 0
                /\ \E x \in Clients, D \in (SUBSET Devices) \ {{}}, source \in Batches \cup {Nobody} :
                      CreateStep(x, b, D, source)
  <2>1. PICK y \in Batches, D \in (SUBSET Devices) \ {{}}, source \in Batches \cup {Nobody} :
          CreateStep(k, y, D, source)
    BY <1>4, SubmitCreates, RetryCreates
  <2>2. CASE y = b
    BY <2>1, <2>2 DEF CreateStep, NewRows
  <2>3. CASE y # b
    BY <2>1, <2>3 DEF CreateStep, NewRows
  <2> QED BY <2>2, <2>3
<1> QED BY <1>1, <1>2, <1>3, <1>4, QuietOrLoud DEF Loud

\* A row holds numbers, and so does every count of its children.
LEMMA RowFacts ==
    ASSUME Shape, NEW b \in Batches
    PROVE  /\ batch[b] \in BatchRows
           /\ batch[b].success \in Nat /\ batch[b].failed \in Nat /\ batch[b].cancelled \in Nat
           /\ IsFiniteSet(Items(b)) /\ Items(b) \subseteq Children
           /\ DOMAIN Current(b) = Items(b) /\ \A c \in Items(b) : Current(b)[c] = child[c]
<1>1. batch[b] \in BatchRows
  BY DEF Shape
<1>2. Items(b) \in SUBSET {c \in Children : c[1] = b}
  BY DEF Items
<1>3. IsFiniteSet(Items(b))
  BY <1>2, ItemsFinite, FS_Subset
<1> QED BY <1>1, <1>2, <1>3 DEF BatchRows, Current

\* The children of a batch count for no less after a step.
LEMMA CurrentGrows ==
    ASSUME Shape, Shape', Locks, Snapshots, [Next]_vars, NEW b \in Batches, NEW S \in SUBSET Terminal
    PROVE  CountIn(Current(b), S) <= CountIn(Current(b)', S)
<1>1. /\ DOMAIN Current(b) = Items(b) /\ \A c \in Items(b) : Current(b)[c] = child[c]
      /\ Items(b) \subseteq Children
  BY RowFacts
<1>2. /\ DOMAIN Current(b)' = Items(b)' /\ \A c \in Items(b)' : Current(b)'[c] = child'[c]
      /\ IsFiniteSet(Items(b)')
  <2>1. Items(b)' = {c \in Children : c[1] = b /\ child'[c] # NoTask}
    BY DEF Items
  <2>2. Items(b)' \in SUBSET {c \in Children : c[1] = b}
    BY <2>1
  <2>3. IsFiniteSet(Items(b)')
    BY <2>2, ItemsFinite, FS_Subset
  <2> QED BY <2>3 DEF Current
<1>3. Items(b) \subseteq Items(b)'
  BY RowsStay DEF Items
<1>4. \A c \in Items(b) : child[c] \in S => child'[c] \in S
  BY <1>1, EndsStay, StatusFacts
<1> DEFINE f == Current(b)
           g == Current(b)'
<1>5. IsFiniteSet(DOMAIN g) /\ DOMAIN f \subseteq DOMAIN g /\ \A c \in DOMAIN f : f[c] \in S => g[c] \in S
  BY <1>1, <1>2, <1>3, <1>4
<1> HIDE DEF f, g
<1>6. CountIn(f, S) <= CountIn(g, S)
  BY <1>5, CountGrows
<1> QED BY <1>6 DEF f, g

\* What a transaction writes is so when it commits, at least where the
\* snapshot says that a child has ended.
LEMMA WriteIsReached ==
    ASSUME Shape, Shape', Locks, Snapshots, [Next]_vars, NEW a \in Actors, RefreshWrite(a),
           NEW b \in Batches, b = tx[a].b
    PROVE  /\ DOMAIN tx[a].seen = Items(b) /\ Items(b)' = Items(b) /\ Items(b) # {}
           /\ \A c \in Items(b) : tx[a].seen[c] \in Statuses
           /\ \A c \in Items(b) : tx[a].seen[c] \in Terminal => child'[c] = tx[a].seen[c]
           /\ \A S \in SUBSET Terminal : CountIn(tx[a].seen, S) <= CountIn(Current(b)', S)
           /\ (\A c \in Items(b) : tx[a].seen[c] \in Terminal) => Current(b)' = tx[a].seen
<1> DEFINE s == tx[a].seen
<1>0. tx[a].at = "write" /\ batch[b].status # NoTask
  BY DEF RefreshWrite, Locks, TxHasBatch
<1>1. /\ DOMAIN s = Items(b) /\ Items(b) # {} /\ IsFiniteSet(Items(b))
      /\ \A c \in Items(b) : s[c] \in Statuses
  BY <1>0, WriteKnows
<1>2. Items(b)' = Items(b)
  BY <1>0, ItemsStay
<1>3. \A c \in Items(b) : s[c] \in Terminal => child'[c] = s[c]
  <2>1. \A c \in Items(b) : s[c] \in Terminal => View(a, c) = s[c]
    BY <1>0, <1>1 DEF Snapshots, SeenIsOld
  <2> QED BY <2>1, WriteAdvances DEF Items
<1>4. Current(b)' = [c \in Items(b) |-> child'[c]]
  BY <1>2 DEF Current
<1>5. ASSUME NEW S \in SUBSET Terminal PROVE CountIn(s, S) <= CountIn(Current(b)', S)
  <2> DEFINE g == [c \in Items(b) |-> child'[c]]
  <2>1. /\ IsFiniteSet(DOMAIN g) /\ DOMAIN s \subseteq DOMAIN g
        /\ \A c \in DOMAIN s : s[c] \in S => g[c] \in S
    BY <1>1, <1>3
  <2> HIDE DEF g
  <2>2. CountIn(s, S) <= CountIn(g, S)
    BY <2>1, CountGrows
  <2> QED BY <2>2, <1>4 DEF g
<1>6. ASSUME \A c \in Items(b) : s[c] \in Terminal PROVE Current(b)' = s
  <2>1. s \in Seen
    BY DEF Shape, Transactions
  <2>2. s = [c \in DOMAIN s |-> s[c]]
    BY <2>1 DEF Seen
  <2> QED BY <1>1, <1>3, <1>4, <1>6, <2>2
<1> QED BY <1>1, <1>2, <1>3, <1>5, <1>6

\* Counters that are within some counts are within larger ones.
LEMMA WithinGrows ==
    ASSUME NEW row \in BatchRows, NEW f, NEW g, IsFiniteSet(DOMAIN f), IsFiniteSet(DOMAIN g),
           CountersWithin(row, f) \/ CountersAre(row, f),
           \A S \in SUBSET Terminal : CountIn(f, S) <= CountIn(g, S)
    PROVE  CountersWithin(row, g)
<1>1. \A S : CountIn(f, S) \in Nat /\ CountIn(g, S) \in Nat
  BY CountFacts
<1>2. /\ CountIn(f, {"SUCCESS"}) <= CountIn(g, {"SUCCESS"})
      /\ CountIn(f, FailedStatuses) <= CountIn(g, FailedStatuses)
      /\ CountIn(f, {"CANCELLED"}) <= CountIn(g, {"CANCELLED"})
  <2>1. {"SUCCESS"} \in SUBSET Terminal /\ FailedStatuses \in SUBSET Terminal
        /\ {"CANCELLED"} \in SUBSET Terminal
    BY DEF Terminal, FailedStatuses
  <2> QED BY <2>1
<1>3. row.success \in Nat /\ row.failed \in Nat /\ row.cancelled \in Nat
  BY DEF BatchRows
<1>4. /\ row.success <= CountIn(f, {"SUCCESS"})
      /\ row.failed <= CountIn(f, FailedStatuses)
      /\ row.cancelled <= CountIn(f, {"CANCELLED"})
  BY <1>1, <1>3 DEF CountersWithin, CountersAre
<1> HIDE DEF FailedStatuses
<1> QED BY <1>1, <1>2, <1>3, <1>4 DEF CountersWithin

\* What the row says has happened.
LEMMA RowsReachedStep ==
    ASSUME Shape, Shape', Locks, Snapshots, BatchRowsTrue, [Next]_vars, NEW b \in Batches
    PROVE  CountersWithin(batch'[b], Current(b)')
<1>0. batch'[b] \in BatchRows /\ IsFiniteSet(DOMAIN Current(b)) /\ IsFiniteSet(DOMAIN Current(b)')
  <2>1. batch'[b] \in BatchRows
    BY DEF Shape
  <2>2. IsFiniteSet(DOMAIN Current(b))
    BY RowFacts
  <2>3. DOMAIN Current(b)' \in SUBSET {c \in Children : c[1] = b}
    <3>1. Items(b)' = {c \in Children : c[1] = b /\ child'[c] # NoTask}
      BY DEF Items
    <3> QED BY <3>1 DEF Current
  <2>4. IsFiniteSet(DOMAIN Current(b)')
    BY <2>3, ItemsFinite, FS_Subset
  <2> QED BY <2>1, <2>2, <2>4
<1>1. CASE batch'[b] = batch[b]
  <2>1. CountersWithin(batch'[b], Current(b))
    BY <1>1 DEF BatchRowsTrue, CountsAreReached
  <2>2. \A S \in SUBSET Terminal : CountIn(Current(b), S) <= CountIn(Current(b)', S)
    BY CurrentGrows
  <2> QED BY <1>0, <2>1, <2>2, WithinGrows
<1>2. ASSUME NEW a \in Actors, RefreshWrite(a), tx[a].b = b
      PROVE  CountersWithin(batch'[b], Current(b)')
  <2>1. CountersAre(batch'[b], tx[a].seen)
    BY <1>2, WriteEffect
  <2>2. \A S \in SUBSET Terminal : CountIn(tx[a].seen, S) <= CountIn(Current(b)', S)
    BY <1>2, WriteIsReached
  <2>3. IsFiniteSet(DOMAIN tx[a].seen)
    BY <1>2, WriteKnows DEF RefreshWrite
  <2> QED BY <1>0, <2>1, <2>2, <2>3, WithinGrows
<1>3. CASE batch'[b].success = 0 /\ batch'[b].failed = 0 /\ batch'[b].cancelled = 0
  <2>1. \A S : CountIn(Current(b)', S) \in Nat
    BY <1>0, CountFacts
  <2> QED BY <1>3, <2>1 DEF CountersWithin
<1> QED BY <1>1, <1>2, <1>3, BatchCases

\* And is in the snapshot of whoever writes next.
LEMMA SeenReachedStep ==
    ASSUME Shape, Shape', Locks, Snapshots, BatchRowsTrue, [Next]_vars, NEW a \in Actors,
           tx'[a].at = "write"
    PROVE  CountersWithin(batch'[tx'[a].b], tx'[a].seen)
<1>1. CASE tx'[a] = tx[a]
  BY <1>1, HolderKeeps DEF BatchRowsTrue, CountsAreReached, Held
<1>2. CASE RefreshItems(a)
  <2>0. PICK b \in Batches : b = tx[a].b
    BY <1>2 DEF RefreshItems, Locks, TxHasBatch
  <2> DEFINE f == Current(b)
             g == [c \in Items(b) |-> View(a, c)]
  <2>1. tx'[a].seen = g /\ tx'[a].b = b /\ batch' = batch
    BY <1>2, <2>0, ItemsEffect DEF RefreshItems, dbVars
  <2>2. /\ DOMAIN f = Items(b) /\ DOMAIN g = Items(b) /\ IsFiniteSet(Items(b))
        /\ batch[b] \in BatchRows /\ CountersWithin(batch[b], f)
    BY RowFacts DEF BatchRowsTrue, CountsAreReached
  <2>3. \A c \in Items(b) : f[c] = child[c] /\ (child[c] \in Terminal => g[c] = child[c])
    BY StatusFacts DEF Current, View, Locks, CancelsLocked
  <2> HIDE DEF f, g
  <2>4. ASSUME NEW S \in SUBSET Terminal PROVE CountIn(f, S) <= CountIn(g, S)
    <3>1. /\ IsFiniteSet(DOMAIN g) /\ DOMAIN f \subseteq DOMAIN g
          /\ \A c \in DOMAIN f : f[c] \in S => g[c] \in S
      BY <2>2, <2>3
    <3> QED BY <3>1, CountGrows
  <2>5. CountersWithin(batch[b], g)
    BY <2>2, <2>4, WithinGrows
  <2> QED BY <2>1, <2>5
<1>3. ASSUME TxQuiet PROVE tx'[a] = tx[a]
  BY <1>3, QuietTx DEF Held
<1>4. ASSUME NEW x \in Actors, RefreshLock(x) \/ RefreshItems(x) \/ RefreshFix(x) \/ RefreshWrite(x)
      PROVE  tx'[a] = tx[a] \/ RefreshItems(a)
  <2>1. OthersKeep(x)
    BY <1>4, LockEffect, ItemsEffect, FixEffect, WriteEffect
  <2>2. x = a => RefreshItems(a)
    BY <1>4, LockEffect, FixEffect, WriteEffect
  <2> QED BY <2>1, <2>2 DEF OthersKeep
<1>5. ASSUME NEW k \in Clients, Submit(k) \/ RetryLoaded(k) PROVE TxQuiet
  <2>1. PICK b \in Batches, D \in (SUBSET Devices) \ {{}}, source \in Batches \cup {Nobody} :
          CreateStep(k, b, D, source)
    BY <1>5, SubmitCreates, RetryCreates
  <2> QED BY <2>1 DEF CreateStep
<1> QED BY <1>1, <1>2, <1>3, <1>4, <1>5, QuietOrLoud DEF Loud, QuietStep

\* A closed row is what its children add up to.
LEMMA ClosedStep ==
    ASSUME Shape, Shape', Locks, Snapshots, BatchRowsTrue, [Next]_vars, NEW b \in Batches, Closed(b)'
    PROVE  /\ \A c \in Items(b)' : Ended(c)'
           /\ batch'[b].status = AggregateStatus(Current(b)')
           /\ CountersAre(batch'[b], Current(b)')
           /\ parent'[b] = batch'[b].status
<1>0. batch'[b].status \in Terminal
  BY DEF Closed
<1>1. CASE /\ batch'[b] = batch[b]
           /\ parent[b] \in Terminal => parent'[b] = parent[b]
  <2>1. /\ Closed(b) /\ \A c \in Items(b) : child[c] \in Terminal
        /\ batch[b].status = AggregateStatus(Current(b))
        /\ CountersAre(batch[b], Current(b)) /\ parent[b] = batch[b].status
    BY <1>0, <1>1 DEF BatchRowsTrue, ClosedIsFinal, Closed, Ended
  <2>2. Items(b)' = Items(b)
    BY <2>1, StatusFacts, ItemsStay DEF Closed
  <2>3. \A c \in Items(b) : child'[c] = child[c]
    BY <2>1, EndsStay DEF Items
  <2>4. Current(b)' = Current(b)
    BY <2>2, <2>3 DEF Current
  <2>5. \A c \in Items(b)' : Ended(c)'
    BY <2>1, <2>2, <2>3 DEF Ended
  <2>6. parent'[b] = batch'[b].status
    BY <1>0, <1>1, <2>1
  <2> QED BY <1>1, <2>1, <2>4, <2>5, <2>6
<1>2. ASSUME NEW a \in Actors, RefreshWrite(a), tx[a].b = b
      PROVE  /\ \A c \in Items(b)' : Ended(c)'
             /\ batch'[b].status = AggregateStatus(Current(b)')
             /\ CountersAre(batch'[b], Current(b)')
             /\ parent'[b] = batch'[b].status
  <2>1. /\ batch'[b].status = AggregateStatus(tx[a].seen) /\ CountersAre(batch'[b], tx[a].seen)
        /\ AggregateStatus(tx[a].seen) \in Terminal => parent'[b] = AggregateStatus(tx[a].seen)
    BY <1>2, WriteEffect
  <2>2. /\ DOMAIN tx[a].seen = Items(b) /\ Items(b)' = Items(b) /\ Items(b) # {}
        /\ \A c \in Items(b) : tx[a].seen[c] \in Statuses
        /\ \A c \in Items(b) : tx[a].seen[c] \in Terminal => child'[c] = tx[a].seen[c]
        /\ (\A c \in Items(b) : tx[a].seen[c] \in Terminal) => Current(b)' = tx[a].seen
    BY <1>2, WriteIsReached
  <2>3. \A c \in Items(b) : tx[a].seen[c] \in Terminal
    BY <1>0, <2>1, <2>2, AggregateFacts
  <2>4. \A c \in Items(b)' : Ended(c)'
    BY <2>2, <2>3 DEF Ended
  <2> QED BY <1>0, <2>1, <2>2, <2>3, <2>4
<1>3. batch'[b].status # "PENDING"
  BY <1>0 DEF Terminal
<1> QED BY <1>1, <1>2, <1>3, BatchCases

\* A row that shows a failure has stopped its batch.
LEMMA StopsStep ==
    ASSUME Shape, Shape', Locks, Snapshots, BatchRowsTrue, [Next]_vars, NEW b \in Batches,
           ~batch'[b].continueOnFailure, batch'[b].failed > 0, NEW c \in Items(b)'
    PROVE  child'[c] \notin Unstarted
<1>0. c \in Children /\ c[1] = b /\ child'[c] # NoTask
  BY DEF Items
<1>1. CASE batch'[b] = batch[b]
  <2>1. batch[b].status # NoTask
    <3>1. batch'[b].status # NoTask
      BY <1>0, RowsTogetherStep DEF RowsTogether
    <3> QED BY <1>1, <3>1
  <2>2. c \in Items(b)
    BY <2>1, ItemsStay
  <2>3. child[c] \notin Unstarted /\ child[c] # NoTask
    BY <1>1, <2>2 DEF BatchRowsTrue, FailFastStops, Items
  <2> QED BY <1>0, <2>3, EndsStay
<1>2. ASSUME NEW a \in Actors, RefreshWrite(a), tx[a].b = b PROVE child'[c] \notin Unstarted
  <2>1. CountersAre(batch'[b], tx[a].seen)
        /\ batch'[b].continueOnFailure = batch[b].continueOnFailure
    BY <1>2, WriteEffect
  <2>2. tx[a].at = "write" /\ DOMAIN tx[a].seen = Items(b) /\ IsFiniteSet(DOMAIN tx[a].seen)
    BY <1>2, WriteKnows DEF RefreshWrite
  <2>3. \E d \in DOMAIN tx[a].seen : tx[a].seen[d] \in FailedStatuses
    BY <2>1, <2>2, CountFacts DEF CountersAre
  <2>4. tx[a].fixed
    BY <1>2, <2>1, <2>2, <2>3 DEF Snapshots, FixComesFirst
  <2>5. child[c] \in Unstarted => c \in tx[a].cancels
    BY <1>0, <1>2, <2>4 DEF Snapshots, FixIsFinal
  <2>6. child'[c] = View(a, c)
    BY <1>0, <1>2, WriteAdvances
  <2> QED BY <2>5, <2>6 DEF View, Unstarted
<1> QED BY <1>1, <1>2, BatchCases

\* Every step keeps BatchRowsTrue.
LEMMA BatchRowsStep ==
    ASSUME Shape, Shape', Locks, Snapshots, BatchRowsTrue, [Next]_vars PROVE BatchRowsTrue'
<1>1. CountsAreReached'
  BY RowsReachedStep, SeenReachedStep DEF CountsAreReached
<1>2. ClosedIsFinal'
  BY ClosedStep DEF ClosedIsFinal
<1>3. FailFastStops'
  BY StopsStep DEF FailFastStops
<1> QED BY <1>1, <1>2, <1>3 DEF BatchRowsTrue

\* The snapshot of a transaction that writes a closed batch is what the
\* children are: it counts no less than the row, which counts them all.
LEMMA ClosedIsSeen ==
    ASSUME Shape, Locks, Snapshots, BatchRowsTrue, NEW a \in Actors, tx[a].at = "write",
           NEW b \in Batches, b = tx[a].b, Closed(b)
    PROVE  Current(b) = tx[a].seen
<1> DEFINE s == tx[a].seen
           f == Current(b)
<1>1. /\ DOMAIN s = Items(b) /\ IsFiniteSet(DOMAIN s)
  BY WriteKnows
<1>2. /\ DOMAIN f = Items(b) /\ IsFiniteSet(DOMAIN f) /\ \A c \in Items(b) : f[c] = child[c]
      /\ batch[b].success \in Nat /\ batch[b].failed \in Nat /\ batch[b].cancelled \in Nat
  BY RowFacts
<1>3. CountersAre(batch[b], f) /\ \A c \in Items(b) : child[c] \in Terminal
  BY DEF BatchRowsTrue, ClosedIsFinal, Ended
<1>4. CountersWithin(batch[b], s)
  BY DEF BatchRowsTrue, CountsAreReached
<1>5. \A c \in DOMAIN s : s[c] \in Terminal => View(a, c) = s[c]
  BY DEF Snapshots, SeenIsOld
<1>6. \A c \in Items(b) : View(a, c) = child[c]
  BY <1>3, StatusFacts DEF View, Locks, CancelsLocked
<1>7. s = [c \in DOMAIN s |-> s[c]] /\ f = [c \in Items(b) |-> child[c]]
  BY DEF Shape, Transactions, Seen, Current
<1>8. \A S : CountIn(s, S) \in Nat
  BY <1>1, CountFacts
<1> HIDE DEF s, f
<1>9. CountIn(f, {"SUCCESS"}) + CountIn(f, FailedStatuses) + CountIn(f, {"CANCELLED"})
          = Cardinality(Items(b))
  BY <1>2, <1>3, CountSplits
<1>10. /\ CountIn(s, {"SUCCESS"}) + CountIn(s, FailedStatuses) + CountIn(s, {"CANCELLED"})
             <= Cardinality(Items(b))
       /\ CountIn(s, {"SUCCESS"}) + CountIn(s, FailedStatuses) + CountIn(s, {"CANCELLED"})
             = Cardinality(Items(b)) => \A c \in Items(b) : s[c] \in Terminal
  BY <1>1, CountSplits
<1>11. Cardinality(Items(b)) \in Nat
  BY <1>1, FS_CardinalityType
<1>12. CountIn(s, {"SUCCESS"}) + CountIn(s, FailedStatuses) + CountIn(s, {"CANCELLED"})
             = Cardinality(Items(b))
  <2> DEFINE x == CountIn(s, {"SUCCESS"})
             y == CountIn(s, FailedStatuses)
             z == CountIn(s, {"CANCELLED"})
             n == Cardinality(Items(b))
             p == batch[b].success
             q == batch[b].failed
             r == batch[b].cancelled
  <2>1. x \in Nat /\ y \in Nat /\ z \in Nat /\ n \in Nat
    BY <1>8, <1>11
  <2>2. p <= x /\ q <= y /\ r <= z
    BY <1>4 DEF CountersWithin
  <2>3. p + q + r = n
    BY <1>3, <1>9 DEF CountersAre
  <2>4. x + y + z <= n
    BY <1>10
  <2>5. p \in Nat /\ q \in Nat /\ r \in Nat
    BY <1>2
  <2> HIDE DEF x, y, z, n, p, q, r
  <2>6. x + y + z = n
    BY <2>1, <2>2, <2>3, <2>4, <2>5
  <2> QED BY <2>6 DEF x, y, z, n
<1>13. \A c \in Items(b) : s[c] = child[c]
  BY <1>1, <1>5, <1>6, <1>10, <1>12
<1> QED BY <1>1, <1>7, <1>13 DEF s, f

\* A step that writes a row never takes anything back.
Forward(b) ==
    /\ batch'[b].success >= batch[b].success
    /\ batch'[b].failed >= batch[b].failed
    /\ batch'[b].cancelled >= batch[b].cancelled
    /\ Closed(b) => batch'[b] = batch[b]

\* Every step moves every batch row forward.
LEMMA ForwardStep ==
    ASSUME Shape, Shape', Locks, Snapshots, BatchRowsTrue, [Next]_vars, NEW b \in Batches
    PROVE  Forward(b)
<1>0. /\ batch[b] \in BatchRows /\ batch'[b] \in BatchRows
      /\ batch[b].success \in Nat /\ batch[b].failed \in Nat /\ batch[b].cancelled \in Nat
      /\ CountersWithin(batch[b], Current(b))
  BY RowFacts DEF Shape, BatchRowsTrue, CountsAreReached
<1>1. CASE batch'[b] = batch[b]
  BY <1>0, <1>1 DEF Forward
<1>2. CASE /\ batch[b].status = NoTask
           /\ batch'[b].success = 0 /\ batch'[b].failed = 0 /\ batch'[b].cancelled = 0
  <2>1. Items(b) = {}
    BY <1>2 DEF Locks, RowsTogether, Items
  <2>2. DOMAIN Current(b) = {} /\ IsFiniteSet(DOMAIN Current(b))
    BY <2>1, RowFacts
  <2>3. \A S : CountIn(Current(b), S) \in Nat /\ ~(CountIn(Current(b), S) > 0)
    BY <2>2, CountFacts
  <2>4. batch[b].success = 0 /\ batch[b].failed = 0 /\ batch[b].cancelled = 0
    BY <1>0, <2>3 DEF CountersWithin
  <2>5. ~Closed(b)
    BY <1>2, StatusFacts DEF Closed
  <2> QED BY <1>2, <2>4, <2>5 DEF Forward
<1>3. ASSUME NEW a \in Actors, RefreshWrite(a), tx[a].b = b PROVE Forward(b)
  <2>1. /\ batch'[b].status = AggregateStatus(tx[a].seen) /\ CountersAre(batch'[b], tx[a].seen)
        /\ batch'[b].continueOnFailure = batch[b].continueOnFailure
        /\ batch'[b].retryOf = batch[b].retryOf
    BY <1>3, WriteEffect
  <2>2. tx[a].at = "write" /\ CountersWithin(batch[b], tx[a].seen)
    BY <1>3 DEF RefreshWrite, BatchRowsTrue, CountsAreReached
  <2>3. /\ batch'[b].success >= batch[b].success
        /\ batch'[b].failed >= batch[b].failed
        /\ batch'[b].cancelled >= batch[b].cancelled
    BY <2>1, <2>2 DEF CountersAre, CountersWithin
  <2>4. ASSUME Closed(b) PROVE batch'[b] = batch[b]
    <3>1. Current(b) = tx[a].seen
      BY <1>3, <2>2, <2>4, ClosedIsSeen
    <3>2. batch[b].status = AggregateStatus(tx[a].seen) /\ CountersAre(batch[b], tx[a].seen)
      BY <2>4, <3>1 DEF BatchRowsTrue, ClosedIsFinal
    <3> QED BY <1>0, <2>1, <3>2 DEF CountersAre, BatchRows
  <2> QED BY <2>3, <2>4 DEF Forward
<1> QED BY <1>1, <1>2, <1>3, BatchCases

-----------------------------------------------------------------------------
(***************************************************************************)
(* The requests                                                            *)
(***************************************************************************)

\* A cancellation that was recorded stays recorded.
LEMMA MarksStay == ASSUME [Next]_vars PROVE cancelMark \subseteq cancelMark'
<1>1. ASSUME NEW a \in Actors, TxStep(a) PROVE cancelMark' = cancelMark
  BY <1>1 DEF TxStep, RefreshLock, RefreshItems, RefreshFix, RefreshWrite, SyncDirectTerminalAudits,
     dbVars
<1>2. ASSUME NEW w \in Workers, WorkerStep(w) \/ WorkerFails(w) PROVE cancelMark' = cancelMark
  BY <1>2 DEF WorkerStep, WorkerFails, ClaimNextQueued, ClaimTooEarly, HandlerEnds, HandlerSkipped,
     Save, SaveReturns, SaveRejected, WorkerStops, dbVars
<1>3. ASSUME NEW k \in Clients, Submit(k) \/ Get(k) \/ RequestStep(k) \/ RequestFails(k)
      PROVE  cancelMark \subseteq cancelMark'
  <2>1. CASE CancelChild(k) \/ CancelRejected(k)
    BY <2>1 DEF CancelChild, CancelRejected, Mark
  <2>2. CASE ~CancelChild(k) /\ ~CancelRejected(k)
    BY <1>3, <2>2 DEF Submit, Get, RequestStep, RequestFails, CreateBatch, QueueChild, QueueConflict,
       LoopEnds, CancelLoaded, CancelReconciled, RetryLoaded, RetryRefused, RequestRejected,
       LastReturns, dbVars
  <2> QED BY <2>1, <2>2
<1>4. CASE RecoverStep
  BY <1>4 DEF RecoverStep, RecoverInterrupt, RecoverListOpen, RecoverReconcile, RecoverReconciled,
     RecoverRejected, RecoverList, RecoverQueue, StartWorkers, Exit, dbVars
<1>5. CASE Start \/ Crash \/ Shutdown \/ RunReturns \/ RecoverFails \/ UNCHANGED vars
  BY <1>5 DEF Start, Crash, Shutdown, RunReturns, RecoverFails, Exit, dbVars, vars
<1> QED BY <1>1, <1>2, <1>3, <1>4, <1>5 DEF Next

\* A child that a cancel has covered stays covered.
LEMMA CoveredStays ==
    ASSUME Shape, Locks, Snapshots, [Next]_vars, NEW c \in Children, Covered(c)
    PROVE  Covered(c)'
<1>1. CASE child[c] \in Terminal
  BY <1>1, EndsStay, StatusFacts DEF Covered, Ended
<1>2. CASE child[c] = "RUNNING" /\ c \in cancelMark
  <2>1. Advance(c)
    BY <1>2, EndsStay DEF NoTask
  <2>2. child'[c] \in Terminal \cup {"RUNNING"}
    BY <1>2, <2>1, AdvanceFacts
  <2> QED BY <1>2, <2>2, MarksStay DEF Covered, Ended
<1> QED BY <1>1, <1>2 DEF Covered, Ended

\* What was covered of an existing batch stays covered, and so does the rest
\* of its list.
LEMMA ProgressStays ==
    ASSUME Shape, Locks, Snapshots, [Next]_vars, NEW b \in Batches, batch[b].status # NoTask, NEW T,
           \A c \in Items(b) : c \in T \/ Covered(c)
    PROVE  \A c \in Items(b)' : c \in T \/ Covered(c)'
<1>1. Items(b)' = Items(b) /\ Items(b) \subseteq Children
  BY ItemsStay DEF Items
<1> QED BY <1>1, CoveredStays

\* A Cancel in progress leaves no child behind.
LEMMA CancelProgressStep ==
    ASSUME Shape, Shape', Locks, Snapshots, RequestsKeep, [Next]_vars PROVE CancelProgress'
<1> SUFFICES ASSUME NEW k \in Clients, req'[k].op = "cancel"
             PROVE  /\ req'[k].pc # "queue"
                    /\ req'[k].pc \in {"cancel", "reconcile", "last"} =>
                          \A c \in Items(req[k].b)' : c \in req'[k].todo \/ Covered(c)'
                    /\ req'[k].pc = "last" => req'[k].todo = {}
  BY DEF CancelProgress
<1>0. /\ k \in Actors
      /\ req[k].pc # "idle" => req[k].b \in Batches /\ batch[req[k].b].status # NoTask
      /\ req[k].op = "cancel" =>
            /\ req[k].pc # "queue"
            /\ req[k].pc \in {"cancel", "reconcile", "last"} =>
                  \A c \in Items(req[k].b) : c \in req[k].todo \/ Covered(c)
            /\ req[k].pc = "last" => req[k].todo = {}
  BY DEF Actors, Locks, RequestsHold, RequestsKeep, CancelProgress
<1>1. ASSUME req'[k].b = req[k].b, req[k].pc # "idle", NEW T,
             \A c \in Items(req[k].b) : c \in T \/ Covered(c)
      PROVE  \A c \in Items(req[k].b)' : c \in T \/ Covered(c)'
  <2>1. PICK b \in Batches : b = req[k].b
    BY <1>0, <1>1
  <2>2. \A c \in Items(b)' : c \in T \/ Covered(c)'
    BY <1>0, <1>1, <2>1, ProgressStays
  <2>3. Items(req[k].b)' = Items(b)'
    BY <1>1, <2>1 DEF Items
  <2> QED BY <2>2, <2>3
<1>2. ~Exit
  BY DEF Exit, NoRequest
<1>3. CASE req'[k] = req[k]
  BY <1>0, <1>1, <1>3
<1>4. CASE Submit(k) \/ RetryLoaded(k)
  <2>1. PICK b \in Batches, D \in (SUBSET Devices) \ {{}}, source \in Batches \cup {Nobody} :
          CreateStep(k, b, D, source)
    BY <1>4, SubmitCreates, RetryCreates
  <2> QED BY <2>1 DEF CreateStep
<1>5. CASE Get(k)
  BY <1>5, GetEffect
<1>6. CASE QueueChild(k)
  BY <1>0, <1>6, LoopEffect DEF Moved, QueueChild
<1>7. CASE LoopEnds(k)
  <2>1. Moved(k, "last", {}) /\ req[k].pc \in {"queue", "cancel"} /\ req[k].todo = {}
    BY <1>7, LoopEffect DEF LoopEnds
  <2> QED BY <1>0, <1>1, <2>1 DEF Moved
<1>8. CASE CancelReconciled(k)
  <2>1. Moved(k, "cancel", req[k].todo) /\ req[k].pc = "reconcile"
    BY <1>8, LoopEffect DEF CancelReconciled
  <2> QED BY <1>0, <1>1, <2>1 DEF Moved
<1>9. CASE CancelLoaded(k)
  <2>1. req[k].pc = "first" /\ req[k].op = "cancel" /\ tx[k].at = "done"
    BY <1>9 DEF CancelLoaded, Returned
  <2>2. tx[k].status \notin Terminal
    <3>1. ~Answer(k)
      BY AnswerEffect
    <3> QED BY <1>9, <3>1 DEF CancelLoaded
  <2> DEFINE T == {c \in DOMAIN tx[k].seen : tx[k].seen[c] \notin Terminal}
  <2>3. Moved(k, "cancel", T)
    BY <1>9, <2>2, LoopEffect
  <2>4. DOMAIN tx[k].seen = Items(req[k].b)
    BY <2>1 DEF Snapshots, FirstHasAll
  <2>5. ASSUME NEW c \in Items(req[k].b), c \notin T PROVE Covered(c)
    <3>1. tx[k].seen[c] \in Terminal /\ c \in DOMAIN tx[k].seen
      BY <2>4, <2>5
    <3>2. View(k, c) = tx[k].seen[c]
      BY <1>0, <2>1, <3>1 DEF Snapshots, SeenIsOld
    <3>3. c \notin tx[k].cancels
      BY <1>0, <2>1 DEF Locks, CancelsLocked, Held
    <3> QED BY <3>1, <3>2, <3>3 DEF View, Covered, Ended
  <2> HIDE DEF T
  <2> QED BY <1>1, <2>1, <2>3, <2>5 DEF Moved
<1>10. CASE CancelChild(k)
  <2>0. req[k].todo \in SUBSET Children
    BY DEF Shape, Requests
  <2>1. PICK d \in req[k].todo : d = FirstItem(req[k].todo)
    BY <1>10, <2>0, FirstItemIsLeft DEF CancelChild
  <2>2. d \in Children /\ d[1] = req[k].b /\ child[d] # NoTask
    BY <2>0, <2>1 DEF Locks, RequestsHold
  <2>3. /\ req[k].pc = "cancel" /\ req'[k].b = req[k].b /\ req'[k].op = req[k].op
        /\ req'[k].pc \in {"reconcile", "cancel"} /\ req'[k].todo = req[k].todo \ {d}
    BY <1>10, <2>1, LoopEffect DEF CancelChild, Moved
  <2>4. Covered(d)'
    <3>1. child'[d] = IF child[d] \in Unstarted \cup {"CANCELLED"} THEN "CANCELLED" ELSE child[d]
      BY <1>10, <2>1, <2>2 DEF CancelChild, Shape
    <3>2. child[d] = "RUNNING" => d \in cancelMark'
      BY <1>10, <2>1 DEF CancelChild, Mark
    <3>3. child[d] \in Statuses
      BY <2>2 DEF Shape
    <3> QED BY <3>1, <3>2, <3>3, StatusFacts DEF Covered, Ended, Terminal
  <2>5. \A c \in Items(req[k].b)' : c \in req[k].todo \/ Covered(c)'
    BY <1>0, <1>1, <2>3
  <2> QED BY <2>4, <2>5, <2>3
<1>11. CASE QueueConflict(k) \/ CancelRejected(k) \/ RetryRefused(k) \/ LastReturns(k)
            \/ RequestRejected(k) \/ RequestFails(k)
  <2>1. Answer(k)
    BY <1>11 DEF QueueConflict, CancelRejected, RetryRefused, LastReturns, RequestRejected, RequestFails
  <2> QED BY <2>1, AnswerEffect
<1> QED BY <1>2, <1>3, <1>4, <1>5, <1>6, <1>7, <1>8, <1>9, <1>10, <1>11, OwnRequest DEF RequestStep

\* A cancelled batch exists, since its request was about one, and every child
\* of it is covered, since the list of the request is empty.
LEMMA CancelledStep ==
    ASSUME Shape, Shape', Locks, Snapshots, RequestsKeep, [Next]_vars
    PROVE  CancelledExist' /\ CancelCoversAll'
<1>1. ASSUME NEW k \in Clients, LastReturns(k), NEW b \in cancelOK', b \notin cancelOK
      PROVE  /\ b \in Batches /\ batch[b].status # NoTask
             /\ \A c \in Items(b) : Covered(c)
  <2>1. b = req[k].b /\ req[k].op = "cancel" /\ req[k].pc = "last"
    BY <1>1 DEF LastReturns
  <2> QED BY <2>1 DEF Locks, RequestsHold, RequestsKeep, CancelProgress
<1>2. ASSUME NEW b \in cancelOK
      PROVE  /\ b \in Batches /\ batch[b].status # NoTask
             /\ \A c \in Items(b) : Covered(c)
  BY DEF Shape, RequestsKeep, CancelledExist, CancelCoversAll, Covered
<1>3. ASSUME NEW b \in cancelOK', b \notin cancelOK PROVE \E k \in Clients : LastReturns(k)
  <2>1. ASSUME NEW a \in Actors, TxStep(a) PROVE cancelOK' = cancelOK
    BY <2>1, RefreshLeaves, SyncLeaves DEF TxStep
  <2>2. ASSUME NEW w \in Workers, WorkerStep(w) \/ WorkerFails(w) PROVE cancelOK' = cancelOK
    BY <2>2 DEF WorkerStep, WorkerFails, ClaimNextQueued, ClaimTooEarly, HandlerEnds, HandlerSkipped,
       Save, SaveReturns, SaveRejected, WorkerStops
  <2>3. ASSUME NEW k \in Clients, Submit(k) \/ Get(k) \/ RequestStep(k) \/ RequestFails(k)
        PROVE  cancelOK' = cancelOK \/ LastReturns(k)
    BY <2>3 DEF Submit, Get, RequestStep, RequestFails, CreateBatch, QueueChild, QueueConflict,
       LoopEnds, CancelLoaded, CancelChild, CancelRejected, CancelReconciled, RetryLoaded,
       RetryRefused, RequestRejected
  <2>4. ASSUME RecoverStep PROVE cancelOK' = cancelOK
    BY <2>4 DEF RecoverStep, RecoverInterrupt, RecoverListOpen, RecoverReconcile, RecoverReconciled,
       RecoverRejected, RecoverList, RecoverQueue, StartWorkers, Exit
  <2>5. CASE Start \/ Crash \/ Shutdown \/ RunReturns \/ RecoverFails \/ UNCHANGED vars
    BY <1>3, <2>5 DEF Start, Crash, Shutdown, RunReturns, RecoverFails, Exit, vars
  <2> QED BY <1>3, <2>1, <2>2, <2>3, <2>4, <2>5 DEF Next
<1>4. ASSUME NEW b \in cancelOK'
      PROVE  batch'[b].status # NoTask /\ \A c \in Items(b)' : Covered(c)'
  <2>1. /\ b \in Batches /\ batch[b].status # NoTask
        /\ \A c \in Items(b) : Covered(c)
    BY <1>1, <1>2, <1>3
  <2>2. batch'[b].status # NoTask
    BY <2>1, RowsStay
  <2>3. Items(b)' = Items(b) /\ Items(b) \subseteq Children
    BY <2>1, ItemsStay DEF Items
  <2>4. \A c \in Items(b)' : Covered(c)'
    BY <2>1, <2>3, CoveredStays
  <2> QED BY <2>2, <2>4
<1> QED BY <1>4 DEF CancelledExist, CancelCoversAll, Covered

\* A retry repeats what its snapshot shows as failed, which is final.
LEMMA RetryStep ==
    ASSUME Shape, Shape', Locks, Snapshots, RequestsKeep, [Next]_vars PROVE RetryOnlyFailed'
<1> SUFFICES ASSUME NEW c \in Children, child'[c] # NoTask, batch'[c[1]].retryOf # Nobody
             PROVE  child'[<<batch'[c[1]].retryOf, c[2]>>] \in {"FAILED", "INTERRUPTED"}
  BY DEF RetryOnlyFailed
<1>0. /\ c[1] \in Batches /\ c[2] \in Devices /\ batch'[c[1]] \in BatchRows
      /\ batch'[c[1]].retryOf \in Batches /\ <<batch'[c[1]].retryOf, c[2]>> \in Children
  <2>1. c[1] \in Batches /\ c[2] \in Devices
    BY ChildrenArePairs
  <2>2. batch'[c[1]] \in BatchRows
    BY <2>1 DEF Shape
  <2>3. batch'[c[1]].retryOf \in Batches
    BY <2>2 DEF BatchRows
  <2> QED BY <2>1, <2>2, <2>3 DEF Children
<1>1. ASSUME NEW d \in Children, child[d] \in {"FAILED", "INTERRUPTED"}
      PROVE  child'[d] \in {"FAILED", "INTERRUPTED"}
  <2>1. child[d] \in Terminal /\ child[d] # NoTask
    BY <1>1, StatusFacts DEF Terminal
  <2> QED BY <1>1, <2>1, EndsStay
<1>2. CASE batch'[c[1]].retryOf = batch[c[1]].retryOf /\ batch[c[1]].status # NoTask
  <2>1. child[c] # NoTask
    <3>1. Items(c[1])' = Items(c[1])
      BY <1>0, <1>2, ItemsStay
    <3>2. c \in Items(c[1])'
      BY DEF Items
    <3> QED BY <3>1, <3>2 DEF Items
  <2>2. child[<<batch[c[1]].retryOf, c[2]>>] \in {"FAILED", "INTERRUPTED"}
    BY <1>2, <2>1 DEF RequestsKeep, RetryOnlyFailed
  <2> QED BY <1>0, <1>1, <1>2, <2>2
<1>3. ASSUME NEW k \in Clients, RetryLoaded(k)
      PROVE  \/ batch'[c[1]].retryOf = batch[c[1]].retryOf /\ batch[c[1]].status # NoTask
             \/ child'[<<batch'[c[1]].retryOf, c[2]>>] \in {"FAILED", "INTERRUPTED"}
  <2>1. PICK b \in Batches, D \in (SUBSET Devices) \ {{}} :
          /\ CreateStep(k, b, D, req[k].b)
          /\ req[k].b \in Batches
          /\ \A d \in D : \E i \in DOMAIN tx[k].seen :
                i[2] = d /\ tx[k].seen[i] \in {"FAILED", "INTERRUPTED"}
    BY <1>3, RetryCreates
  <2>2. CASE c[1] # b
    <3>1. child[c] # NoTask /\ batch'[c[1]] = batch[c[1]]
      BY <1>0, <2>1, <2>2, CreateIsNew DEF CreateStep, NewRows
    <3>2. batch[c[1]].status # NoTask
      BY <1>0, <3>1 DEF Locks, RowsTogether
    <3> QED BY <3>1, <3>2
  <2>3. CASE c[1] = b
    <3>1. child[c] = NoTask /\ c[2] \in D /\ batch'[c[1]].retryOf = req[k].b
      <4>1. child[c] = NoTask
        BY <2>1, <2>3, CreateIsNew
      <4>2. batch'[b].retryOf = req[k].b
            /\ child'[c] = IF c[1] = b /\ c[2] \in D THEN "PENDING" ELSE child[c]
        BY <2>1 DEF CreateStep, NewRows
      <4> QED BY <2>3, <4>1, <4>2
    <3>2. PICK i \in DOMAIN tx[k].seen : i[2] = c[2] /\ tx[k].seen[i] \in {"FAILED", "INTERRUPTED"}
      BY <2>1, <3>1
    <3>3. req[k].pc = "first" /\ tx[k].at = "done" /\ k \in Actors
      BY <1>3 DEF RetryLoaded, Returned, Actors
    <3>4. i \in Children /\ i[1] = req[k].b
      <4>1. i \in Children
        BY <3>3, SeenFacts DEF Shape, Transactions
      <4>2. i[1] = tx[k].b /\ tx[k].b = req[k].b
        BY <3>3 DEF Snapshots, SeenIsOld, FirstHasAll
      <4> QED BY <4>1, <4>2
    <3>5. View(k, i) = tx[k].seen[i]
      BY <3>2, <3>3 DEF Snapshots, SeenIsOld, Terminal
    <3>6. i \notin tx[k].cancels
      BY <3>3 DEF Locks, CancelsLocked, Held
    <3>7. child[i] \in {"FAILED", "INTERRUPTED"}
      BY <3>2, <3>5, <3>6 DEF View
    <3>8. i = <<batch'[c[1]].retryOf, c[2]>>
      BY <3>1, <3>2, <3>4, ChildrenArePairs
    <3> QED BY <1>1, <3>4, <3>7, <3>8
  <2> QED BY <2>2, <2>3
<1>4. ASSUME NEW k \in Clients, Submit(k)
      PROVE  batch'[c[1]].retryOf = batch[c[1]].retryOf /\ batch[c[1]].status # NoTask
  <2>1. PICK b \in Batches, D \in (SUBSET Devices) \ {{}} : CreateStep(k, b, D, Nobody)
    BY <1>4, SubmitCreates
  <2>2. c[1] # b
    BY <2>1 DEF CreateStep, NewRows
  <2>3. child[c] # NoTask /\ batch'[c[1]] = batch[c[1]]
    BY <1>0, <2>1, <2>2, CreateIsNew DEF CreateStep, NewRows
  <2> QED BY <1>0, <2>3 DEF Locks, RowsTogether
<1>5. ASSUME NEW a \in Actors, RefreshWrite(a)
      PROVE  batch'[c[1]].retryOf = batch[c[1]].retryOf /\ batch[c[1]].status # NoTask
  <2>1. batch'[c[1]].retryOf = batch[c[1]].retryOf
    BY <1>0, <1>5, WriteEffect
  <2>2. child[c] # NoTask
    BY <1>5, WriteAdvances, AdvanceFacts
  <2> QED BY <1>0, <2>1, <2>2 DEF Locks, RowsTogether
<1>6. ASSUME NEW a \in Actors, RefreshLock(a) \/ RefreshItems(a) \/ RefreshFix(a)
      PROVE  batch'[c[1]].retryOf = batch[c[1]].retryOf /\ batch[c[1]].status # NoTask
  <2>1. UNCHANGED <<batch, child>>
    BY <1>6 DEF RefreshLock, RefreshItems, RefreshFix, dbVars
  <2> QED BY <1>0, <2>1 DEF Locks, RowsTogether
<1>7. CASE QuietStep
  <2>1. child[c] # NoTask /\ batch' = batch
    BY <1>7, AdvanceFacts DEF QuietStep
  <2>2. batch[c[1]].status # NoTask
    BY <1>0, <2>1 DEF Locks, RowsTogether
  <2> QED BY <1>2, <2>1, <2>2
<1> QED BY <1>2, <1>3, <1>4, <1>5, <1>6, <1>7, QuietOrLoud DEF Loud

\* Every step keeps RequestsKeep.
LEMMA RequestsKeepStep ==
    ASSUME Shape, Shape', Locks, Snapshots, RequestsKeep, [Next]_vars PROVE RequestsKeep'
BY CancelProgressStep, CancelledStep, RetryStep DEF RequestsKeep

-----------------------------------------------------------------------------
(***************************************************************************)
(* Stop on failure                                                         *)
(***************************************************************************)

\* A worker claims a child, which is its own unless the claim fails.
Claims(w, c) ==
    /\ ClaimNextQueued(w) \/ ClaimTooEarly(w)
    /\ child[c] = "QUEUED" /\ child' = [child EXCEPT ![c] = "RUNNING"]
    /\ ClaimNextQueued(w) => wchild'[w] = c

LEMMA ClaimClaims ==
    ASSUME Shape, NEW w \in Workers, ClaimNextQueued(w) \/ ClaimTooEarly(w)
    PROVE  \E c \in Children : Claims(w, c)
<1>1. CASE ClaimNextQueued(w)
  <2>1. PICK c \in Children :
          /\ child[c] = "QUEUED" /\ ~RowLocked(c)
          /\ child' = [child EXCEPT ![c] = "RUNNING"]
          /\ wchild' = [wchild EXCEPT ![w] = c]
    BY <1>1 DEF ClaimNextQueued
  <2> QED BY <1>1, <2>1 DEF Claims, Shape
<1>2. CASE ClaimTooEarly(w) /\ ~ClaimNextQueued(w)
  <2>1. PICK c \in Children :
          child[c] = "QUEUED" /\ child' = [child EXCEPT ![c] = "RUNNING"]
    BY <1>2 DEF ClaimTooEarly
  <2> QED BY <1>2, <2>1 DEF Claims
<1> QED BY <1>1, <1>2

\* What starts and what ends a child.
LEMMA ChildCases ==
    ASSUME Shape, Locks, Snapshots, [Next]_vars, NEW c \in Children
    PROVE  \/ child'[c] = child[c]
           \/ child[c] \notin Terminal \cup {"RUNNING"} /\ child'[c] \in Unstarted \cup {"CANCELLED"}
           \/ RecoverInterrupt
           \/ \E w \in Workers : Claims(w, c)
           \/ \E w \in Workers : Save(w) /\ wchild[w] = c
<1> DEFINE Goal == \/ child'[c] = child[c]
                   \/ child[c] \notin Terminal \cup {"RUNNING"} /\ child'[c] \in Unstarted \cup {"CANCELLED"}
<1>1. ASSUME NEW a \in Actors, TxStep(a) PROVE Goal
  <2>1. CASE RefreshWrite(a)
    <3>1. child'[c] = View(a, c) /\ (c \in tx[a].cancels => child[c] \in Unstarted)
      BY <2>1, WriteAdvances DEF Locks, CancelsLocked
    <3> QED BY <3>1, StatusFacts DEF View
  <2>2. CASE ~RefreshWrite(a)
    BY <1>1, <2>2, RefreshLeaves, SyncLeaves DEF TxStep
  <2> QED BY <2>1, <2>2
<1>2. ASSUME NEW w \in Workers, WorkerStep(w) \/ WorkerFails(w)
      PROVE  \/ child'[c] = child[c]
             \/ Claims(w, c)
             \/ Save(w) /\ wchild[w] = c
  <2>1. CASE ClaimNextQueued(w) \/ ClaimTooEarly(w)
    <3>1. PICK d \in Children : Claims(w, d)
      BY <2>1, ClaimClaims
    <3>2. d # c => child'[c] = child[c]
      BY <3>1 DEF Claims, Shape
    <3> QED BY <3>1, <3>2
  <2>2. CASE Save(w)
    BY <2>2 DEF Save, Shape
  <2>3. CASE HandlerEnds(w) \/ HandlerSkipped(w) \/ SaveReturns(w) \/ SaveRejected(w)
             \/ WorkerStops(w) \/ WorkerFails(w)
    BY <2>3 DEF HandlerEnds, HandlerSkipped, SaveReturns, SaveRejected, WorkerStops, WorkerFails, dbVars
  <2> QED BY <1>2, <2>1, <2>2, <2>3 DEF WorkerStep
<1>3. ASSUME NEW k \in Clients, Submit(k) \/ Get(k) \/ RequestStep(k) \/ RequestFails(k) PROVE Goal
  <2>1. CASE Submit(k) \/ RetryLoaded(k)
    <3>1. PICK b \in Batches, D \in (SUBSET Devices) \ {{}}, source \in Batches \cup {Nobody} :
            CreateStep(k, b, D, source)
      BY <2>1, SubmitCreates, RetryCreates
    <3>2. \/ child'[c] = child[c]
          \/ child[c] = NoTask /\ child'[c] \in {NoTask, "PENDING"}
      BY <3>1, CreateIsNew
    <3> QED BY <3>2, StatusFacts DEF Unstarted
  <2>2. CASE QueueChild(k)
    BY <2>2, StatusFacts DEF QueueChild, Shape, Unstarted
  <2>3. CASE CancelChild(k)
    BY <2>3, StatusFacts DEF CancelChild, Shape, Unstarted
  <2>4. CASE Get(k) \/ QueueConflict(k) \/ LoopEnds(k) \/ CancelLoaded(k) \/ CancelReconciled(k)
             \/ CancelRejected(k) \/ RetryRefused(k) \/ LastReturns(k) \/ RequestRejected(k)
             \/ RequestFails(k)
    BY <2>4 DEF Get, QueueConflict, LoopEnds, CancelLoaded, CancelReconciled, CancelRejected,
       RetryRefused, LastReturns, RequestRejected, RequestFails, dbVars
  <2> QED BY <1>3, <2>1, <2>2, <2>3, <2>4 DEF RequestStep
<1>4. CASE RecoverStep
  <2>1. CASE RecoverQueue
    <3>1. PICK d \in toQueue : \/ child[d] \in Unstarted /\ child' = [child EXCEPT ![d] = "QUEUED"]
                               \/ child' = child
      BY <2>1 DEF RecoverQueue, Exit, dbVars
    <3> QED BY <3>1, StatusFacts DEF Shape, Unstarted
  <2>2. CASE RecoverListOpen \/ RecoverReconcile \/ RecoverReconciled \/ RecoverRejected
             \/ RecoverList \/ StartWorkers
    BY <2>2 DEF RecoverListOpen, RecoverReconcile, RecoverReconciled, RecoverRejected, RecoverList,
       StartWorkers, Exit, dbVars
  <2> QED BY <1>4, <2>1, <2>2 DEF RecoverStep
<1>5. CASE Start \/ Crash \/ Shutdown \/ RunReturns \/ RecoverFails \/ UNCHANGED vars
  BY <1>5 DEF Start, Crash, Shutdown, RunReturns, RecoverFails, Exit, dbVars, vars
<1> QED BY <1>1, <1>2, <1>3, <1>4, <1>5 DEF Next

\* The process moves on in the steps of Recover, and a stop is for good.
LEMMA ProcCases ==
    ASSUME Shape, Locks, Snapshots, [Next]_vars
    PROVE  \/ Exit
           \/ RecoverStep
           \/ Start
           \/ proc' = proc /\ (ctxDone' = ctxDone \/ ctxDone')
<1>1. ASSUME NEW a \in Actors, TxStep(a) PROVE proc' = proc /\ ctxDone' = ctxDone
  BY <1>1, RefreshLeaves, SyncLeaves DEF TxStep
<1>2. ASSUME NEW w \in Workers, WorkerStep(w) \/ WorkerFails(w)
      PROVE  proc' = proc /\ (ctxDone' = ctxDone \/ ctxDone')
  BY <1>2 DEF WorkerStep, WorkerFails, ClaimNextQueued, ClaimTooEarly, Returns, HandlerEnds,
     HandlerSkipped, Save, SaveReturns, SaveRejected, WorkerStops, runVars
<1>3. ASSUME NEW k \in Clients, Submit(k) \/ Get(k) \/ RequestStep(k) \/ RequestFails(k)
      PROVE  proc' = proc /\ ctxDone' = ctxDone
  BY <1>3 DEF Submit, Get, RequestStep, RequestFails, CreateBatch, QueueChild, QueueConflict, LoopEnds,
     CancelLoaded, CancelChild, CancelRejected, CancelReconciled, RetryLoaded, RetryRefused,
     RequestRejected, LastReturns, runVars
<1>4. CASE Crash \/ RunReturns \/ RecoverFails
  BY <1>4 DEF Crash, RunReturns, RecoverFails
<1>5. CASE Shutdown \/ UNCHANGED vars
  BY <1>5 DEF Shutdown, vars
<1> QED BY <1>1, <1>2, <1>3, <1>4, <1>5 DEF Next

\* Where the process has come from.
LEMMA ProcFrom ==
    ASSUME Shape, Locks, Snapshots, [Next]_vars
    PROVE  /\ proc' \in {"list", "reconcile", "queue"} =>
                 proc \in {"list", "reconcile", "queue"} \/ RecoverInterrupt
           /\ proc' = "reconcile" => proc = "reconcile" \/ RecoverListOpen
           /\ proc' = "queue" => proc = "queue" \/ RecoverList
           /\ proc' = "up" /\ ~ctxDone' => (proc = "up" /\ ~ctxDone) \/ StartWorkers
<1>1. CASE Exit
  BY <1>1 DEF Exit
<1>2. CASE RecoverStep /\ ~Exit
  <2>1. ASSUME RecoverInterrupt PROVE proc' = "list"
    BY <2>1 DEF RecoverInterrupt
  <2>2. ASSUME RecoverListOpen PROVE proc = "list" /\ proc' = "reconcile"
    BY <2>2 DEF RecoverListOpen
  <2>3. ASSUME RecoverReconcile \/ RecoverReconciled \/ RecoverQueue
        PROVE  proc' = proc /\ ctxDone' = ctxDone
    BY <1>2, <2>3 DEF RecoverReconcile, RecoverReconciled, RecoverQueue, runVars
  <2>4. ASSUME RecoverList PROVE proc = "reconcile" /\ proc' = "queue"
    BY <2>4 DEF RecoverList
  <2>5. ASSUME StartWorkers PROVE proc' = "up"
    BY <2>5 DEF StartWorkers
  <2>6. ~RecoverRejected
    BY <1>2 DEF RecoverRejected
  <2> QED BY <1>2, <2>1, <2>2, <2>3, <2>4, <2>5, <2>6 DEF RecoverStep
<1>3. CASE Start
  BY <1>3 DEF Start
<1> QED BY <1>1, <1>2, <1>3, ProcCases

\* A worker changes in its own steps, when it is started and when the process
\* ends.
LEMMA OwnWorker ==
    ASSUME Shape, Locks, Snapshots, [Next]_vars, NEW w \in Workers
    PROVE  \/ wpc'[w] = wpc[w] /\ wchild'[w] = wchild[w] /\ wresult'[w] = wresult[w]
           \/ Exit
           \/ StartWorkers
           \/ WorkerStep(w) \/ WorkerFails(w)
<1>1. ASSUME NEW a \in Actors, TxStep(a) PROVE UNCHANGED <<wpc, wchild, wresult>>
  BY <1>1, RefreshLeaves, SyncLeaves DEF TxStep
<1>2. ASSUME NEW v \in Workers, v # w, WorkerStep(v) \/ WorkerFails(v)
      PROVE  wpc'[w] = wpc[w] /\ wchild'[w] = wchild[w] /\ wresult'[w] = wresult[w]
  <2>1. CASE ClaimNextQueued(v)
    BY <1>2, <2>1 DEF ClaimNextQueued, Shape
  <2>2. CASE HandlerEnds(v)
    BY <1>2, <2>2 DEF HandlerEnds, Shape
  <2>3. CASE HandlerSkipped(v)
    BY <1>2, <2>3 DEF HandlerSkipped, Shape
  <2>4. CASE Save(v) \/ SaveReturns(v) \/ WorkerStops(v)
    BY <1>2, <2>4 DEF Save, SaveReturns, WorkerStops, Shape
  <2>5. CASE ClaimTooEarly(v) \/ SaveRejected(v) \/ WorkerFails(v)
    BY <1>2, <2>5 DEF ClaimTooEarly, SaveRejected, WorkerFails, Returns, Shape
  <2> QED BY <1>2, <2>1, <2>2, <2>3, <2>4, <2>5 DEF WorkerStep
<1>3. ASSUME NEW k \in Clients, Submit(k) \/ Get(k) \/ RequestStep(k) \/ RequestFails(k)
      PROVE  UNCHANGED <<wpc, wchild, wresult>>
  BY <1>3 DEF Submit, Get, RequestStep, RequestFails, CreateBatch, QueueChild, QueueConflict, LoopEnds,
     CancelLoaded, CancelChild, CancelRejected, CancelReconciled, RetryLoaded, RetryRefused,
     RequestRejected, LastReturns, workerVars
<1>4. ASSUME RecoverStep, ~StartWorkers PROVE Exit \/ UNCHANGED <<wpc, wchild, wresult>>
  BY <1>4 DEF RecoverStep, RecoverInterrupt, RecoverListOpen, RecoverReconcile, RecoverReconciled,
     RecoverRejected, RecoverList, RecoverQueue, workerVars
<1>5. CASE Start \/ Shutdown \/ UNCHANGED vars
  BY <1>5 DEF Start, Shutdown, vars, workerVars
<1> QED BY <1>1, <1>2, <1>3, <1>4, <1>5 DEF Next, Crash, RunReturns, RecoverFails

\* Children are claimed and saved by workers, which there are only once the
\* process is up.
LEMMA WorkersAreUp ==
    ASSUME Shape, Locks, NEW w \in Workers, WorkerStep(w) \/ WorkerFails(w)
    PROVE  proc = "up" /\ proc' = "up" /\ ~RecoverInterrupt /\ ~StartWorkers
<1>1. wpc[w] # "off"
  BY DEF WorkerStep, WorkerFails, ClaimNextQueued, ClaimTooEarly, HandlerEnds, HandlerSkipped, Save,
     SaveReturns, SaveRejected, WorkerStops
<1>2. proc = "up"
  BY <1>1 DEF Locks, WorkersOwn
<1>3. proc' = proc
  BY DEF WorkerStep, WorkerFails, ClaimNextQueued, ClaimTooEarly, HandlerEnds, HandlerSkipped, Save,
     SaveReturns, SaveRejected, WorkerStops, runVars
<1> QED BY <1>2, <1>3 DEF RecoverInterrupt, StartWorkers

\* A saved child has ended.
LEMMA SaveEnds ==
    ASSUME Shape, Locks, NEW w \in Workers, Save(w)
    PROVE  /\ wchild[w] \in Children /\ child[wchild[w]] = "RUNNING" /\ child'[wchild[w]] \in Terminal
           /\ wpc'[w] = "reconcile" /\ wchild'[w] = wchild[w]
           /\ tx'[w].at = "lock" /\ tx'[w].b = wchild[w][1]
<1>1. wchild[w] \in Children /\ child[wchild[w]] = "RUNNING" /\ wresult[w] \in Terminal
  BY DEF Save, Locks, WorkersOwn, Executing
<1>2. child'[wchild[w]] = wresult[w] /\ wpc'[w] = "reconcile" /\ wchild'[w] = wchild[w]
  BY <1>1 DEF Save, Shape
<1>3. wchild[w][1] \in Batches /\ batch[wchild[w][1]].status # NoTask
  BY <1>1, ChildrenArePairs DEF Locks, RowsTogether, NoTask
<1>4. tx'[w] = LockTx(wchild[w][1], TRUE)
  <2>1. tx' = Call(w, wchild[w][1], TRUE) /\ w \in Actors
    BY DEF Save, Actors
  <2> QED BY <1>3, <2>1, CallQuiet
<1> QED BY <1>1, <1>2, <1>3, <1>4, TxRecords

\* Before the workers start nothing runs or fails.
LEMMA RecoveryIsQuiet ==
    ASSUME Shape, Locks, Snapshots, FailFast, [Next]_vars,
           proc \in {"list", "reconcile", "queue"}, NEW c \in Children
    PROVE  /\ child[c] # "RUNNING" /\ child'[c] # "RUNNING"
           /\ child'[c] \in FailedStatuses => child[c] = child'[c]
<1>1. child[c] # "RUNNING"
  BY DEF FailFast, RunningOwned
<1>2. ~RecoverInterrupt
  BY DEF RecoverInterrupt
<1>3. \A w \in Workers : ~Claims(w, c) /\ ~Save(w)
  BY WorkersAreUp DEF WorkerStep, Claims
<1>4. child'[c] = child[c] \/ child'[c] \in Unstarted \cup {"CANCELLED"}
  BY <1>2, <1>3, ChildCases
<1> QED BY <1>1, <1>4 DEF Unstarted, FailedStatuses

\* Every step keeps RunningOwned.
LEMMA RunningOwnedStep ==
    ASSUME Shape, Shape', Locks, Snapshots, FailFast, [Next]_vars PROVE RunningOwned'
<1>1. ASSUME proc' \in {"list", "reconcile", "queue"}, NEW c \in Children
      PROVE  child'[c] # "RUNNING"
  <2>1. CASE RecoverInterrupt
    BY <2>1 DEF RecoverInterrupt
  <2>2. CASE proc \in {"list", "reconcile", "queue"}
    BY <2>2, RecoveryIsQuiet
  <2> QED BY <1>1, <2>1, <2>2, ProcFrom
<1>2. ASSUME proc' = "up", ~ctxDone', NEW c \in Children, child'[c] = "RUNNING"
      PROVE  \E w \in Workers : Executing(w)' /\ wchild'[w] = c
  <2>1. CASE StartWorkers
    <3>1. child'[c] = child[c] /\ proc = "queue"
      BY <2>1 DEF StartWorkers, dbVars
    <3> QED BY <1>2, <3>1 DEF FailFast, RunningOwned
  <2>2. CASE proc = "up" /\ ~ctxDone /\ ~StartWorkers
    <3>1. ASSUME NEW w \in Workers, Claims(w, c) PROVE Executing(w)' /\ wchild'[w] = c
      <4>1. ClaimNextQueued(w)
        BY <1>2, <3>1 DEF Claims, ClaimTooEarly, Returns
      <4> QED BY <3>1, <4>1 DEF Claims, ClaimNextQueued, Shape, Executing
    <3>2. CASE child[c] = "RUNNING"
      <4>1. PICK w \in Workers : Executing(w) /\ wchild[w] = c
        BY <2>2, <3>2 DEF FailFast, RunningOwned
      <4>2. ~Save(w)
        BY <1>2, <4>1, SaveEnds, StatusFacts
      <4>3. ~Exit /\ ~WorkerFails(w) /\ ~ClaimTooEarly(w) /\ ~SaveRejected(w)
        BY <1>2 DEF Exit, WorkerFails, ClaimTooEarly, SaveRejected, Returns
      <4>4. CASE WorkerStep(w)
        <5>1. HandlerEnds(w) \/ HandlerSkipped(w)
          BY <4>1, <4>2, <4>3, <4>4 DEF WorkerStep, ClaimNextQueued, SaveReturns, WorkerStops, Executing
        <5>2. wpc'[w] = "save" /\ wchild'[w] = wchild[w]
          BY <5>1 DEF HandlerEnds, HandlerSkipped, Shape
        <5> QED BY <4>1, <5>2 DEF Executing
      <4>5. CASE wpc'[w] = wpc[w] /\ wchild'[w] = wchild[w]
        BY <4>1, <4>5 DEF Executing
      <4> QED BY <2>2, <4>3, <4>4, <4>5, OwnWorker
    <3>3. CASE child[c] # "RUNNING"
      <4>1. ~RecoverInterrupt
        BY <2>2 DEF RecoverInterrupt
      <4>2. \A w \in Workers : Save(w) => wchild[w] # c
        BY <1>2, SaveEnds, StatusFacts
      <4>3. child'[c] \notin Unstarted \cup {"CANCELLED"}
        BY <1>2 DEF Unstarted
      <4>4. PICK w \in Workers : Claims(w, c)
        BY <1>2, <3>3, <4>1, <4>2, <4>3, ChildCases
      <4> QED BY <3>1, <4>4
    <3> QED BY <3>2, <3>3
  <2> QED BY <1>2, <2>1, <2>2, ProcFrom
<1> QED BY <1>1, <1>2 DEF RunningOwned

\* Reconciles read the rows after the failure they report.
LEMMA WorkerReportsStep ==
    ASSUME Shape, Shape', Locks, Snapshots, FailFast, [Next]_vars, NEW w \in Workers, NEW c \in Children,
           Reports(w, c)'
    PROVE  Ended(c)' /\ (tx'[w].at = "write" => tx'[w].seen[c] = child'[c])
<1>0. /\ wpc'[w] = "reconcile" /\ wchild'[w] = c /\ tx'[w].b = c[1] /\ tx'[w].at \in Refreshing
      /\ w \in Actors /\ w \notin Clients /\ w # Recovery
  BY ActorsAssumption DEF Reports, Actors
<1>1. ~Exit /\ ~StartWorkers /\ ~WorkerFails(w)
  <2>1. ~Exit
    BY <1>0 DEF Exit
  <2>2. ~StartWorkers
    BY <1>0 DEF StartWorkers
  <2>3. ~WorkerFails(w)
    BY <1>0 DEF WorkerFails, Returns, Shape
  <2> QED BY <2>1, <2>2, <2>3
<1>2. CASE WorkerStep(w)
  <2>1. Save(w)
    <3>1. ~ClaimNextQueued(w) /\ ~HandlerEnds(w) /\ ~HandlerSkipped(w)
      BY <1>0 DEF ClaimNextQueued, HandlerEnds, HandlerSkipped, Shape
    <3>2. ~SaveReturns(w) /\ ~WorkerStops(w)
      BY <1>0 DEF SaveReturns, WorkerStops, Shape
    <3>3. ~ClaimTooEarly(w) /\ ~SaveRejected(w)
      BY <1>0 DEF ClaimTooEarly, SaveRejected, Returns, Shape
    <3> QED BY <1>2, <3>1, <3>2, <3>3 DEF WorkerStep
  <2> QED BY <1>0, <2>1, SaveEnds DEF Ended
<1>3. CASE ~WorkerStep(w)
  <2>1. wpc[w] = "reconcile" /\ wchild[w] = c
    BY <1>0, <1>1, <1>3, OwnWorker
  <2>2. tx'[w] = tx[w] \/ TxStep(w)
    BY <1>0, <1>1, <1>3, OwnTx
  <2>3. ASSUME tx[w].b = c[1], tx[w].at \in Refreshing
        PROVE  /\ Ended(c) /\ (tx[w].at = "write" => tx[w].seen[c] = child[c])
               /\ Ended(c)' /\ child'[c] = child[c]
    <3>1. Ended(c) /\ (tx[w].at = "write" => tx[w].seen[c] = child[c])
      BY <2>1, <2>3 DEF FailFast, ReportsAreSeen, Reports
    <3>2. child'[c] = child[c]
      BY <3>1, EndsStay, StatusFacts DEF Ended
    <3> QED BY <3>1, <3>2 DEF Ended
  <2>4. CASE tx'[w] = tx[w]
    BY <1>0, <2>3, <2>4
  <2>5. CASE RefreshLock(w) \/ RefreshFix(w)
    <3>1. tx'[w].at = "items" /\ tx'[w].b = tx[w].b /\ tx[w].at \in Refreshing
      BY <1>0, <2>5, LockEffect, FixEffect DEF RefreshLock, RefreshFix, Refreshing
    <3> QED BY <1>0, <2>3, <3>1
  <2>6. CASE RefreshItems(w)
    <3>1. /\ tx'[w].b = tx[w].b /\ tx[w].at \in Refreshing
          /\ tx'[w].seen = [d \in Items(tx[w].b) |-> View(w, d)]
      BY <1>0, <2>6, ItemsEffect DEF RefreshItems, Refreshing
    <3>2. Ended(c) /\ Ended(c)' /\ child'[c] = child[c]
      BY <1>0, <2>3, <3>1
    <3>3. c \in Items(tx[w].b)
      BY <1>0, <3>1, <3>2, StatusFacts DEF Items, Ended
    <3>4. c \notin tx[w].cancels
      BY <1>0, <3>2, StatusFacts DEF Locks, CancelsLocked, Ended
    <3> QED BY <3>1, <3>2, <3>3, <3>4 DEF View
  <2>7. ~RefreshWrite(w) /\ ~SyncDirectTerminalAudits(w)
    <3>1. ~RefreshWrite(w)
      BY <1>0, WriteEffect DEF Refreshing
    <3>2. ~SyncDirectTerminalAudits(w)
      BY <1>0 DEF SyncDirectTerminalAudits, Refreshing, Shape, Transactions
    <3> QED BY <3>1, <3>2
  <2> QED BY <2>2, <2>4, <2>5, <2>6, <2>7 DEF TxStep
<1> QED BY <1>2, <1>3

\* So do those of recovery.
LEMMA RecoveryReportsStep ==
    ASSUME Shape, Shape', Locks, Snapshots, FailFast, [Next]_vars, tx'[Recovery].at # "off"
    PROVE  /\ proc' = "reconcile"
           /\ tx'[Recovery].at = "write" =>
                 \A c \in Items(tx[Recovery].b)' : child'[c] \in FailedStatuses
                     => tx'[Recovery].seen[c] = child'[c]
<1>0. Recovery \in Actors /\ Recovery \notin Workers /\ Recovery \notin Clients
  BY ActorsAssumption DEF Actors
<1>1. ~Exit
  BY <1>0, TxRecords DEF Exit
<1>2. ~RecoverReconciled
  BY <1>0, ForgetQuiet, TxRecords DEF RecoverReconciled
<1>3. CASE RecoverReconcile
  <2>1. proc' = "reconcile"
    BY <1>3 DEF RecoverReconcile
  <2>2. PICK b \in toReconcile : tx' = Call(Recovery, b, TRUE)
    BY <1>3 DEF RecoverReconcile
  <2>3. b \in Batches /\ batch[b].status # NoTask
    BY DEF Shape, Locks, TxHasBatch
  <2>4. tx'[Recovery] = LockTx(b, TRUE)
    BY <1>0, <2>2, <2>3, CallQuiet
  <2> QED BY <2>1, <2>3, <2>4, TxRecords
<1>4. ASSUME tx[Recovery].at # "off", ~RecoverReconcile
      PROVE  proc = "reconcile" /\ proc' = "reconcile"
  <2>1. proc = "reconcile"
    BY <1>4 DEF FailFast, ReportsAreSeen
  <2>2. (~Start /\ ~RecoverStep) \/ proc' = proc
    BY <1>1, <1>2, <1>4, <2>1 DEF Start, RecoverStep, RecoverInterrupt, RecoverListOpen, RecoverRejected,
       RecoverList, RecoverQueue, StartWorkers
  <2> QED BY <1>1, <2>1, <2>2, ProcCases
<1>5. CASE tx'[Recovery] = tx[Recovery] /\ ~RecoverReconcile
  <2>1. proc = "reconcile" /\ proc' = "reconcile"
    BY <1>4, <1>5
  <2>2. ASSUME tx[Recovery].at = "write", NEW c \in Items(tx[Recovery].b)', child'[c] \in FailedStatuses
        PROVE  tx[Recovery].seen[c] = child'[c]
    <3>1. PICK b \in Batches : b = tx[Recovery].b /\ batch[b].status # NoTask
      BY <1>0, <2>2 DEF Locks, TxHasBatch
    <3>2. c \in Items(b)'
      BY <1>5, <2>2, <3>1 DEF Items
    <3>3. c \in Items(b) /\ c \in Children
      BY <3>1, <3>2, ItemsStay DEF Items
    <3>4. child[c] = child'[c]
      BY <2>1, <2>2, <3>3, RecoveryIsQuiet
    <3> QED BY <2>2, <3>1, <3>3, <3>4 DEF FailFast, ReportsAreSeen
  <2> QED BY <1>5, <2>1, <2>2
<1>6. CASE TxStep(Recovery) /\ ~RecoverReconcile
  <2>1. tx[Recovery].at # "off"
    BY <1>6 DEF TxStep, RefreshLock, RefreshItems, RefreshFix, RefreshWrite, SyncDirectTerminalAudits
  <2>2. proc' = "reconcile"
    BY <1>4, <1>6, <2>1
  <2>3. CASE RefreshItems(Recovery)
    <3>1. /\ tx'[Recovery].b = tx[Recovery].b
          /\ tx'[Recovery].seen = [d \in Items(tx[Recovery].b) |-> View(Recovery, d)]
          /\ child' = child
      BY <1>0, <2>3, ItemsEffect DEF RefreshItems, dbVars
    <3>2. ASSUME NEW c \in Items(tx[Recovery].b)', child'[c] \in FailedStatuses
          PROVE  tx'[Recovery].seen[c] = child'[c]
      <4>1. c \in Items(tx[Recovery].b)
        BY <3>1 DEF Items
      <4>2. c \notin tx[Recovery].cancels
        BY <1>0, <3>1, <3>2, StatusFacts DEF Locks, CancelsLocked
      <4> QED BY <3>1, <4>1, <4>2 DEF View
    <3> QED BY <2>2, <3>2
  <2>4. CASE RefreshLock(Recovery) \/ RefreshFix(Recovery) \/ RefreshWrite(Recovery)
    BY <1>0, <2>2, <2>4, LockEffect, FixEffect, WriteEffect
  <2>5. CASE SyncDirectTerminalAudits(Recovery)
    <3>1. tx'[Recovery].at = "done"
      BY <1>0, <2>5 DEF SyncDirectTerminalAudits, Shape, Transactions
    <3> QED BY <2>2, <3>1
  <2> QED BY <1>6, <2>3, <2>4, <2>5 DEF TxStep
<1> QED BY <1>0, <1>1, <1>2, <1>3, <1>5, <1>6, OwnTx

\* Every step keeps ReportsAreSeen.
LEMMA ReportsSeenStep ==
    ASSUME Shape, Shape', Locks, Snapshots, FailFast, [Next]_vars PROVE ReportsAreSeen'
BY WorkerReportsStep, RecoveryReportsStep DEF ReportsAreSeen

\* A failure in a batch that can still start children is not new to it.
LEMMA OldFailure ==
    ASSUME Shape, Shape', Locks, Snapshots, [Next]_vars, NEW b \in Batches, ~batch'[b].continueOnFailure,
           Startable(b)', NEW c \in Items(b)', child'[c] \in FailedStatuses
    PROVE  /\ batch[b].status # NoTask /\ ~batch[b].continueOnFailure /\ Startable(b)
           /\ Items(b)' = Items(b) /\ c \in Items(b) /\ c \in Children /\ c[1] = b
<1>1. c \in Children /\ c[1] = b
  BY DEF Items
<1>2. child[c] # NoTask
  <2>1. child'[c] # "PENDING" /\ child'[c] # NoTask
    BY StatusFacts DEF Unstarted
  <2>2. Advance(c)
    BY <1>1, <2>1, StepMoves
  <2> QED BY <1>1, <2>1, <2>2, AdvanceFacts
<1>3. batch[b].status # NoTask
  BY <1>1, <1>2 DEF Locks, RowsTogether
<1>4. Items(b)' = Items(b)
  BY <1>3, ItemsStay
<1>5. Startable(b)
  <2>1. PICK d \in Items(b)' : child'[d] \in Unstarted
    BY DEF Startable
  <2>2. d \in Items(b) /\ d \in Children /\ child[d] # NoTask
    BY <1>4, <2>1 DEF Items
  <2>3. child[d] \in Unstarted
    BY <2>1, <2>2, EndsStay
  <2> QED BY <2>2, <2>3 DEF Startable
<1>6. batch'[b].continueOnFailure = batch[b].continueOnFailure
  BY <1>3, BatchCases, WriteEffect
<1> QED BY <1>1, <1>3, <1>4, <1>5, <1>6

\* The commit of a snapshot with a failure stops the batch.
LEMMA SeenStops ==
    ASSUME Shape, Shape', Locks, Snapshots, BatchRowsTrue, [Next]_vars, NEW a \in Actors, RefreshWrite(a),
           NEW b \in Batches, tx[a].b = b, ~batch'[b].continueOnFailure,
           NEW c \in Items(b), tx[a].seen[c] \in FailedStatuses
    PROVE  ~Startable(b)'
<1>1. CountersAre(batch'[b], tx[a].seen)
  BY WriteEffect
<1>2. DOMAIN tx[a].seen = Items(b) /\ IsFiniteSet(DOMAIN tx[a].seen)
  BY WriteKnows DEF RefreshWrite
<1>3. batch'[b].failed > 0
  BY <1>1, <1>2, CountFacts DEF CountersAre
<1> QED BY <1>3, StopsStep DEF Startable

\* A refresh goes on until it commits.
LEMMA RefreshGoesOn ==
    ASSUME Shape, Locks, NEW a \in Actors, TxStep(a), tx[a].at \in Refreshing
    PROVE  (tx'[a].b = tx[a].b /\ tx'[a].at \in Refreshing) \/ RefreshWrite(a)
<1>1. CASE RefreshLock(a)
  BY <1>1, LockEffect DEF Refreshing
<1>2. CASE RefreshItems(a)
  BY <1>2, ItemsEffect DEF Refreshing
<1>3. CASE RefreshFix(a)
  BY <1>3, FixEffect DEF Refreshing
<1>4. ~SyncDirectTerminalAudits(a)
  BY DEF SyncDirectTerminalAudits, Refreshing
<1> QED BY <1>1, <1>2, <1>3, <1>4 DEF TxStep

\* The batches left to reconcile change with the recovery only.
LEMMA ListKept ==
    ASSUME Shape, Locks, Snapshots, [Next]_vars
    PROVE  toReconcile' = toReconcile \/ Exit \/ RecoverListOpen \/ RecoverReconcile
<1>1. ASSUME RecoverStep, ~RecoverListOpen, ~RecoverReconcile PROVE Exit \/ toReconcile' = toReconcile
  BY <1>1 DEF RecoverStep, RecoverInterrupt, RecoverReconciled, RecoverRejected, RecoverList,
     RecoverQueue, StartWorkers, runVars
<1>2. ASSUME NEW a \in Actors, TxStep(a) PROVE toReconcile' = toReconcile
  BY <1>2, RefreshLeaves, SyncLeaves DEF TxStep
<1>3. ASSUME NEW w \in Workers, WorkerStep(w) \/ WorkerFails(w) PROVE toReconcile' = toReconcile
  BY <1>3 DEF WorkerStep, WorkerFails, ClaimNextQueued, ClaimTooEarly, HandlerEnds, HandlerSkipped,
     Save, SaveReturns, SaveRejected, WorkerStops, runVars
<1>4. ASSUME NEW k \in Clients, Submit(k) \/ Get(k) \/ RequestStep(k) \/ RequestFails(k)
      PROVE  toReconcile' = toReconcile
  BY <1>4 DEF Submit, Get, RequestStep, RequestFails, CreateBatch, QueueChild, QueueConflict, LoopEnds,
     CancelLoaded, CancelChild, CancelRejected, CancelReconciled, RetryLoaded, RetryRefused,
     RequestRejected, LastReturns, runVars
<1>5. CASE Start \/ Shutdown \/ UNCHANGED vars
  BY <1>5 DEF Start, Shutdown, vars
<1> QED BY <1>1, <1>2, <1>3, <1>4, <1>5 DEF Next, Crash, RunReturns, RecoverFails

\* Recovery goes to every batch with a failure and children left to start.
LEMMA RecoveryReaches ==
    ASSUME Shape, Shape', Locks, Snapshots, BatchRowsTrue, FailFast, [Next]_vars, NEW b \in Batches,
           ~batch'[b].continueOnFailure, Startable(b)', NEW c \in Items(b)',
           child'[c] \in FailedStatuses, proc' = "reconcile"
    PROVE  b \in toReconcile' \/ (tx'[Recovery].b = b /\ tx'[Recovery].at \in Refreshing)
<1>0. Recovery \in Actors /\ Recovery \notin Workers /\ Recovery \notin Clients
  BY ActorsAssumption DEF Actors
<1>1. /\ batch[b].status # NoTask /\ ~batch[b].continueOnFailure /\ Startable(b)
      /\ Items(b)' = Items(b) /\ c \in Items(b) /\ c \in Children /\ c[1] = b
  BY OldFailure
<1>2. CASE RecoverListOpen
  <2>1. ~Closed(b)
    BY <1>1, StatusFacts DEF BatchRowsTrue, ClosedIsFinal, Startable, Ended
  <2> QED BY <1>1, <1>2, <2>1 DEF RecoverListOpen, Closed
<1>3. CASE proc = "reconcile" /\ ~RecoverListOpen
  <2>1. child[c] \in FailedStatuses
    BY <1>1, <1>3, RecoveryIsQuiet
  <2>2. b \in toReconcile \/ (tx[Recovery].b = b /\ tx[Recovery].at \in Refreshing)
    <3>1. Failing(b)
      BY <1>1, <2>1 DEF Failing
    <3> QED BY <1>1, <1>3, <3>1 DEF FailFast, FailuresReported
  <2>3. ~Exit
    BY DEF Exit
  <2>4. CASE RecoverReconcile
    <3>1. PICK d \in toReconcile : toReconcile' = toReconcile \ {d} /\ tx' = Call(Recovery, d, TRUE)
      BY <2>4 DEF RecoverReconcile
    <3>2. tx[Recovery].at = "off"
      BY <2>4 DEF RecoverReconcile
    <3>3. b \in toReconcile
      BY <2>2, <3>2 DEF Refreshing
    <3>4. CASE d = b
      <4>1. tx'[Recovery] = LockTx(b, TRUE)
        BY <1>0, <1>1, <3>1, <3>4, CallQuiet
      <4> QED BY <4>1, TxRecords DEF Refreshing
    <3>5. CASE d # b
      BY <3>1, <3>3, <3>5
    <3> QED BY <3>4, <3>5
  <2>5. CASE b \in toReconcile /\ ~RecoverReconcile
    BY <1>3, <2>3, <2>5, ListKept
  <2>6. CASE tx[Recovery].b = b /\ tx[Recovery].at \in Refreshing /\ ~RecoverReconcile
    <3>1. ~RecoverReconciled
      BY <2>6 DEF RecoverReconciled, Returned, Refreshing
    <3>2. tx'[Recovery] = tx[Recovery] \/ TxStep(Recovery)
      BY <1>0, <2>3, <2>6, <3>1, OwnTx
    <3>3. ~RefreshWrite(Recovery)
      <4>1. SUFFICES ASSUME RefreshWrite(Recovery) PROVE FALSE
        OBVIOUS
      <4>2. tx[Recovery].at = "write"
        BY <4>1 DEF RefreshWrite
      <4>3. c \in Items(tx[Recovery].b)
        BY <1>1, <2>6
      <4>4. tx[Recovery].seen[c] = child[c]
        BY <2>1, <4>2, <4>3 DEF FailFast, ReportsAreSeen
      <4> QED BY <1>0, <1>1, <2>1, <2>6, <4>1, <4>4, SeenStops
    <3> QED BY <1>0, <2>6, <3>2, <3>3, RefreshGoesOn
  <2> QED BY <2>2, <2>4, <2>5, <2>6
<1> QED BY <1>2, <1>3, ProcFrom

\* Nothing that can start has a failure next to it once recovery is over.
LEMMA RecoveryStops ==
    ASSUME Shape, Shape', Locks, Snapshots, FailFast, [Next]_vars, NEW b \in Batches,
           ~batch'[b].continueOnFailure, Startable(b)', proc' = "queue"
    PROVE  ~Failing(b)'
<1>1. SUFFICES ASSUME NEW c \in Items(b)', child'[c] \in FailedStatuses PROVE FALSE
  BY DEF Failing
<1>2. /\ ~batch[b].continueOnFailure /\ Startable(b) /\ c \in Items(b) /\ c \in Children
  BY <1>1, OldFailure
<1>3. proc = "queue" \/ RecoverList
  BY ProcFrom
<1>4. proc \in {"reconcile", "queue"}
  BY <1>3 DEF RecoverList
<1>5. child[c] \in FailedStatuses
  BY <1>1, <1>2, <1>4, RecoveryIsQuiet
<1>6. Failing(b)
  BY <1>2, <1>5 DEF Failing
<1>7. CASE RecoverList
  <2>1. proc = "reconcile" /\ toReconcile = {} /\ tx[Recovery].at = "off"
    BY <1>7 DEF RecoverList
  <2> QED BY <1>2, <1>6, <2>1 DEF FailFast, FailuresReported, Refreshing
<1> QED BY <1>2, <1>3, <1>6, <1>7 DEF FailFast, FailuresReported

\* The worker of a failed child has still to commit its reconcile, while
\* children of the batch can be claimed.
LEMMA WorkersReport ==
    ASSUME Shape, Shape', Locks, Snapshots, BatchRowsTrue, FailFast, [Next]_vars, NEW b \in Batches,
           ~batch'[b].continueOnFailure, Startable(b)', NEW c \in Items(b)',
           child'[c] \in FailedStatuses, proc' = "up", ~ctxDone'
    PROVE  \E w \in Workers : Reports(w, c)'
<1>1. /\ ~batch[b].continueOnFailure /\ Startable(b) /\ c \in Items(b) /\ c \in Children /\ c[1] = b
  BY OldFailure
<1>2. ~StartWorkers
  <2>1. SUFFICES ASSUME StartWorkers PROVE FALSE
    OBVIOUS
  <2>2. proc = "queue" /\ child' = child
    BY <2>1 DEF StartWorkers, dbVars
  <2>3. Failing(b)
    BY <1>1, <2>2 DEF Failing
  <2> QED BY <1>1, <2>2, <2>3 DEF FailFast, FailuresReported
<1>3. proc = "up" /\ ~ctxDone /\ ~Exit /\ ~RecoverInterrupt
  BY <1>2, ProcFrom DEF Exit, RecoverInterrupt
<1>4. CASE child[c] \in FailedStatuses
  <2>1. PICK w \in Workers : Reports(w, c)
    BY <1>1, <1>3, <1>4 DEF FailFast, FailuresReported
  <2>2. /\ wpc[w] = "reconcile" /\ wchild[w] = c /\ tx[w].b = b /\ tx[w].at \in Refreshing
        /\ w \in Actors /\ w \notin Clients /\ w # Recovery
    BY <1>1, <2>1, ActorsAssumption DEF Reports, Actors
  <2>3. ~WorkerFails(w) /\ ~SaveRejected(w)
    BY DEF WorkerFails, SaveRejected, Returns
  <2>4. ~WorkerStep(w)
    BY <2>2, <2>3 DEF WorkerStep, ClaimNextQueued, ClaimTooEarly, HandlerEnds, HandlerSkipped, Save,
       SaveReturns, WorkerStops, Returned, Refreshing
  <2>5. wpc'[w] = wpc[w] /\ wchild'[w] = wchild[w]
    BY <1>2, <1>3, <2>3, <2>4, OwnWorker
  <2>6. tx'[w] = tx[w] \/ TxStep(w)
    BY <1>3, <2>2, <2>3, <2>4, OwnTx
  <2>7. ~RefreshWrite(w)
    <3>1. SUFFICES ASSUME RefreshWrite(w) PROVE FALSE
      OBVIOUS
    <3>2. tx[w].at = "write"
      BY <3>1 DEF RefreshWrite
    <3>3. tx[w].seen[c] = child[c]
      BY <1>1, <2>1, <3>2 DEF FailFast, ReportsAreSeen
    <3> QED BY <1>1, <1>4, <2>2, <3>1, <3>3, SeenStops
  <2>8. tx'[w].b = b /\ tx'[w].at \in Refreshing
    BY <2>2, <2>6, <2>7, RefreshGoesOn
  <2> QED BY <1>1, <2>2, <2>5, <2>8 DEF Reports
<1>5. CASE child[c] \notin FailedStatuses
  <2>1. child'[c] # child[c] /\ child'[c] \notin Unstarted \cup {"CANCELLED"} /\ child'[c] # "RUNNING"
    BY <1>5 DEF FailedStatuses, Unstarted
  <2>2. PICK w \in Workers : Save(w) /\ wchild[w] = c
    <3>1. \A w \in Workers : ~Claims(w, c)
      BY <1>1, <2>1 DEF Claims, Shape
    <3> QED BY <1>1, <1>3, <2>1, <3>1, ChildCases
  <2>3. wpc'[w] = "reconcile" /\ wchild'[w] = c /\ tx'[w].at = "lock" /\ tx'[w].b = c[1]
    BY <2>2, SaveEnds
  <2> QED BY <2>3 DEF Reports, Refreshing
<1> QED BY <1>4, <1>5

\* Every step keeps FailuresReported.
LEMMA FailuresReportedStep ==
    ASSUME Shape, Shape', Locks, Snapshots, BatchRowsTrue, FailFast, [Next]_vars
    PROVE  FailuresReported'
<1>1. SUFFICES ASSUME NEW b \in Batches, ~batch'[b].continueOnFailure, Startable(b)'
               PROVE  /\ proc' = "reconcile" /\ Failing(b)' =>
                            \/ b \in toReconcile'
                            \/ tx'[Recovery].b = b /\ tx'[Recovery].at \in Refreshing
                      /\ proc' = "queue" => ~Failing(b)'
                      /\ proc' = "up" /\ ~ctxDone' =>
                            \A c \in Items(b)' : child'[c] \in FailedStatuses
                                => \E w \in Workers : Reports(w, c)'
  BY DEF FailuresReported
<1>2. ASSUME proc' = "reconcile", Failing(b)'
      PROVE  b \in toReconcile' \/ (tx'[Recovery].b = b /\ tx'[Recovery].at \in Refreshing)
  <2>1. PICK c \in Items(b)' : child'[c] \in FailedStatuses
    BY <1>2 DEF Failing
  <2> QED BY <1>1, <1>2, <2>1, RecoveryReaches
<1> QED BY <1>1, <1>2, RecoveryStops, WorkersReport

\* A child is claimed only while every child at risk has a worker of its own.
LEMMA ClaimIsBounded ==
    ASSUME Shape, Shape', Locks, Snapshots, FailFast, [Next]_vars, NEW b \in Batches,
           ~batch[b].continueOnFailure, Items(b)' = Items(b),
           NEW w \in Workers, NEW c \in Items(b), Claims(w, c)
    PROVE  AtRisk(b)' \subseteq {IF v = w THEN c ELSE wchild[v] : v \in Workers}
<1>1. SUFFICES ASSUME NEW d \in AtRisk(b)', d # c PROVE \E v \in Workers \ {w} : wchild[v] = d
  OBVIOUS
<1>2. d \in Items(b) /\ d \in Children /\ child'[d] \in FailedStatuses \cup {"RUNNING"}
  BY <1>1 DEF AtRisk, Items
<1>3. wpc[w] = "idle" /\ ~ctxDone /\ proc = "up"
  <2>1. wpc[w] = "idle" /\ ~ctxDone
    BY DEF Claims, ClaimNextQueued, ClaimTooEarly
  <2> QED BY <2>1, WorkersAreUp DEF WorkerStep, Claims
<1>4. child'[d] = child[d]
  BY <1>1, <1>2 DEF Claims, Shape
<1>5. CASE child[d] = "RUNNING"
  <2>1. PICK v \in Workers : Executing(v) /\ wchild[v] = d
    BY <1>2, <1>3, <1>5 DEF FailFast, RunningOwned
  <2>2. v # w
    BY <1>3, <2>1 DEF Executing
  <2> QED BY <2>1, <2>2
<1>6. CASE child[d] \in FailedStatuses
  <2>1. Startable(b)
    BY DEF Startable, Unstarted, Claims
  <2>2. PICK v \in Workers : Reports(v, d)
    BY <1>2, <1>3, <1>6, <2>1 DEF FailFast, FailuresReported
  <2>3. v # w /\ wchild[v] = d
    BY <1>3, <2>2 DEF Reports
  <2> QED BY <2>3
<1> QED BY <1>2, <1>4, <1>5, <1>6

\* Without a claim no further child is at risk.
LEMMA RiskStays ==
    ASSUME Shape, Shape', Locks, Snapshots, [Next]_vars, NEW b \in Batches, batch[b].status # NoTask,
           \A w \in Workers : \A c \in Items(b) : ~Claims(w, c)
    PROVE  AtRisk(b)' \subseteq AtRisk(b)
<1>1. SUFFICES ASSUME NEW d \in AtRisk(b)' PROVE d \in AtRisk(b)
  OBVIOUS
<1>2. d \in Items(b)' /\ child'[d] \in FailedStatuses \cup {"RUNNING"}
  BY <1>1 DEF AtRisk
<1>3. d \in Items(b) /\ d \in Children /\ d[1] = b /\ Advance(d)
  BY <1>2, ItemsStay DEF Items
<1>4. child[d] \in FailedStatuses \cup {"RUNNING", "QUEUED"}
  BY <1>2, <1>3, AdvanceFacts
<1>5. child[d] # "QUEUED"
  <2>1. SUFFICES ASSUME child[d] = "QUEUED" PROVE FALSE
    OBVIOUS
  <2>2. child'[d] = "RUNNING"
    <3>1. child[d] \notin FailedStatuses \cup {"RUNNING"}
      BY <2>1 DEF FailedStatuses
    <3> QED BY <1>2, <1>3, <3>1, AdvanceFacts
  <2>3. ~RecoverInterrupt
    <3>1. SUFFICES ASSUME RecoverInterrupt PROVE FALSE
      OBVIOUS
    <3>2. child'[d] = child[d]
      BY <1>3, <2>1, <3>1 DEF RecoverInterrupt
    <3> QED BY <2>1, <2>2, <3>2
  <2>4. \A w \in Workers : Save(w) => wchild[w] # d
    BY <2>1, SaveEnds
  <2>5. child'[d] # child[d] /\ child'[d] \notin Unstarted \cup {"CANCELLED"}
    BY <2>1, <2>2 DEF Unstarted
  <2>6. PICK w \in Workers : Claims(w, d)
    BY <1>3, <2>3, <2>4, <2>5, ChildCases
  <2> QED BY <1>3, <2>1, <2>6
<1> QED BY <1>3, <1>4, <1>5 DEF AtRisk

\* Every step keeps RiskBound.
LEMMA RiskBoundStep ==
    ASSUME Shape, Shape', Locks, Snapshots, FailFast, [Next]_vars PROVE RiskBound'
<1>1. SUFFICES ASSUME NEW b \in Batches, ~batch'[b].continueOnFailure
               PROVE  Cardinality(AtRisk(b)') <= Cardinality(Workers)
  BY DEF RiskBound
<1>2. IsFiniteSet(Workers) /\ Cardinality(Workers) \in Nat
  BY ActorsAssumption, FS_CardinalityType
<1>3. CASE batch[b].status = NoTask
  <2>1. ASSUME NEW c \in AtRisk(b)' PROVE FALSE
    <3>1. c \in Children /\ c[1] = b /\ child'[c] \in FailedStatuses \cup {"RUNNING"}
      BY <2>1 DEF AtRisk, Items
    <3>2. child[c] = NoTask
      BY <1>3, <3>1 DEF Locks, RowsTogether
    <3>3. child'[c] \in {NoTask, "PENDING"}
      BY <3>1, <3>2, StepMoves, AdvanceFacts
    <3> QED BY <3>1, <3>3 DEF FailedStatuses, NoTask
  <2>2. AtRisk(b)' = {}
    BY <2>1
  <2>3. Cardinality(AtRisk(b)') = 0
    BY <2>2, FS_EmptySet
  <2> QED BY <1>2, <2>3
<1>4. CASE batch[b].status # NoTask
  <2>1. Items(b)' = Items(b)
    BY <1>4, ItemsStay
  <2>2. ~batch[b].continueOnFailure
    BY <1>1, <1>4, BatchCases, WriteEffect
  <2>3. CASE \E w \in Workers : \E c \in Items(b) : Claims(w, c)
    <3>0. PICK w \in Workers, c \in Items(b) : Claims(w, c)
      BY <2>3
    <3> DEFINE f == [v \in Workers |-> IF v = w THEN c ELSE wchild[v]]
               W == {f[v] : v \in Workers}
    <3>1. AtRisk(b)' \in SUBSET W
      BY <2>1, <2>2, <3>0, ClaimIsBounded
    <3>2. IsFiniteSet(W) /\ Cardinality(W) <= Cardinality(Workers)
      <4>1. f \in Surjection(Workers, W)
        BY DEF Surjection
      <4> HIDE DEF f, W
      <4> QED BY <1>2, <4>1, FS_Surjection
    <3> HIDE DEF W
    <3>3. IsFiniteSet(AtRisk(b)') /\ Cardinality(AtRisk(b)') <= Cardinality(W)
      BY <3>1, <3>2, FS_Subset
    <3>4. Cardinality(W) \in Nat /\ Cardinality(AtRisk(b)') \in Nat
      BY <3>2, <3>3, FS_CardinalityType
    <3> QED BY <1>2, <3>2, <3>3, <3>4
  <2>4. CASE \A w \in Workers : \A c \in Items(b) : ~Claims(w, c)
    <3>1. AtRisk(b)' \in SUBSET AtRisk(b)
      BY <1>4, <2>4, RiskStays
    <3>2. IsFiniteSet(AtRisk(b))
      <4>1. IsFiniteSet(Items(b)) /\ AtRisk(b) \in SUBSET Items(b)
        BY RowFacts DEF AtRisk
      <4> QED BY <4>1, FS_Subset
    <3>3. IsFiniteSet(AtRisk(b)') /\ Cardinality(AtRisk(b)') <= Cardinality(AtRisk(b))
      BY <3>1, <3>2, FS_Subset
    <3>4. Cardinality(AtRisk(b)) \in Nat /\ Cardinality(AtRisk(b)') \in Nat
      BY <3>2, <3>3, FS_CardinalityType
    <3>5. Cardinality(AtRisk(b)) <= Cardinality(Workers)
      BY <2>2 DEF FailFast, RiskBound
    <3> QED BY <1>2, <3>3, <3>4, <3>5
  <2> QED BY <2>3, <2>4
<1> QED BY <1>3, <1>4

\* Every step keeps FailFast.
LEMMA FailFastStep ==
    ASSUME Shape, Shape', Locks, Snapshots, BatchRowsTrue, FailFast, [Next]_vars PROVE FailFast'
BY RunningOwnedStep, ReportsSeenStep, FailuresReportedStep, RiskBoundStep DEF FailFast

-----------------------------------------------------------------------------
(***************************************************************************)
(* Rows that cannot be read                                                *)
(***************************************************************************)

\* What makes a row that cannot be read, and what may.
LEMMA RowCases ==
    ASSUME Shape, Locks, Snapshots, [Next]_vars
    PROVE  /\ \A c \in unreadable' \ unreadable :
                 \/ RecoverInterrupt /\ c \in recentMarks
                 \/ child[c] = "QUEUED" /\ c \in Children /\ proc = "up"
           /\ \/ recentMarks' = {}
              \/ /\ proc' = proc \/ Start
                 /\ \A c \in recentMarks' \ recentMarks :
                       c \in Children /\ child[c] = "RUNNING" /\ proc = "interrupt"
              \/ recentMarks' = recentMarks /\ proc # "interrupt"
<1> DEFINE Same == UNCHANGED <<unreadable, recentMarks>> /\ (proc' = proc \/ Start)
           Unread == \A c \in unreadable' \ unreadable :
                        \/ RecoverInterrupt /\ c \in recentMarks
                        \/ child[c] = "QUEUED" /\ c \in Children /\ proc = "up"
           Marks == \/ recentMarks' = {}
                    \/ /\ proc' = proc \/ Start
                       /\ \A c \in recentMarks' \ recentMarks :
                             c \in Children /\ child[c] = "RUNNING" /\ proc = "interrupt"
                    \/ recentMarks' = recentMarks /\ proc # "interrupt"
<1>1. ASSUME NEW a \in Actors, TxStep(a) PROVE Same
  BY <1>1, RefreshLeaves, SyncLeaves DEF TxStep
<1>2. ASSUME NEW w \in Workers, WorkerStep(w) \/ WorkerFails(w) PROVE Unread /\ Marks
  <2>1. CASE ClaimTooEarly(w)
    <3>1. proc = "up"
      BY <2>1, WorkersAreUp DEF WorkerStep
    <3> QED BY <2>1, <3>1 DEF ClaimTooEarly
  <2>2. CASE ~ClaimTooEarly(w)
    BY <1>2, <2>2 DEF WorkerStep, WorkerFails, ClaimNextQueued, HandlerEnds, HandlerSkipped, Save,
       SaveReturns, SaveRejected, WorkerStops, dbVars, runVars
  <2> QED BY <2>1, <2>2
<1>3. ASSUME NEW k \in Clients, Submit(k) \/ Get(k) \/ RequestStep(k) \/ RequestFails(k)
      PROVE  Unread /\ Marks
  <2>1. CASE CancelChild(k) \/ CancelRejected(k)
    <3>1. /\ UNCHANGED <<unreadable, proc>>
          /\ \A c \in recentMarks' \ recentMarks : child[c] = "RUNNING" /\ proc = "interrupt"
      BY <2>1, MarkEffect DEF CancelChild, CancelRejected
    <3>2. recentMarks' \subseteq Children
      BY <2>1, MarkEffect DEF CancelChild, CancelRejected
    <3> QED BY <3>1, <3>2
  <2>2. CASE ~CancelChild(k) /\ ~CancelRejected(k)
    <3>1. Same
      BY <1>3, <2>2 DEF Submit, Get, RequestStep, RequestFails, CreateBatch, QueueChild, QueueConflict,
         LoopEnds, CancelLoaded, CancelReconciled, RetryLoaded, RetryRefused, RequestRejected,
         LastReturns, dbVars, runVars
    <3> QED BY <3>1
  <2> QED BY <2>1, <2>2
<1>4. ASSUME Exit PROVE Unread /\ Marks
  BY <1>4 DEF Exit, dbVars
<1>5. CASE RecoverStep
  <2>1. CASE RecoverInterrupt
    BY <2>1 DEF RecoverInterrupt
  <2>2. CASE RecoverQueue \/ RecoverRejected
    BY <1>4, <2>2 DEF RecoverQueue, RecoverRejected
  <2>3. CASE RecoverListOpen \/ RecoverReconcile \/ RecoverReconciled \/ RecoverList \/ StartWorkers
    BY <2>3 DEF RecoverListOpen, RecoverReconcile, RecoverReconciled, Returned, RecoverList, StartWorkers,
       dbVars, runVars
  <2> QED BY <1>5, <2>1, <2>2, <2>3 DEF RecoverStep
<1>6. CASE Start \/ Shutdown \/ UNCHANGED vars
  BY <1>6 DEF Start, Shutdown, vars, dbVars
<1> QED BY <1>1, <1>2, <1>3, <1>4, <1>5, <1>6 DEF Next, Crash, RunReturns, RecoverFails

\* Every step keeps Readable.
LEMMA ReadableStep ==
    ASSUME Shape, Shape', Locks, Snapshots, BatchRowsTrue, Readable, [Next]_vars PROVE Readable'
<1>1. proc' # "interrupt" => recentMarks' = {}
  BY RowCases DEF Readable, Start
<1>2. ASSUME NEW c \in recentMarks' PROVE child'[c] = "RUNNING"
  <2>1. proc' = "interrupt" /\ (proc = "interrupt" \/ Start)
    BY <1>1, <1>2, RowCases DEF Readable
  <2>2. proc = "interrupt"
    BY <1>2, <2>1, RowCases DEF Readable, Start
  <2>3. c \in Children /\ child[c] = "RUNNING"
    BY <1>2, RowCases DEF Readable, Shape
  <2>4. \A w \in Workers : ~Save(w) /\ ~Claims(w, c)
    BY <2>2, WorkersAreUp DEF WorkerStep, Claims
  <2>5. ~RecoverInterrupt
    BY <2>1 DEF RecoverInterrupt
  <2>6. Advance(c)
    BY <2>3, EndsStay DEF NoTask
  <2> QED BY <2>3, <2>4, <2>5, <2>6, ChildCases, AdvanceFacts DEF Unstarted
<1>3. ASSUME NEW b \in Batches, Closed(b)', NEW c \in unreadable', c[1] = b PROVE FALSE
  <2>1. c \in Children
    BY DEF Shape
  <2>2. ASSUME Closed(b) PROVE FALSE
    <3>1. c \notin unreadable
      BY <1>3, <2>2 DEF Readable
    <3>2. child[c] \in {"RUNNING", "QUEUED"}
      BY <3>1, <1>3, RowCases DEF Readable
    <3>3. c \in Items(b)
      BY <1>3, <2>1, <3>2 DEF Items, NoTask
    <3> QED BY <2>2, <3>2, <3>3 DEF BatchRowsTrue, ClosedIsFinal, Ended, Terminal
  <2>3. ASSUME ~Closed(b) PROVE FALSE
    <3>1. batch'[b] # batch[b] /\ batch'[b].status # "PENDING"
      BY <1>3, <2>3 DEF Closed, Terminal
    <3>2. PICK a \in Actors : RefreshWrite(a) /\ tx[a].b = b
      BY <3>1, BatchCases
    <3>3. tx[a].at = "write" /\ ~Rejected(a) /\ unreadable' = unreadable
      BY <3>2 DEF RefreshWrite
    <3> QED BY <1>3, <3>2, <3>3 DEF Rejected
  <2> QED BY <2>2, <2>3
<1> QED BY <1>1, <1>2, <1>3 DEF Readable

-----------------------------------------------------------------------------
(***************************************************************************)
(* The theorems                                                            *)
(***************************************************************************)
\* Every step keeps the inductive invariant.
LEMMA StepIInv == ASSUME IInv, [Next]_vars PROVE IInv'
<1> USE DEF IInv
<1>1. Shape'
  BY ShapeStep
<1>2. Locks' /\ Snapshots'
  BY LocksStep, SnapshotsStep
<1>3. BatchRowsTrue'
  BY <1>1, BatchRowsStep
<1>4. RequestsKeep'
  BY <1>1, RequestsKeepStep
<1>5. FailFast'
  BY <1>1, FailFastStep
<1>6. Readable'
  BY <1>1, ReadableStep
<1> QED BY <1>1, <1>2, <1>3, <1>4, <1>5, <1>6

\* Whatever workers, requests, crashes and recoveries do, the locks, the
\* snapshots and the rows of batches keep to IInv.
THEOREM Inductive == Spec => []IInv
BY InitIInv, StepIInv, PTL DEF Spec

\* The counters of a row are at most the number of its children.
LEMMA CountersBounded ==
    ASSUME IInv, NEW b \in Batches
    PROVE  batch[b].success + batch[b].failed + batch[b].cancelled <= Cardinality(Items(b))
<1> DEFINE f == Current(b)
           s == batch[b].success
           e == batch[b].failed
           x == batch[b].cancelled
           p == CountIn(f, {"SUCCESS"})
           q == CountIn(f, FailedStatuses)
           r == CountIn(f, {"CANCELLED"})
           n == Cardinality(Items(b))
<1>1. DOMAIN f = Items(b) /\ IsFiniteSet(DOMAIN f)
  BY RowFacts DEF IInv
<1>2. s <= p /\ e <= q /\ x <= r
  BY DEF IInv, BatchRowsTrue, CountsAreReached, CountersWithin
<1>3. s \in Nat /\ e \in Nat /\ x \in Nat
  BY RowFacts DEF IInv
<1>4. p \in Nat /\ q \in Nat /\ r \in Nat
  BY <1>1, CountFacts
<1>5. n \in Nat
  BY <1>1, FS_CardinalityType
<1>6. p + q + r <= n
  BY <1>1, CountSplits
<1>7. SUFFICES s + e + x <= n
  OBVIOUS
<1> HIDE DEF s, e, x, p, q, r, n
<1> QED BY <1>2, <1>3, <1>4, <1>5, <1>6

\* The state has its shape: in particular a worker executes a child that is
\* RUNNING, and the counters of batch_tasks never exceed its children.
THEOREM TypeCorrect == Spec => []TypeOK
<1>1. ASSUME IInv PROVE TypeOK
  <2>1. ASSUME NEW b \in Batches
        PROVE  /\ batch[b].status \in Statuses \cup {NoTask}
               /\ batch[b].success + batch[b].failed + batch[b].cancelled <= Cardinality(Items(b))
    BY <1>1, CountersBounded DEF IInv, Shape, BatchRows
  <2>2. \A w \in Workers : wpc[w] \in {"run", "save"} => child[wchild[w]] = "RUNNING"
    BY <1>1 DEF IInv, Locks, WorkersOwn, Executing
  <2> QED BY <1>1, <2>1, <2>2 DEF TypeOK, IInv, Shape
<1> QED BY <1>1, Inductive, PTL

\* A closed batch is the truth about its children, for good: no refresh, on a
\* snapshot of whatever age, closes a batch early or leaves it wrong.
THEOREM ClosedBatchesAreTrue == Spec => []ClosedIsTrue
<1>1. ASSUME IInv PROVE ClosedIsTrue
  <2>1. SUFFICES ASSUME NEW b \in Batches, Closed(b)
                 PROVE  /\ \A c \in Items(b) : Ended(c) /\ c \notin unreadable
                        /\ batch[b].status = AggregateStatus(Current(b))
                        /\ batch[b].success + batch[b].failed + batch[b].cancelled = Cardinality(Items(b))
                        /\ (batch[b].status = "SUCCESS") = (batch[b].success = Cardinality(Items(b)))
                        /\ (batch[b].status = "CANCELLED") = (batch[b].cancelled = Cardinality(Items(b)))
                        /\ parent[b] = batch[b].status
    BY DEF ClosedIsTrue
  <2>2. /\ \A c \in Items(b) : Ended(c)
        /\ batch[b].status = AggregateStatus(Current(b))
        /\ CountersAre(batch[b], Current(b))
        /\ parent[b] = batch[b].status
    BY <1>1, <2>1 DEF IInv, BatchRowsTrue, ClosedIsFinal
  <2>10. \A c \in Items(b) : c \notin unreadable
    BY <1>1, <2>1 DEF IInv, Readable, Items
  <2>3. /\ DOMAIN Current(b) = Items(b) /\ IsFiniteSet(DOMAIN Current(b))
        /\ \A c \in Items(b) : Current(b)[c] = child[c] /\ c \in Children
    BY <1>1, RowFacts DEF IInv
  <2>4. DOMAIN Current(b) # {}
    <3>1. batch[b].status # NoTask
      BY <2>1, StatusFacts DEF Closed
    <3> QED BY <1>1, <2>3, <3>1 DEF IInv, Locks, RowsTogether, Items
  <2>5. /\ \A c \in DOMAIN Current(b) : Current(b)[c] \in Terminal
        /\ \A c \in DOMAIN Current(b) : Current(b)[c] \in Statuses
    BY <2>2, <2>3, StatusFacts DEF Ended
  <2>6. /\ batch[b].success = CountIn(Current(b), {"SUCCESS"})
        /\ batch[b].failed = CountIn(Current(b), FailedStatuses)
        /\ batch[b].cancelled = CountIn(Current(b), {"CANCELLED"})
    BY <2>2 DEF CountersAre
  <2>7. batch[b].success + batch[b].failed + batch[b].cancelled = Cardinality(Items(b))
    BY <2>3, <2>5, <2>6, CountSplits
  <2>8. batch[b].status = "SUCCESS" <=> batch[b].success = Cardinality(Items(b))
    <3>1. AggregateStatus(Current(b)) = "SUCCESS" <=> \A c \in DOMAIN Current(b) : Current(b)[c] = "SUCCESS"
      BY <2>4, <2>5, AggregateFacts
    <3>2. CountIn(Current(b), {"SUCCESS"}) = Cardinality(DOMAIN Current(b))
            <=> \A c \in DOMAIN Current(b) : Current(b)[c] \in {"SUCCESS"}
      BY <2>3, CountFacts
    <3> QED BY <2>2, <2>3, <2>6, <3>1, <3>2
  <2>9. batch[b].status = "CANCELLED" <=> batch[b].cancelled = Cardinality(Items(b))
    <3>1. AggregateStatus(Current(b)) = "CANCELLED"
            <=> \A c \in DOMAIN Current(b) : Current(b)[c] = "CANCELLED"
      BY <2>4, <2>5, AggregateFacts
    <3>2. CountIn(Current(b), {"CANCELLED"}) = Cardinality(DOMAIN Current(b))
            <=> \A c \in DOMAIN Current(b) : Current(b)[c] \in {"CANCELLED"}
      BY <2>3, CountFacts
    <3> QED BY <2>2, <2>3, <2>6, <3>1, <3>2
  <2> QED BY <2>2, <2>7, <2>8, <2>9, <2>10
<1> QED BY <1>1, Inductive, PTL

\* The progress of a batch never goes back, and a closed batch stays as it is.
THEOREM ProgressMonotone == Spec => ProgressIsMonotone
<1>1. ASSUME IInv, [Next]_vars, NEW b \in Batches
      PROVE  /\ batch'[b].success >= batch[b].success
             /\ batch'[b].failed >= batch[b].failed
             /\ batch'[b].cancelled >= batch[b].cancelled
             /\ Closed(b) => batch'[b] = batch[b]
  BY <1>1, ShapeStep, ForwardStep DEF IInv, Forward
<1>2. IInv /\ [Next]_vars =>
        [\A b \in Batches :
            /\ batch'[b].success >= batch[b].success
            /\ batch'[b].failed >= batch[b].failed
            /\ batch'[b].cancelled >= batch[b].cancelled
            /\ Closed(b) => batch'[b] = batch[b]]_vars
  BY <1>1
<1> QED BY <1>2, Inductive, PTL DEF Spec, ProgressIsMonotone

\* With continue_on_failure = false at most as many children fail as there are
\* workers, for any number of either.
THEOREM FailuresAreBounded == Spec => []FailFastBound
<1>1. ASSUME IInv PROVE FailFastBound
  <2>1. SUFFICES ASSUME NEW b \in Batches, ~batch[b].continueOnFailure
                 PROVE  Cardinality({c \in Items(b) : child[c] \in FailedStatuses})
                          <= Cardinality(Workers)
    BY DEF FailFastBound
  <2> DEFINE F == {c \in Items(b) : child[c] \in FailedStatuses}
  <2>2. F \in SUBSET AtRisk(b) /\ AtRisk(b) \in SUBSET Items(b)
    BY DEF AtRisk
  <2>3. IsFiniteSet(Items(b))
    BY <1>1, RowFacts DEF IInv
  <2>4. SUFFICES Cardinality(F) <= Cardinality(Workers)
    OBVIOUS
  <2> HIDE DEF F
  <2>5. IsFiniteSet(AtRisk(b))
    BY <2>2, <2>3, FS_Subset
  <2>6. IsFiniteSet(F) /\ Cardinality(F) <= Cardinality(AtRisk(b))
    BY <2>2, <2>5, FS_Subset
  <2>7. Cardinality(AtRisk(b)) <= Cardinality(Workers)
    BY <1>1, <2>1 DEF IInv, FailFast, RiskBound
  <2>8. Cardinality(F) \in Nat /\ Cardinality(AtRisk(b)) \in Nat /\ Cardinality(Workers) \in Nat
    BY <2>5, <2>6, ActorsAssumption, FS_CardinalityType
  <2> QED BY <2>6, <2>7, <2>8
<1> QED BY <1>1, Inductive, PTL

\* A stop-on-failure batch that shows a failure has no child left to start.
THEOREM FailuresStop == Spec => []FailFastStops
<1>1. IInv => FailFastStops
  BY DEF IInv, BatchRowsTrue
<1> QED BY <1>1, Inductive, PTL

\* After a Cancel that returned no error every child has ended or runs with
\* the request recorded.
THEOREM CancelIsComplete == Spec => []CancelCoversAll
<1>1. IInv => CancelCoversAll
  BY DEF IInv, RequestsKeep
<1> QED BY <1>1, Inductive, PTL

\* A retry repeats only what failed or was interrupted.
THEOREM RetriesAreFailures == Spec => []RetryOnlyFailed
<1>1. IInv => RetryOnlyFailed
  BY DEF IInv, RequestsKeep
<1> QED BY <1>1, Inductive, PTL

\* The children of batches are tasks of TaskMachine: they are created PENDING
\* and keep to allowedTransitions, the cancellation by RefreshBatch included.
THEOREM RefinesTaskMachine == Spec => ImplementsTaskMachine
<1>1. Init => Machine!Init
  BY DEF Init, Machine!Init, NoTask, Machine!NoTask
<1>2. ASSUME IInv, [Next]_vars PROVE Machine!Next
  <2>1. /\ Machine!NoTask = NoTask /\ Machine!Statuses = Statuses
        /\ \A from, to : Machine!CanTransitionTo(from, to) <=> CanTransitionTo(from, to)
    BY DEF NoTask, Machine!NoTask, Statuses, Machine!Statuses, Terminal, Machine!Terminal,
       CanTransitionTo, Machine!CanTransitionTo, AllowedTransitions, Machine!AllowedTransitions
  <2>2. child' \in [Children -> Statuses \cup {NoTask}]
    BY <1>2, ShapeStep DEF IInv, Shape
  <2>3. \A c \in Children : \/ child'[c] = child[c] \/ CanTransitionTo(child[c], child'[c])
                            \/ (child[c] = NoTask /\ child'[c] = "PENDING")
    BY <1>2, StepMoves DEF IInv, Advance
  <2> QED BY <2>1, <2>2, <2>3 DEF Machine!Next, Machine!Move
<1> QED BY <1>1, <1>2, Inductive, PTL DEF Spec, ImplementsTaskMachine, Machine!Spec
=============================================================================
