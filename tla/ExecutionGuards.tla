--------------------------- MODULE ExecutionGuards ---------------------------
(***************************************************************************)
(* Controller.Do of internal/concurrency/controller.go: one lock per       *)
(* device (DeviceLocks, device_locks.go), then one slot of the global      *)
(* semaphore, around an operation on a device.  A step is one critical     *)
(* section (under DeviceLocks.mu or under the mutex of one semaphore), one *)
(* choice of a select, or one read of the context.                         *)
(*                                                                         *)
(* A deviceEntry is a heap object: its identity matters, since the table   *)
(* may drop an entry and make another for the same device while goroutines *)
(* still hold pointers to the old one.                                     *)
(***************************************************************************)
EXTENDS SemaphoreOps, FiniteSets

CONSTANTS Callers,     \* goroutines that call Controller.Do
          Devices,     \* canonical device IDs
          MaxGlobal,   \* NewController's argument (DefaultGlobalLimit is 5)
          Entries,     \* identities of deviceEntry objects
          Nil          \* the nil *deviceEntry, and no device

ASSUME MaxGlobalAssumption == MaxGlobal \in Nat \ {0}
ASSUME CallersAssumption == IsFiniteSet(Callers)
ASSUME NilAssumption == Nil \notin Entries \cup Devices
\* Garbage collection never runs out of entries: every caller may hold one,
\* and one more is being made.
ASSUME EntriesAssumption == IsFiniteSet(Entries) /\ Cardinality(Entries) >= Cardinality(Callers)

VARIABLES global,     \* Controller.global
          table,      \* DeviceLocks.entries: the current entry of each device
          entries,    \* the deviceEntry objects: semaphore and references
          pc,         \* where each caller is in Do
          device,     \* the device of its call
          entry,      \* the entry its call looked up
          cancelled   \* whether the context of its call is done

vars == <<global, table, entries, pc, device, entry, cancelled>>

(***************************************************************************)
(* "idle"      not in Do                                                   *)
(* "lookup"    DeviceLocks.Acquire before d.mu                             *)
(* "dCheck"    before entry.semaphore.Acquire's ctx.Err()                  *)
(* "dLock", "dWait", "dGiveUp", "dAbort"   in entry.semaphore.Acquire, as  *)
(*             "checked", "waiting", "givingUp", "aborting" of Semaphore   *)
(* "gCheck"    has the device lock, before global.Acquire's ctx.Err()      *)
(* "gLock", "gWait", "gGiveUp", "gAbort"   in global.Acquire               *)
(* "running"   holds both, in operation(ctx)                               *)
(* "gRelease"  in Lease.Release, before the global permit's release        *)
(* "dRelease"  in DevicePermit.Release, before the semaphore's release     *)
(* "dUnref"    before releaseReference                                     *)
(***************************************************************************)
PCs == {"idle", "lookup", "dCheck", "dLock", "dWait", "dGiveUp", "dAbort",
        "gCheck", "gLock", "gWait", "gGiveUp", "gAbort",
        "running", "gRelease", "dRelease", "dUnref"}

FreshEntry == [semaphore |-> NewSemaphore, references |-> 0]

\* NewController: an empty lock table and a free global semaphore.
Init ==
    /\ global = NewSemaphore
    /\ table = [d \in Devices |-> Nil]
    /\ entries = [e \in Entries |-> FreshEntry]
    /\ pc = [c \in Callers |-> "idle"]
    /\ device = [c \in Callers |-> Nil]
    /\ entry = [c \in Callers |-> Nil]
    /\ cancelled = [c \in Callers |-> FALSE]

Goto(c, label) == pc' = [pc EXCEPT ![c] = label]

\* The context of a call is cancelled at any time during the call.
CancelContext(c) ==
    /\ pc[c] # "idle"
    /\ ~cancelled[c]
    /\ cancelled' = [cancelled EXCEPT ![c] = TRUE]
    /\ UNCHANGED <<global, table, entries, pc, device, entry>>

\* Do and Acquire up to d.mu.  A context that is done already makes the call
\* return before it touches anything, which is a stuttering step.
DoEnter(c, d) ==
    /\ pc[c] = "idle"
    /\ device' = [device EXCEPT ![c] = d]
    /\ Goto(c, "lookup")
    /\ UNCHANGED <<global, table, entries, entry, cancelled>>

\* The object the allocator returns: one that nothing refers to any more.
AllocatedEntry ==
    CHOOSE e \in Entries : /\ \A d \in Devices : table[d] # e
                           /\ \A c \in Callers : entry[c] # e

\* Mutant: the reference is not counted until the device lock is acquired.
LookupEntryUncounted(c) ==
    /\ pc[c] = "lookup"
    /\ IF table[device[c]] # Nil
       THEN /\ entry' = [entry EXCEPT ![c] = table[device[c]]]
            /\ UNCHANGED <<table, entries>>
       ELSE LET e == AllocatedEntry IN
            /\ entry' = [entry EXCEPT ![c] = e]
            /\ table' = [table EXCEPT ![device[c]] = e]
            /\ entries' = [entries EXCEPT ![e] = [FreshEntry EXCEPT !.references = 1]]
    /\ Goto(c, "dCheck")
    /\ UNCHANGED <<global, device, cancelled>>

\* DeviceLocks.Acquire under d.mu: find or make the entry and count the
\* reference.
LookupEntry(c) ==
    /\ pc[c] = "lookup"
    /\ IF table[device[c]] # Nil
       THEN LET e == table[device[c]] IN
            /\ entry' = [entry EXCEPT ![c] = e]
            /\ entries' = [entries EXCEPT ![e].references = @ + 1]
            /\ UNCHANGED table
       ELSE LET e == AllocatedEntry IN
            /\ entry' = [entry EXCEPT ![c] = e]
            /\ table' = [table EXCEPT ![device[c]] = e]
            /\ entries' = [entries EXCEPT ![e] = [FreshEntry EXCEPT !.references = 1]]
    /\ Goto(c, "dCheck")
    /\ UNCHANGED <<global, device, cancelled>>

-----------------------------------------------------------------------------
(***************************************************************************)
(* entry.semaphore.Acquire(ctx)                                            *)
(***************************************************************************)
DeviceSemaphore(c) == entries[entry[c]].semaphore

SetDeviceSemaphore(c, s) ==
    /\ entries' = [entries EXCEPT ![entry[c]].semaphore = s]
    /\ UNCHANGED <<global, table, device, entry, cancelled>>

DeviceCheck(c) ==
    /\ pc[c] = "dCheck"
    /\ Goto(c, IF cancelled[c] THEN "dUnref" ELSE "dLock")
    /\ UNCHANGED <<global, table, entries, device, entry, cancelled>>

DeviceLock(c) ==
    /\ pc[c] = "dLock"
    /\ IF CanTake(DeviceSemaphore(c), 1)
       THEN SetDeviceSemaphore(c, Take(DeviceSemaphore(c))) /\ Goto(c, "gCheck")
       ELSE SetDeviceSemaphore(c, Enqueue(DeviceSemaphore(c), c)) /\ Goto(c, "dWait")

DeviceReady(c) ==
    /\ pc[c] = "dWait"
    /\ c \in DeviceSemaphore(c).granted
    /\ SetDeviceSemaphore(c, Wake(DeviceSemaphore(c), c))
    /\ Goto(c, IF cancelled[c] THEN "dGiveUp" ELSE "gCheck")

DeviceGiveUp(c) ==
    /\ pc[c] = "dGiveUp"
    /\ SetDeviceSemaphore(c, ReleaseOne(DeviceSemaphore(c), 1))
    /\ Goto(c, "dUnref")

DeviceDone(c) ==
    /\ pc[c] = "dWait"
    /\ cancelled[c]
    /\ Goto(c, "dAbort")
    /\ UNCHANGED <<global, table, entries, device, entry, cancelled>>

DeviceAbort(c) ==
    /\ pc[c] = "dAbort"
    /\ SetDeviceSemaphore(c, Withdraw(DeviceSemaphore(c), c, 1))
    /\ Goto(c, "dUnref")

-----------------------------------------------------------------------------
(***************************************************************************)
(* global.Acquire(ctx); on an error the device permit is released          *)
(***************************************************************************)
SetGlobal(s) ==
    /\ global' = s
    /\ UNCHANGED <<table, entries, device, entry, cancelled>>

GlobalCheck(c) ==
    /\ pc[c] = "gCheck"
    /\ Goto(c, IF cancelled[c] THEN "dRelease" ELSE "gLock")
    /\ UNCHANGED <<global, table, entries, device, entry, cancelled>>

GlobalLock(c) ==
    /\ pc[c] = "gLock"
    /\ IF CanTake(global, MaxGlobal)
       THEN SetGlobal(Take(global)) /\ Goto(c, "running")
       ELSE SetGlobal(Enqueue(global, c)) /\ Goto(c, "gWait")

GlobalReady(c) ==
    /\ pc[c] = "gWait"
    /\ c \in global.granted
    /\ SetGlobal(Wake(global, c))
    /\ Goto(c, IF cancelled[c] THEN "gGiveUp" ELSE "running")

GlobalGiveUp(c) ==
    /\ pc[c] = "gGiveUp"
    /\ SetGlobal(ReleaseOne(global, MaxGlobal))
    /\ Goto(c, "dRelease")

GlobalDone(c) ==
    /\ pc[c] = "gWait"
    /\ cancelled[c]
    /\ Goto(c, "gAbort")
    /\ UNCHANGED <<global, table, entries, device, entry, cancelled>>

\* Mutant: the error path of Controller.Acquire keeps the device permit.
GlobalAbortKeepsDevice(c) ==
    /\ pc[c] = "gAbort"
    /\ SetGlobal(Withdraw(global, c, MaxGlobal))
    /\ Goto(c, "dUnref")

GlobalAbort(c) ==
    /\ pc[c] = "gAbort"
    /\ SetGlobal(Withdraw(global, c, MaxGlobal))
    /\ Goto(c, "dRelease")

-----------------------------------------------------------------------------
(***************************************************************************)
(* The operation and the deferred Lease.Release                            *)
(***************************************************************************)

\* operation(ctx) returns, fails or panics: the deferred release runs.
OperationEnds(c) ==
    /\ pc[c] = "running"
    /\ Goto(c, "gRelease")
    /\ UNCHANGED <<global, table, entries, device, entry, cancelled>>

\* Mutant: Lease.Release forgets the global permit.
GlobalReleaseForgotten(c) ==
    /\ pc[c] = "gRelease"
    /\ Goto(c, "dRelease")
    /\ UNCHANGED <<global, table, entries, device, entry, cancelled>>

\* Lease.Release: the global slot first.
GlobalRelease(c) ==
    /\ pc[c] = "gRelease"
    /\ SetGlobal(ReleaseOne(global, MaxGlobal))
    /\ Goto(c, "dRelease")

\* DevicePermit.Release: the entry's semaphore, then the reference.
DeviceRelease(c) ==
    /\ pc[c] = "dRelease"
    /\ SetDeviceSemaphore(c, ReleaseOne(DeviceSemaphore(c), 1))
    /\ Goto(c, "dUnref")

\* The call is over; the next one has a context of its own.
Return(c) ==
    /\ Goto(c, "idle")
    /\ entry' = [entry EXCEPT ![c] = Nil]
    /\ device' = [device EXCEPT ![c] = Nil]
    /\ cancelled' = [cancelled EXCEPT ![c] = FALSE]
    /\ UNCHANGED global

\* Mutants: the entry is deleted while others refer to it; it is never
\* deleted; its references are not counted down.
ReleaseReferenceEager(c) ==
    /\ pc[c] = "dUnref"
    /\ LET e == entry[c]
       IN  IF table[device[c]] # e THEN UNCHANGED <<table, entries>>
           ELSE /\ entries' = [entries EXCEPT ![e].references = @ - 1]
                /\ table' = [table EXCEPT ![device[c]] = Nil]
    /\ Return(c)
ReleaseReferenceLeak(c) ==
    /\ pc[c] = "dUnref"
    /\ entries' = [entries EXCEPT ![entry[c]].references = @ - 1]
    /\ UNCHANGED table
    /\ Return(c)

\* releaseReference under d.mu: the last reference removes the entry.
ReleaseReference(c) ==
    /\ pc[c] = "dUnref"
    /\ LET e    == entry[c]
           left == IF entries[e].references > 0 THEN entries[e].references - 1 ELSE 0
       IN  IF table[device[c]] # e THEN UNCHANGED <<table, entries>>
           ELSE /\ entries' = [entries EXCEPT ![e].references = left]
                /\ table' = [table EXCEPT ![device[c]] = IF left = 0 THEN Nil ELSE @]
    /\ Return(c)

-----------------------------------------------------------------------------
\* The steps of a call of Do after its first.
DoStep(c) ==
    \/ LookupEntry(c)
    \/ DeviceCheck(c) \/ DeviceLock(c) \/ DeviceReady(c)
    \/ DeviceGiveUp(c) \/ DeviceDone(c) \/ DeviceAbort(c)
    \/ GlobalCheck(c) \/ GlobalLock(c) \/ GlobalReady(c)
    \/ GlobalGiveUp(c) \/ GlobalDone(c) \/ GlobalAbort(c)
    \/ OperationEnds(c)
    \/ GlobalRelease(c) \/ DeviceRelease(c) \/ ReleaseReference(c)

Next ==
    \E c \in Callers :
        \/ CancelContext(c)
        \/ \E d \in Devices : DoEnter(c, d)
        \/ DoStep(c)

Spec == Init /\ [][Next]_vars

\* A goroutine that can run does run; an operation ends (its commands have
\* timeouts and a panic unwinds through the deferred release).  Nobody has to
\* call Do and no context has to be cancelled.
Fairness == \A c \in Callers : WF_vars(DoStep(c))

FairSpec == Spec /\ Fairness

-----------------------------------------------------------------------------
(***************************************************************************)
(* Properties                                                              *)
(***************************************************************************)
HasDeviceLock(c) == pc[c] \in {"gCheck", "gLock", "gWait", "gGiveUp", "gAbort",
                               "running", "gRelease", "dRelease"}
UsesEntry(c) == pc[c] \notin {"idle", "lookup"}
UsesGlobal(c) == pc[c] \in {"gLock", "gWait", "gGiveUp", "gAbort", "running", "gRelease"}

Semaphores == [active : Nat, queue : Seq(Callers), granted : SUBSET Callers]

\* Shape of the state.
TypeOK ==
    /\ global \in Semaphores
    /\ table \in [Devices -> Entries \cup {Nil}]
    /\ entries \in [Entries -> [semaphore : Semaphores, references : Nat]]
    /\ pc \in [Callers -> PCs]
    /\ device \in [Callers -> Devices \cup {Nil}]
    /\ entry \in [Callers -> Entries \cup {Nil}]
    /\ cancelled \in [Callers -> BOOLEAN]

\* "DeviceLocks serializes all operations targeting the same device": two
\* calls never hold the lock of one device, even while its entry is dropped
\* and remade by others (device_locks.go:79-87 against 104-117).
DeviceExclusive ==
    \A c1, c2 \in Callers :
        c1 # c2 /\ HasDeviceLock(c1) /\ HasDeviceLock(c2) => device[c1] # device[c2]

\* A call in the middle of Do works on the entry its device has in the table:
\* while somebody refers to an entry it is not replaced, and the reference
\* count is exactly the number of calls that refer to it.
ReferencesExact ==
    /\ \A c \in Callers : UsesEntry(c) => table[device[c]] = entry[c]
    /\ \A d \in Devices : table[d] # Nil =>
          entries[table[d]].references =
              Cardinality({c \in Callers : UsesEntry(c) /\ entry[c] = table[d]})

\* "removes unused lock entries so arbitrary device IDs cannot grow the map
\* forever": a device has an entry only while a call uses it.
NoEntryLeak ==
    \A d \in Devices : table[d] # Nil =>
        \E c \in Callers : UsesEntry(c) /\ entry[c] = table[d]

\* "This order prevents same-device waiters from consuming scarce global slots
\* while idle" (controller.go:74-75): every global slot in use is in use for a
\* device of its own, through all races of grants and cancellations.
NoIdleGlobalSlot ==
    global.active =
        Cardinality({device[c] : c \in {b \in Callers : pc[b] \in {"gGiveUp", "running", "gRelease"}}
                                          \cup global.granted})

\* Every call of Do ends: no two calls wait for each other's guards, and
\* nobody is overtaken for ever.
EveryCallEnds == \A c \in Callers : pc[c] = "lookup" ~> pc[c] = "idle"

-----------------------------------------------------------------------------
(***************************************************************************)
(* The semaphores of this module behave as Semaphore says, so that what is *)
(* proved there holds of each of them.                                     *)
(***************************************************************************)
GlobalPC(c) ==
    CASE pc[c] = "gLock"   -> "checked"
      [] pc[c] = "gWait"   -> "waiting"
      [] pc[c] = "gGiveUp" -> "givingUp"
      [] pc[c] = "gAbort"  -> "aborting"
      [] pc[c] \in {"running", "gRelease"} -> "holding"
      [] OTHER -> "idle"

Global == INSTANCE Semaphore WITH
    Capacity  <- MaxGlobal,
    sem       <- global,
    pc        <- [c \in Callers |-> GlobalPC(c)],
    cancelled <- [c \in Callers |-> UsesGlobal(c) /\ cancelled[c]]

\* The global limit is a Semaphore of capacity MaxGlobal whose callers are the
\* calls that hold a device lock.
ImplementsGlobalSemaphore == Global!Spec

DevicePC(c, e) ==
    IF entry[c] # e THEN "idle"
    ELSE CASE pc[c] = "dLock"   -> "checked"
           [] pc[c] = "dWait"   -> "waiting"
           [] pc[c] = "dGiveUp" -> "givingUp"
           [] pc[c] = "dAbort"  -> "aborting"
           [] HasDeviceLock(c)  -> "holding"
           [] OTHER -> "idle"

DeviceEntry(e) == INSTANCE Semaphore WITH
    Capacity  <- 1,
    sem       <- entries[e].semaphore,
    pc        <- [c \in Callers |-> DevicePC(c, e)],
    cancelled <- [c \in Callers |-> DevicePC(c, e) # "idle" /\ cancelled[c]]

\* Every deviceEntry, over all the devices and calls it serves in its life, is
\* a Semaphore of capacity one.  In particular an entry is dropped from the
\* table only when its semaphore is free and nobody waits, or the next use of
\* the object would not be a step of the semaphore.
ImplementsDeviceSemaphores ==
    /\ \A e \in Entries : DeviceEntry(e)!Init
    /\ [][\A e \in Entries : [DeviceEntry(e)!Next]_(DeviceEntry(e)!vars)]_vars
=============================================================================
