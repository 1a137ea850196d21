------------------------ MODULE ExecutionGuardsProofs ------------------------
(***************************************************************************)
(* Proofs about ExecutionGuards, for every finite set of callers, every    *)
(* set of devices and every global limit.  What the critical sections do   *)
(* to a consistent semaphore is in SemaphoreLemmas; the arguments that are *)
(* this module's own are that an entry stays the entry of its device while *)
(* somebody refers to it, and that a device lock names its device.         *)
(***************************************************************************)
EXTENDS ExecutionGuards, SemaphoreLemmas

\* The calls that refer to an entry, and the part each plays in its semaphore
\* and in the global one.
Users(e) == {c \in Callers : UsesEntry(c) /\ entry[c] = e}
DeviceOwners(e) == {c \in Callers : entry[c] = e /\ (HasDeviceLock(c) \/ pc[c] = "dGiveUp")}
DeviceWaiters(e) == {c \in Callers : entry[c] = e /\ pc[c] \in {"dWait", "dAbort"}}
GlobalOwners == {c \in Callers : pc[c] \in {"gGiveUp", "running", "gRelease"}}
GlobalWaiters == {c \in Callers : pc[c] \in {"gWait", "gAbort"}}

\* A call between its lookup and its releaseReference has a device and an
\* entry, and no other call has one.
Placed ==
    /\ \A c \in Callers : UsesEntry(c) => entry[c] \in Entries
    /\ \A c \in Callers : ~UsesEntry(c) => entry[c] = Nil
    /\ \A c \in Callers : pc[c] # "idle" => device[c] \in Devices

\* An entry is the entry of one device.
OneDevice == \A d1, d2 \in Devices : table[d1] = table[d2] /\ table[d1] # Nil => d1 = d2

GlobalConsistent == Consistent(global, GlobalOwners, GlobalWaiters, Callers, MaxGlobal)
EntryConsistent(e) ==
    Consistent(entries[e].semaphore, DeviceOwners(e), DeviceWaiters(e), Callers, 1)
EntriesConsistent == \A e \in Entries : EntryConsistent(e)

\* What the lock table says: everything but the semaphores.
TableInv == Placed /\ OneDevice /\ ReferencesExact /\ NoEntryLeak

\* The inductive invariant.
IInv == TypeOK /\ TableInv /\ GlobalConsistent /\ EntriesConsistent

-----------------------------------------------------------------------------
\* The initial state satisfies the invariant.
LEMMA InitIInv == Init => IInv
<1> SUFFICES ASSUME Init PROVE IInv
  OBVIOUS
<1>1. NewSemaphore \in Semaphores /\ FreshEntry = [semaphore |-> NewSemaphore, references |-> 0]
  BY DEF NewSemaphore, Semaphores, FreshEntry
<1>2. TypeOK
  BY <1>1 DEF Init, TypeOK, PCs
<1>3. TableInv
  BY DEF Init, TableInv, Placed, OneDevice, ReferencesExact, NoEntryLeak, UsesEntry
<1>4. GlobalConsistent
  <2>1. GlobalOwners = {} /\ GlobalWaiters = {} /\ global = NewSemaphore
    BY DEF Init, GlobalOwners, GlobalWaiters
  <2> QED BY <2>1, NewConsistent, MaxGlobalAssumption DEF GlobalConsistent
<1>5. ASSUME NEW e \in Entries PROVE EntryConsistent(e)
  <2>1. DeviceOwners(e) = {} /\ DeviceWaiters(e) = {} /\ entries[e].semaphore = NewSemaphore
    BY <1>1 DEF Init, DeviceOwners, DeviceWaiters, HasDeviceLock
  <2>2. Consistent(NewSemaphore, {}, {}, Callers, 1)
    BY NewConsistent
  <2> QED BY <2>1, <2>2 DEF EntryConsistent
<1> QED BY <1>2, <1>3, <1>4, <1>5 DEF IInv, EntriesConsistent

-----------------------------------------------------------------------------
(***************************************************************************)
(* What a step leaves alone                                                *)
(***************************************************************************)

\* A step of caller c leaves the other callers where they are.
Moves(c) ==
    /\ pc' \in [Callers -> PCs]
    /\ cancelled' \in [Callers -> BOOLEAN]
    /\ \A b \in Callers \ {c} : pc'[b] = pc[b]

\* A step that neither looks up nor drops an entry keeps what the table says.
LEMMA TableKept ==
    ASSUME TypeOK, TableInv, table' = table, entry' = entry,
           \A e \in Entries : entries'[e].references = entries[e].references,
           \A b \in Callers : UsesEntry(b)' <=> UsesEntry(b),
           \A b \in Callers : UsesEntry(b) => device'[b] = device[b],
           \A b \in Callers : pc'[b] # "idle" => device'[b] \in Devices
    PROVE  TableInv'
<1> USE DEF TableInv
<1>1. Placed' /\ OneDevice'
  BY DEF Placed, OneDevice
<1>2. \A e : Users(e)' = Users(e)
  BY DEF Users
<1>3. ReferencesExact'
  <2>1. \A b \in Callers : UsesEntry(b)' => table'[device'[b]] = entry'[b]
    BY DEF ReferencesExact
  <2>2. ASSUME NEW d \in Devices, table'[d] # Nil
        PROVE  entries'[table'[d]].references = Cardinality(Users(table[d])')
    <3>1. table[d] \in Entries /\ table'[d] = table[d]
      BY <2>2 DEF TypeOK
    <3>2. entries[table[d]].references = Cardinality(Users(table[d]))
      BY <3>1, <2>2 DEF ReferencesExact, Users
    <3> QED BY <1>2, <3>1, <3>2
  <2> QED BY <2>1, <2>2 DEF ReferencesExact, Users
<1>4. NoEntryLeak'
  BY DEF NoEntryLeak
<1> QED BY <1>1, <1>3, <1>4

\* A step of c outside the semaphore of an entry leaves that semaphore alone.
LEMMA EntryKept ==
    ASSUME NEW e \in Entries, EntryConsistent(e), NEW c \in Callers, Moves(c),
           entries'[e].semaphore = entries[e].semaphore,
           \A b \in Callers \ {c} : entry'[b] = entry[b],
           c \in DeviceOwners(e)' <=> c \in DeviceOwners(e),
           c \in DeviceWaiters(e)' <=> c \in DeviceWaiters(e)
    PROVE  EntryConsistent(e)'
<1>1. DeviceOwners(e)' = DeviceOwners(e) /\ DeviceWaiters(e)' = DeviceWaiters(e)
  BY DEF DeviceOwners, DeviceWaiters, HasDeviceLock, Moves
<1> QED BY <1>1 DEF EntryConsistent

\* Nor does it matter to the global semaphore.
LEMMA GlobalKept ==
    ASSUME GlobalConsistent, NEW c \in Callers, Moves(c), global' = global,
           c \in GlobalOwners' <=> c \in GlobalOwners,
           c \in GlobalWaiters' <=> c \in GlobalWaiters
    PROVE  GlobalConsistent'
<1>1. GlobalOwners' = GlobalOwners /\ GlobalWaiters' = GlobalWaiters
  BY DEF GlobalOwners, GlobalWaiters, Moves
<1> QED BY <1>1 DEF GlobalConsistent

-----------------------------------------------------------------------------
(***************************************************************************)
(* The steps                                                               *)
(***************************************************************************)

\* The reads of a context, the choices of a select, the entry of Do and the
\* end of the operation.
LEMMA LocalPreserves ==
    ASSUME IInv, NEW c \in Callers,
           \/ CancelContext(c) \/ \E d \in Devices : DoEnter(c, d)
           \/ DeviceCheck(c) \/ DeviceDone(c) \/ GlobalCheck(c) \/ GlobalDone(c)
           \/ OperationEnds(c)
    PROVE  IInv'
<1> USE DEF IInv
<1>1. /\ global' = global /\ table' = table /\ entries' = entries /\ entry' = entry
      /\ Moves(c)
  BY DEF CancelContext, DoEnter, DeviceCheck, DeviceDone, GlobalCheck, GlobalDone,
         OperationEnds, Goto, Moves, TypeOK, PCs
<1>2. \/ pc'[c] = pc[c]
      \/ pc[c] = "idle" /\ pc'[c] = "lookup"
      \/ pc[c] = "dCheck" /\ pc'[c] \in {"dUnref", "dLock"}
      \/ pc[c] = "dWait" /\ pc'[c] = "dAbort"
      \/ pc[c] = "gCheck" /\ pc'[c] \in {"dRelease", "gLock"}
      \/ pc[c] = "gWait" /\ pc'[c] = "gAbort"
      \/ pc[c] = "running" /\ pc'[c] = "gRelease"
  BY DEF CancelContext, DoEnter, DeviceCheck, DeviceDone, GlobalCheck, GlobalDone,
         OperationEnds, Goto, TypeOK
<1>3. /\ device' \in [Callers -> Devices \cup {Nil}]
      /\ \A b \in Callers \ {c} : device'[b] = device[b]
      /\ \/ device'[c] = device[c] /\ (pc[c] = "idle" => pc'[c] = "idle")
         \/ pc[c] = "idle" /\ pc'[c] = "lookup" /\ device'[c] \in Devices
  BY DEF CancelContext, DoEnter, DeviceCheck, DeviceDone, GlobalCheck, GlobalDone,
         OperationEnds, Goto, TypeOK
<1>4. TypeOK'
  BY <1>1, <1>3 DEF TypeOK, Moves
<1>5. TableInv'
  <2>1. \A b \in Callers : UsesEntry(b)' <=> UsesEntry(b)
    BY <1>1, <1>2 DEF UsesEntry, Moves
  <2>2. \A b \in Callers : UsesEntry(b) => device'[b] = device[b]
    BY <1>3 DEF UsesEntry
  <2>3. \A b \in Callers : pc'[b] # "idle" => device'[b] \in Devices
    BY <1>1, <1>3 DEF Moves, TableInv, Placed
  <2> QED BY <1>1, <2>1, <2>2, <2>3, TableKept
<1>6. GlobalConsistent'
  BY <1>1, <1>2, GlobalKept DEF GlobalOwners, GlobalWaiters
<1>7. ASSUME NEW e \in Entries PROVE EntryConsistent(e)'
  BY <1>1, <1>2, EntryKept DEF EntriesConsistent, DeviceOwners, DeviceWaiters, HasDeviceLock
<1> QED BY <1>4, <1>5, <1>6, <1>7 DEF EntriesConsistent

\* A step of c in the semaphore of its entry, from the lemma about its
\* critical section.
LEMMA DeviceStep ==
    ASSUME IInv, NEW c \in Callers, Moves(c), NEW s, SetDeviceSemaphore(c, s),
           pc[c] \notin {"idle", "lookup"}, pc'[c] \notin {"idle", "lookup"},
           c \notin GlobalOwners, c \notin GlobalWaiters,
           c \notin GlobalOwners', c \notin GlobalWaiters',
           Consistent(s, DeviceOwners(entry[c])', DeviceWaiters(entry[c])', Callers, 1)
    PROVE  IInv'
<1> USE DEF IInv
<1>1. /\ global' = global /\ table' = table /\ device' = device /\ entry' = entry
      /\ cancelled' = cancelled
      /\ entries' = [entries EXCEPT ![entry[c]].semaphore = s]
  BY DEF SetDeviceSemaphore
<1>2. entry[c] \in Entries /\ s \in Semaphores
  BY DEF TableInv, Placed, UsesEntry, Consistent, SemaphoresOf, Semaphores
<1>3. /\ entries'[entry[c]].semaphore = s
      /\ \A e \in Entries \ {entry[c]} : entries'[e] = entries[e]
      /\ \A e \in Entries : entries'[e].references = entries[e].references
  BY <1>1, <1>2 DEF TypeOK
<1>4. TypeOK'
  <2>1. entries' \in [Entries -> [semaphore : Semaphores, references : Nat]]
    BY <1>1, <1>2 DEF TypeOK
  <2> QED BY <1>1, <2>1 DEF TypeOK, Moves
<1>5. TableInv'
  <2>1. \A b \in Callers : UsesEntry(b)' <=> UsesEntry(b)
    BY DEF UsesEntry, Moves
  <2>2. \A b \in Callers : pc'[b] # "idle" => device'[b] \in Devices
    BY <1>1 DEF Moves, TableInv, Placed
  <2> QED BY <1>1, <1>3, <2>1, <2>2, TableKept
<1>6. GlobalConsistent'
  BY <1>1, GlobalKept
<1>7. ASSUME NEW e \in Entries PROVE EntryConsistent(e)'
  <2>1. CASE e = entry[c]
    <3>1. /\ DeviceOwners(e)' = DeviceOwners(entry[c])'
          /\ DeviceWaiters(e)' = DeviceWaiters(entry[c])'
      BY <1>1, <2>1 DEF DeviceOwners, DeviceWaiters
    <3> QED BY <1>3, <2>1, <3>1 DEF EntryConsistent
  <2>2. CASE e # entry[c]
    <3>1. /\ c \notin DeviceOwners(e) /\ c \notin DeviceWaiters(e)
          /\ c \notin DeviceOwners(e)' /\ c \notin DeviceWaiters(e)'
          /\ \A b \in Callers \ {c} : entry'[b] = entry[b]
          /\ entries'[e].semaphore = entries[e].semaphore
      BY <1>1, <1>3, <2>2 DEF DeviceOwners, DeviceWaiters
    <3> QED BY <3>1, EntryKept DEF EntriesConsistent
  <2> QED BY <2>1, <2>2
<1> QED BY <1>4, <1>5, <1>6, <1>7 DEF EntriesConsistent

\* entry.semaphore.Acquire and DevicePermit.Release.
LEMMA DevicePreserves ==
    ASSUME IInv, NEW c \in Callers,
           \/ DeviceLock(c) \/ DeviceReady(c) \/ DeviceGiveUp(c) \/ DeviceAbort(c)
           \/ DeviceRelease(c)
    PROVE  IInv'
<1> DEFINE e == entry[c]
           s == DeviceSemaphore(c)
           H == DeviceOwners(e)
           W == DeviceWaiters(e)
<1> USE CallersAssumption
<1>0. /\ TypeOK /\ e \in Entries /\ s \in SemaphoresOf(Callers)
      /\ Consistent(s, H, W, Callers, 1) /\ 1 \in Nat \ {0}
  <2>1. TypeOK /\ UsesEntry(c)
    BY DEF IInv, TypeOK, UsesEntry, DeviceLock, DeviceReady, DeviceGiveUp, DeviceAbort,
           DeviceRelease
  <2>2. e \in Entries
    BY <2>1 DEF IInv, TableInv, Placed
  <2>3. EntryConsistent(e)
    BY <2>2 DEF IInv, EntriesConsistent
  <2> QED BY <2>1, <2>2, <2>3 DEF EntryConsistent, DeviceSemaphore, Consistent
<1>1. CASE DeviceLock(c)
  <2>1. pc[c] = "dLock" /\ c \notin H \cup W
    BY <1>1 DEF DeviceLock, DeviceOwners, DeviceWaiters, HasDeviceLock
  <2>2. CASE CanTake(s, 1)
    <3>1. SetDeviceSemaphore(c, Take(s)) /\ pc' = [pc EXCEPT ![c] = "gCheck"]
      BY <1>1, <2>2 DEF DeviceLock, Goto
    <3>2. Moves(c) /\ entry' = entry /\ pc'[c] = "gCheck"
      BY <1>0, <3>1 DEF Moves, TypeOK, PCs, SetDeviceSemaphore
    <3>3. DeviceOwners(e)' = H \cup {c} /\ DeviceWaiters(e)' = W
      BY <2>1, <3>2 DEF Moves, DeviceOwners, DeviceWaiters, HasDeviceLock
    <3>4. Consistent(Take(s), H \cup {c}, W, Callers, 1)
      BY <1>0, <2>1, <2>2, TakeConsistent
    <3> QED BY <2>1, <3>1, <3>2, <3>3, <3>4, DeviceStep DEF GlobalOwners, GlobalWaiters
  <2>3. CASE ~CanTake(s, 1)
    <3>1. SetDeviceSemaphore(c, Enqueue(s, c)) /\ pc' = [pc EXCEPT ![c] = "dWait"]
      BY <1>1, <2>3 DEF DeviceLock, Goto
    <3>2. Moves(c) /\ entry' = entry /\ pc'[c] = "dWait"
      BY <1>0, <3>1 DEF Moves, TypeOK, PCs, SetDeviceSemaphore
    <3>3. DeviceOwners(e)' = H /\ DeviceWaiters(e)' = W \cup {c}
      BY <2>1, <3>2 DEF Moves, DeviceOwners, DeviceWaiters, HasDeviceLock
    <3>4. Consistent(Enqueue(s, c), H, W \cup {c}, Callers, 1)
      BY <1>0, <2>1, <2>3, EnqueueConsistent
    <3> QED BY <2>1, <3>1, <3>2, <3>3, <3>4, DeviceStep DEF GlobalOwners, GlobalWaiters
  <2> QED BY <2>2, <2>3
<1>2. CASE DeviceReady(c)
  <2>1. /\ SetDeviceSemaphore(c, Wake(s, c)) /\ c \in s.granted /\ entry' = entry
        /\ pc[c] = "dWait" /\ pc'[c] \in {"dGiveUp", "gCheck"} /\ Moves(c)
    BY <1>0, <1>2 DEF DeviceReady, Goto, Moves, TypeOK, PCs, SetDeviceSemaphore
  <2>2. DeviceOwners(e)' = H \cup {c} /\ DeviceWaiters(e)' = W \ {c}
    BY <2>1 DEF Moves, DeviceOwners, DeviceWaiters, HasDeviceLock
  <2>3. Consistent(Wake(s, c), H \cup {c}, W \ {c}, Callers, 1)
    BY <1>0, <2>1, WakeConsistent
  <2> QED BY <2>1, <2>2, <2>3, DeviceStep DEF GlobalOwners, GlobalWaiters
<1>3. CASE DeviceGiveUp(c) \/ DeviceRelease(c)
  <2>1. /\ SetDeviceSemaphore(c, ReleaseOne(s, 1)) /\ entry' = entry
        /\ pc[c] \in {"dGiveUp", "dRelease"} /\ pc'[c] = "dUnref" /\ Moves(c)
    BY <1>0, <1>3 DEF DeviceGiveUp, DeviceRelease, Goto, Moves, TypeOK, PCs, SetDeviceSemaphore
  <2>2. c \in H /\ DeviceOwners(e)' = H \ {c} /\ DeviceWaiters(e)' = W
    BY <2>1 DEF Moves, DeviceOwners, DeviceWaiters, HasDeviceLock
  <2>3. Consistent(ReleaseOne(s, 1), H \ {c}, W, Callers, 1)
    BY <1>0, <2>2, ReleaseConsistent
  <2> QED BY <2>1, <2>2, <2>3, DeviceStep DEF GlobalOwners, GlobalWaiters
<1>4. CASE DeviceAbort(c)
  <2>1. /\ SetDeviceSemaphore(c, Withdraw(s, c, 1)) /\ entry' = entry
        /\ pc[c] = "dAbort" /\ pc'[c] = "dUnref" /\ Moves(c)
    BY <1>0, <1>4 DEF DeviceAbort, Goto, Moves, TypeOK, PCs, SetDeviceSemaphore
  <2>2. c \in W /\ DeviceOwners(e)' = H /\ DeviceWaiters(e)' = W \ {c}
    BY <2>1 DEF Moves, DeviceOwners, DeviceWaiters, HasDeviceLock
  <2>3. Consistent(Withdraw(s, c, 1), H, W \ {c}, Callers, 1)
    BY <1>0, <2>2, WithdrawConsistent
  <2> QED BY <2>1, <2>2, <2>3, DeviceStep DEF GlobalOwners, GlobalWaiters
<1> QED BY <1>1, <1>2, <1>3, <1>4

\* A step of c in the global semaphore: it holds its device lock before and
\* after.
LEMMA GlobalStep ==
    ASSUME IInv, NEW c \in Callers, Moves(c), NEW s, SetGlobal(s),
           HasDeviceLock(c), HasDeviceLock(c)',
           Consistent(s, GlobalOwners', GlobalWaiters', Callers, MaxGlobal)
    PROVE  IInv'
<1> USE DEF IInv
<1>1. /\ global' = s /\ table' = table /\ device' = device /\ entry' = entry
      /\ cancelled' = cancelled /\ entries' = entries
  BY DEF SetGlobal
<1>2. TypeOK'
  BY <1>1 DEF TypeOK, Moves, Consistent, SemaphoresOf, Semaphores
<1>3. TableInv'
  <2>1. \A b \in Callers : UsesEntry(b)' <=> UsesEntry(b)
    BY DEF UsesEntry, Moves, HasDeviceLock
  <2>2. \A b \in Callers : pc'[b] # "idle" => device'[b] \in Devices
    BY <1>1 DEF Moves, TableInv, Placed, HasDeviceLock
  <2> QED BY <1>1, <2>1, <2>2, TableKept
<1>4. GlobalConsistent'
  BY <1>1 DEF GlobalConsistent
<1>5. ASSUME NEW e \in Entries PROVE EntryConsistent(e)'
  <2>1. /\ c \in DeviceOwners(e)' <=> c \in DeviceOwners(e)
        /\ c \in DeviceWaiters(e)' <=> c \in DeviceWaiters(e)
    BY <1>1 DEF DeviceOwners, DeviceWaiters, HasDeviceLock
  <2> QED BY <1>1, <2>1, EntryKept DEF EntriesConsistent
<1> QED BY <1>2, <1>3, <1>4, <1>5 DEF EntriesConsistent

\* global.Acquire and the global permit's Release.
LEMMA GlobalPreserves ==
    ASSUME IInv, NEW c \in Callers,
           \/ GlobalLock(c) \/ GlobalReady(c) \/ GlobalGiveUp(c) \/ GlobalAbort(c)
           \/ GlobalRelease(c)
    PROVE  IInv'
<1> DEFINE H == GlobalOwners
           W == GlobalWaiters
<1> USE CallersAssumption, MaxGlobalAssumption
<1>0. TypeOK /\ Consistent(global, H, W, Callers, MaxGlobal)
  BY DEF IInv, GlobalConsistent
<1>1. CASE GlobalLock(c)
  <2>1. pc[c] = "gLock" /\ c \notin H \cup W
    BY <1>1 DEF GlobalLock, GlobalOwners, GlobalWaiters
  <2>2. CASE CanTake(global, MaxGlobal)
    <3>1. SetGlobal(Take(global)) /\ pc' = [pc EXCEPT ![c] = "running"]
      BY <1>1, <2>2 DEF GlobalLock, Goto
    <3>2. Moves(c) /\ pc'[c] = "running"
      BY <1>0, <3>1 DEF Moves, TypeOK, PCs, SetGlobal
    <3>3. H' = H \cup {c} /\ W' = W
      BY <2>1, <3>2 DEF Moves, GlobalOwners, GlobalWaiters
    <3>4. Consistent(Take(global), H \cup {c}, W, Callers, MaxGlobal)
      BY <1>0, <2>1, <2>2, TakeConsistent
    <3> QED BY <2>1, <3>1, <3>2, <3>3, <3>4, GlobalStep DEF HasDeviceLock
  <2>3. CASE ~CanTake(global, MaxGlobal)
    <3>1. SetGlobal(Enqueue(global, c)) /\ pc' = [pc EXCEPT ![c] = "gWait"]
      BY <1>1, <2>3 DEF GlobalLock, Goto
    <3>2. Moves(c) /\ pc'[c] = "gWait"
      BY <1>0, <3>1 DEF Moves, TypeOK, PCs, SetGlobal
    <3>3. H' = H /\ W' = W \cup {c}
      BY <2>1, <3>2 DEF Moves, GlobalOwners, GlobalWaiters
    <3>4. Consistent(Enqueue(global, c), H, W \cup {c}, Callers, MaxGlobal)
      BY <1>0, <2>1, <2>3, EnqueueConsistent
    <3> QED BY <2>1, <3>1, <3>2, <3>3, <3>4, GlobalStep DEF HasDeviceLock
  <2> QED BY <2>2, <2>3
<1>2. CASE GlobalReady(c)
  <2>1. /\ SetGlobal(Wake(global, c)) /\ c \in global.granted
        /\ pc[c] = "gWait" /\ pc'[c] \in {"gGiveUp", "running"} /\ Moves(c)
    BY <1>0, <1>2 DEF GlobalReady, Goto, Moves, TypeOK, PCs, SetGlobal
  <2>2. H' = H \cup {c} /\ W' = W \ {c}
    BY <2>1 DEF Moves, GlobalOwners, GlobalWaiters
  <2>3. Consistent(Wake(global, c), H \cup {c}, W \ {c}, Callers, MaxGlobal)
    BY <1>0, <2>1, WakeConsistent
  <2> QED BY <2>1, <2>2, <2>3, GlobalStep DEF HasDeviceLock
<1>3. CASE GlobalGiveUp(c) \/ GlobalRelease(c)
  <2>1. /\ SetGlobal(ReleaseOne(global, MaxGlobal))
        /\ pc[c] \in {"gGiveUp", "gRelease"} /\ pc'[c] = "dRelease" /\ Moves(c)
    BY <1>0, <1>3 DEF GlobalGiveUp, GlobalRelease, Goto, Moves, TypeOK, PCs, SetGlobal
  <2>2. c \in H /\ H' = H \ {c} /\ W' = W
    BY <2>1 DEF Moves, GlobalOwners, GlobalWaiters
  <2>3. Consistent(ReleaseOne(global, MaxGlobal), H \ {c}, W, Callers, MaxGlobal)
    BY <1>0, <2>2, ReleaseConsistent
  <2> QED BY <2>1, <2>2, <2>3, GlobalStep DEF HasDeviceLock
<1>4. CASE GlobalAbort(c)
  <2>1. /\ SetGlobal(Withdraw(global, c, MaxGlobal))
        /\ pc[c] = "gAbort" /\ pc'[c] = "dRelease" /\ Moves(c)
    BY <1>0, <1>4 DEF GlobalAbort, Goto, Moves, TypeOK, PCs, SetGlobal
  <2>2. c \in W /\ H' = H /\ W' = W \ {c}
    BY <2>1 DEF Moves, GlobalOwners, GlobalWaiters
  <2>3. Consistent(Withdraw(global, c, MaxGlobal), H, W \ {c}, Callers, MaxGlobal)
    BY <1>0, <2>2, WithdrawConsistent
  <2> QED BY <2>1, <2>2, <2>3, GlobalStep DEF HasDeviceLock
<1> QED BY <1>1, <1>2, <1>3, <1>4

-----------------------------------------------------------------------------
(***************************************************************************)
(* The lock table                                                          *)
(***************************************************************************)

\* The calls are finitely many, and so are those that refer to an entry.
LEMMA UsersFinite == \A e : IsFiniteSet(Users(e))
<1>1. \A e : Users(e) \in SUBSET Callers
  BY DEF Users
<1> QED BY <1>1, CallersAssumption, FS_Subset

\* A caller that has no entry leaves one for the allocator: the entries in the
\* table are in use (NoEntryLeak), and the other callers use one each.
LEMMA EntryIsFree ==
    ASSUME IInv, NEW c \in Callers, entry[c] = Nil
    PROVE  /\ AllocatedEntry \in Entries
           /\ \A d \in Devices : table[d] # AllocatedEntry
           /\ \A b \in Callers : entry[b] # AllocatedEntry
<1> DEFINE Free(e) == /\ \A d \in Devices : table[d] # e
                      /\ \A b \in Callers : entry[b] # e
<1>1. ASSUME \A e \in Entries : ~Free(e) PROVE FALSE
  <2> DEFINE S == {b \in Callers : entry[b] \in Entries}
             f == [b \in S |-> entry[b]]
  <2>1. \A e \in Entries : \E b \in Callers : entry[b] = e
    <3> SUFFICES ASSUME NEW e \in Entries PROVE \E b \in Callers : entry[b] = e
      OBVIOUS
    <3>1. CASE \E d \in Devices : table[d] = e
      BY <3>1, NilAssumption DEF IInv, TableInv, NoEntryLeak
    <3>2. CASE \A d \in Devices : table[d] # e
      BY <1>1, <3>2
    <3> QED BY <3>1, <3>2
  <2>2. f \in Surjection(S, Entries)
    BY <2>1 DEF Surjection
  <2>3. S \in SUBSET (Callers \ {c})
    BY NilAssumption
  <2> HIDE DEF f, S
  <2>4. /\ IsFiniteSet(Callers \ {c}) /\ Cardinality(Callers \ {c}) = Cardinality(Callers) - 1
    BY CallersAssumption, FS_RemoveElement
  <2>5. IsFiniteSet(S) /\ Cardinality(S) <= Cardinality(Callers \ {c})
    BY <2>3, <2>4, FS_Subset
  <2>6. Cardinality(Entries) <= Cardinality(S)
    BY <2>2, <2>5, FS_Surjection
  <2>7. Cardinality(Callers) \in Nat /\ Cardinality(S) \in Nat /\ Cardinality(Entries) \in Nat
    BY <2>5, CallersAssumption, EntriesAssumption, FS_CardinalityType
  <2> QED BY <2>4, <2>5, <2>6, <2>7, EntriesAssumption
<1>2. \E e \in Entries : Free(e)
  BY <1>1
<1>3. AllocatedEntry = CHOOSE e \in Entries : Free(e)
  BY DEF AllocatedEntry
<1> HIDE DEF Free
<1>4. AllocatedEntry \in Entries /\ Free(AllocatedEntry)
  BY <1>2, <1>3
<1> QED BY <1>4 DEF Free

\* What DeviceLocks.Acquire does under d.mu in both of its cases: the call
\* refers to the entry e that its device now has.
LEMMA LookupPreserves ==
    ASSUME IInv, NEW c \in Callers, LookupEntry(c)
    PROVE  IInv'
<1> USE NilAssumption
<1> DEFINE d == device[c]
<1>1. /\ TypeOK /\ TableInv /\ pc[c] = "lookup" /\ d \in Devices /\ entry[c] = Nil
      /\ global' = global /\ device' = device /\ cancelled' = cancelled
      /\ pc' = [pc EXCEPT ![c] = "dCheck"]
  BY DEF IInv, TableInv, Placed, UsesEntry, LookupEntry, Goto
<1>2. PICK e \in Entries :
        /\ entry' = [entry EXCEPT ![c] = e]
        /\ table' = [table EXCEPT ![d] = e]
        /\ \/ /\ table[d] = e
              /\ entries' = [entries EXCEPT ![e].references = @ + 1]
           \/ /\ table[d] = Nil /\ \A k \in Devices : table[k] # e
              /\ \A b \in Callers : entry[b] # e
              /\ entries' = [entries EXCEPT ![e] = [FreshEntry EXCEPT !.references = 1]]
  <2>1. CASE table[d] # Nil
    <3>1. table[d] \in Entries /\ table = [table EXCEPT ![d] = table[d]]
      BY <1>1, <2>1 DEF TypeOK
    <3>2. /\ entry' = [entry EXCEPT ![c] = table[d]] /\ table' = table
          /\ entries' = [entries EXCEPT ![table[d]].references = @ + 1]
      BY <2>1 DEF LookupEntry
    <3> QED BY <3>1, <3>2
  <2>2. CASE table[d] = Nil
    <3>1. /\ AllocatedEntry \in Entries
          /\ \A k \in Devices : table[k] # AllocatedEntry
          /\ \A b \in Callers : entry[b] # AllocatedEntry
      BY <1>1, EntryIsFree
    <3>2. /\ entry' = [entry EXCEPT ![c] = AllocatedEntry]
          /\ table' = [table EXCEPT ![d] = AllocatedEntry]
          /\ entries' = [entries EXCEPT ![AllocatedEntry] = [FreshEntry EXCEPT !.references = 1]]
      BY <2>2 DEF LookupEntry
    <3> QED BY <2>2, <3>1, <3>2
  <2> QED BY <2>1, <2>2
<1>3. /\ Moves(c) /\ pc'[c] = "dCheck"
      /\ entry'[c] = e /\ table'[d] = e
      /\ \A b \in Callers \ {c} : entry'[b] = entry[b] /\ pc'[b] = pc[b]
      /\ \A k \in Devices \ {d} : table'[k] = table[k]
  BY <1>1, <1>2 DEF Moves, TypeOK, PCs
<1>4. /\ entries' \in [Entries -> [semaphore : Semaphores, references : Nat]]
      /\ \A x \in Entries \ {e} : entries'[x] = entries[x]
      /\ \/ /\ table[d] = e
            /\ entries'[e].references = entries[e].references + 1
            /\ entries'[e].semaphore = entries[e].semaphore
         \/ /\ table[d] = Nil /\ entries'[e].references = 1
            /\ entries'[e].semaphore = NewSemaphore
  <2>1. entries[e] \in [semaphore : Semaphores, references : Nat]
    BY <1>1 DEF TypeOK
  <2>2. PICK r \in [semaphore : Semaphores, references : Nat] :
          /\ entries' = [entries EXCEPT ![e] = r]
          /\ \/ /\ table[d] = e
                /\ r.references = entries[e].references + 1
                /\ r.semaphore = entries[e].semaphore
             \/ table[d] = Nil /\ r.references = 1 /\ r.semaphore = NewSemaphore
    <3>1. CASE entries' = [entries EXCEPT ![e].references = @ + 1] /\ table[d] = e
      <4> DEFINE r == [entries[e] EXCEPT !.references = @ + 1]
      <4>1. /\ r \in [semaphore : Semaphores, references : Nat]
            /\ r.references = entries[e].references + 1
            /\ r.semaphore = entries[e].semaphore
        BY <2>1
      <4>2. entries' = [entries EXCEPT ![e] = r]
        BY <3>1
      <4> HIDE DEF r
      <4> QED BY <3>1, <4>1, <4>2
    <3>2. CASE /\ entries' = [entries EXCEPT ![e] = [FreshEntry EXCEPT !.references = 1]]
               /\ table[d] = Nil
      <4> DEFINE r == [FreshEntry EXCEPT !.references = 1]
      <4>1. /\ r \in [semaphore : Semaphores, references : Nat]
            /\ r.references = 1 /\ r.semaphore = NewSemaphore
        <5>1. NewSemaphore \in Semaphores
          BY DEF NewSemaphore, Semaphores
        <5>2. r = [semaphore |-> NewSemaphore, references |-> 1]
          BY DEF FreshEntry
        <5> QED BY <5>1, <5>2
      <4>2. entries' = [entries EXCEPT ![e] = r]
        BY <3>2
      <4> HIDE DEF r
      <4> QED BY <3>2, <4>1, <4>2
    <3> QED BY <1>2, <3>1, <3>2
  <2> QED BY <1>1, <2>2 DEF TypeOK
<1>5. TypeOK'
  BY <1>1, <1>2, <1>4 DEF TypeOK, PCs
<1>6. /\ Users(e)' = Users(e) \cup {c} /\ c \notin Users(e)
      /\ \A x : x # e => Users(x)' = Users(x)
  BY <1>1, <1>3 DEF Users, UsesEntry
<1>7. table[d] = Nil => Users(e) = {} /\ \A k \in Devices : table[k] # e
  BY <1>2 DEF Users
<1>8. Placed' /\ OneDevice'
  <2>1. Placed'
    BY <1>1, <1>3 DEF TableInv, Placed, UsesEntry
  <2>2. \A k \in Devices : table[k] = e => k = d
    BY <1>1, <1>2 DEF TableInv, OneDevice
  <2>3. OneDevice'
    BY <1>1, <1>3, <2>2 DEF TableInv, OneDevice
  <2> QED BY <2>1, <2>3
<1>9. ReferencesExact'
  <2>1. ASSUME NEW b \in Callers, UsesEntry(b)' PROVE table'[device'[b]] = entry'[b]
    <3>1. CASE b = c
      BY <1>1, <1>3, <3>1
    <3>2. CASE b # c
      <4>1. UsesEntry(b) /\ table[device[b]] = entry[b] /\ entry[b] \in Entries
            /\ device[b] \in Devices
        BY <1>1, <1>3, <2>1, <3>2 DEF TableInv, Placed, ReferencesExact, UsesEntry
      <4>2. device[b] = d => entry[b] = e
        BY <1>2, <4>1
      <4> QED BY <1>1, <1>3, <3>2, <4>1, <4>2
    <3> QED BY <3>1, <3>2
  <2>2. ASSUME NEW k \in Devices, NEW x, x = table'[k], x # Nil
        PROVE  entries'[x].references = Cardinality(Users(x)')
    <3>1. CASE x = e
      <4>1. CASE table[d] = e
        <5>1. entries[e].references = Cardinality(Users(e))
          BY <1>1, <4>1 DEF TableInv, ReferencesExact, Users
        <5>2. Cardinality(Users(e) \cup {c}) = Cardinality(Users(e)) + 1
          BY <1>6, UsersFinite, FS_AddElement
        <5>3. Cardinality(Users(e)') = Cardinality(Users(e)) + 1
          BY <1>6, <5>2
        <5>4. entries'[e].references = entries[e].references + 1
          BY <1>4, <4>1
        <5> QED BY <3>1, <5>1, <5>3, <5>4
      <4>2. CASE table[d] = Nil
        <5>1. Users(e)' = {c}
          BY <1>6, <1>7, <4>2
        <5>2. Cardinality({c}) = 1
          BY FS_Singleton
        <5>3. entries'[e].references = 1
          BY <1>4, <4>2
        <5> QED BY <3>1, <5>1, <5>2, <5>3
      <4> QED BY <1>2, <4>1, <4>2
    <3>2. CASE x # e
      <4>1. k # d /\ x = table[k] /\ x \in Entries
        BY <1>1, <1>3, <2>2, <3>2 DEF TypeOK
      <4>2. entries[x].references = Cardinality(Users(x))
        BY <1>1, <2>2, <4>1 DEF TableInv, ReferencesExact, Users
      <4>3. Users(x)' = Users(x) /\ entries'[x] = entries[x]
        BY <1>4, <1>6, <3>2, <4>1
      <4> QED BY <4>2, <4>3
    <3> QED BY <3>1, <3>2
  <2> QED BY <2>1, <2>2 DEF ReferencesExact, Users
<1>10. NoEntryLeak'
  <2>1. ASSUME NEW k \in Devices, NEW x, x = table'[k], x # Nil PROVE Users(x)' # {}
    <3>1. CASE x = e
      BY <1>6, <3>1
    <3>2. CASE x # e
      <4>1. x = table[k] /\ Users(x) # {}
        BY <1>1, <1>3, <2>1, <3>2 DEF TableInv, NoEntryLeak, Users
      <4> QED BY <1>6, <3>2, <4>1
    <3> QED BY <3>1, <3>2
  <2> QED BY <2>1 DEF NoEntryLeak, Users
<1>11. GlobalConsistent'
  BY <1>1, <1>3, GlobalKept DEF IInv, GlobalOwners, GlobalWaiters
<1>12. ASSUME NEW x \in Entries PROVE EntryConsistent(x)'
  <2>1. /\ c \notin DeviceOwners(x) /\ c \notin DeviceWaiters(x)
        /\ c \notin DeviceOwners(x)' /\ c \notin DeviceWaiters(x)'
    BY <1>1, <1>3 DEF DeviceOwners, DeviceWaiters, HasDeviceLock
  <2>2. CASE entries'[x].semaphore = entries[x].semaphore
    BY <1>3, <2>1, <2>2, EntryKept DEF IInv, EntriesConsistent
  <2>3. CASE entries'[x].semaphore # entries[x].semaphore
    <3>1. x = e /\ entries'[x].semaphore = NewSemaphore /\ \A b \in Callers : entry[b] # e
      BY <1>2, <1>4, <2>3
    <3>2. DeviceOwners(x)' = {} /\ DeviceWaiters(x)' = {}
      BY <1>3, <2>1, <3>1 DEF DeviceOwners, DeviceWaiters
    <3>3. Consistent(NewSemaphore, {}, {}, Callers, 1)
      BY NewConsistent
    <3> QED BY <3>1, <3>2, <3>3 DEF EntryConsistent
  <2> QED BY <2>2, <2>3
<1> QED BY <1>5, <1>8, <1>9, <1>10, <1>11, <1>12 DEF IInv, TableInv, EntriesConsistent

\* releaseReference: the entry leaves the table with its last reference.
LEMMA ReleaseReferencePreserves ==
    ASSUME IInv, NEW c \in Callers, ReleaseReference(c)
    PROVE  IInv'
<1> USE NilAssumption
<1> DEFINE d == device[c]
           e == entry[c]
           n == entries[e].references
           left == IF n > 0 THEN n - 1 ELSE 0
<1>1. /\ TypeOK /\ TableInv /\ pc[c] = "dUnref" /\ d \in Devices /\ e \in Entries
      /\ table[d] = e
  BY DEF IInv, TableInv, Placed, ReferencesExact, UsesEntry, ReleaseReference
<1>2. /\ global' = global
      /\ entries' = [entries EXCEPT ![e].references = left]
      /\ table' = [table EXCEPT ![d] = IF left = 0 THEN Nil ELSE table[d]]
      /\ pc' = [pc EXCEPT ![c] = "idle"]
      /\ entry' = [entry EXCEPT ![c] = Nil]
      /\ device' = [device EXCEPT ![c] = Nil]
      /\ cancelled' = [cancelled EXCEPT ![c] = FALSE]
  BY <1>1 DEF ReleaseReference, Return, Goto
\* The call is one of the users of its entry, so the count is not zero, and it
\* is zero after the step exactly if the call was the last user.
<1>3. n \in Nat /\ n = Cardinality(Users(e)) /\ c \in Users(e)
  BY <1>1 DEF TypeOK, TableInv, ReferencesExact, Users, UsesEntry
<1>4. /\ left \in Nat /\ left = Cardinality(Users(e) \ {c})
      /\ left = 0 <=> Users(e) \ {c} = {}
  <2>1. /\ IsFiniteSet(Users(e) \ {c})
        /\ Cardinality(Users(e) \ {c}) = Cardinality(Users(e)) - 1
    <3> DEFINE U == Users(e)
    <3>1. IsFiniteSet(U) /\ c \in U
      BY <1>3, UsersFinite
    <3> HIDE DEF U
    <3>2. IsFiniteSet(U \ {c}) /\ Cardinality(U \ {c}) = Cardinality(U) - 1
      BY <3>1, FS_RemoveElement
    <3> QED BY <3>2 DEF U
  <2>2. n # 0
    BY <1>3, UsersFinite, FS_EmptySet
  <2>3. left = n - 1 /\ left \in Nat
    BY <1>3, <2>2
  <2> HIDE DEF n, left
  <2>4. left = Cardinality(Users(e) \ {c})
    BY <1>3, <2>1, <2>3
  <2> QED BY <2>1, <2>3, <2>4, FS_EmptySet
<1> HIDE DEF n, left
<1>5. /\ Moves(c) /\ pc'[c] = "idle" /\ entry'[c] = Nil
      /\ \A b \in Callers \ {c} : /\ entry'[b] = entry[b] /\ pc'[b] = pc[b]
                                  /\ device'[b] = device[b]
      /\ table'[d] = IF left = 0 THEN Nil ELSE e
      /\ \A k \in Devices \ {d} : table'[k] = table[k]
  BY <1>1, <1>2 DEF Moves, TypeOK, PCs
<1>6. /\ entries' \in [Entries -> [semaphore : Semaphores, references : Nat]]
      /\ \A x \in Entries \ {e} : entries'[x] = entries[x]
      /\ entries'[e].references = left /\ entries'[e].semaphore = entries[e].semaphore
  BY <1>1, <1>2, <1>4 DEF TypeOK
<1>7. TypeOK'
  <2>1. table' \in [Devices -> Entries \cup {Nil}]
    BY <1>1, <1>2 DEF TypeOK
  <2>2. entry' \in [Callers -> Entries \cup {Nil}] /\ device' \in [Callers -> Devices \cup {Nil}]
    BY <1>1, <1>2 DEF TypeOK
  <2> QED BY <1>1, <1>2, <1>5, <1>6, <2>1, <2>2 DEF TypeOK, Moves
<1>8. /\ \A x : x = e => Users(x)' = Users(x) \ {c}
      /\ \A x \in Entries \ {e} : Users(x)' = Users(x)
  BY <1>1, <1>5 DEF Users, UsesEntry
<1>9. \A k \in Devices : table[k] = e => k = d
  BY <1>1 DEF TableInv, OneDevice
<1>10. Placed' /\ OneDevice'
  <2>1. Placed'
    BY <1>1, <1>5 DEF TableInv, Placed, UsesEntry
  <2>2. OneDevice'
    BY <1>1, <1>5, <1>9 DEF TableInv, OneDevice
  <2> QED BY <2>1, <2>2
<1>11. ReferencesExact'
  <2>1. ASSUME NEW b \in Callers, UsesEntry(b)' PROVE table'[device'[b]] = entry'[b]
    <3>1. /\ b # c /\ UsesEntry(b) /\ table[device[b]] = entry[b] /\ device[b] \in Devices
          /\ device'[b] = device[b] /\ entry'[b] = entry[b]
      BY <1>1, <1>5, <2>1 DEF TableInv, Placed, ReferencesExact, UsesEntry
    <3>2. CASE device[b] = d
      <4>1. b \in Users(e) \ {c}
        BY <1>1, <3>1, <3>2 DEF Users
      <4> QED BY <1>1, <1>4, <1>5, <3>1, <3>2, <4>1
    <3>3. CASE device[b] # d
      BY <1>5, <3>1, <3>3
    <3> QED BY <3>2, <3>3
  <2>2. ASSUME NEW k \in Devices, NEW x, x = table'[k], x # Nil
        PROVE  entries'[x].references = Cardinality(Users(x)')
    <3>1. x = table[k] /\ x \in Entries
      BY <1>1, <1>5, <2>2 DEF TypeOK
    <3>2. CASE x = e
      BY <1>4, <1>6, <1>8, <3>2
    <3>3. CASE x # e
      <4>1. entries[x].references = Cardinality(Users(x))
        BY <1>1, <2>2, <3>1 DEF TableInv, ReferencesExact, Users
      <4> QED BY <1>6, <1>8, <3>1, <3>3, <4>1
    <3> QED BY <3>2, <3>3
  <2> QED BY <2>1, <2>2 DEF ReferencesExact, Users
<1>12. NoEntryLeak'
  <2>1. ASSUME NEW k \in Devices, NEW x, x = table'[k], x # Nil PROVE Users(x)' # {}
    <3>1. x = table[k] /\ x \in Entries
      BY <1>1, <1>5, <2>1 DEF TypeOK
    <3>2. CASE x = e
      BY <1>4, <1>5, <1>8, <1>9, <2>1, <3>1, <3>2
    <3>3. CASE x # e
      <4>1. Users(x) # {}
        BY <1>1, <2>1, <3>1 DEF TableInv, NoEntryLeak, Users
      <4> QED BY <1>8, <3>1, <3>3, <4>1
    <3> QED BY <3>2, <3>3
  <2> QED BY <2>1 DEF NoEntryLeak, Users
<1>13. GlobalConsistent'
  BY <1>1, <1>2, <1>5, GlobalKept DEF IInv, GlobalOwners, GlobalWaiters
<1>14. ASSUME NEW x \in Entries PROVE EntryConsistent(x)'
  <2>1. /\ c \notin DeviceOwners(x) /\ c \notin DeviceWaiters(x)
        /\ c \notin DeviceOwners(x)' /\ c \notin DeviceWaiters(x)'
        /\ \A b \in Callers \ {c} : entry'[b] = entry[b]
        /\ entries'[x].semaphore = entries[x].semaphore
    BY <1>1, <1>5, <1>6 DEF DeviceOwners, DeviceWaiters, HasDeviceLock
  <2> QED BY <1>5, <2>1, EntryKept DEF IInv, EntriesConsistent
<1> QED BY <1>7, <1>10, <1>11, <1>12, <1>13, <1>14 DEF IInv, TableInv, EntriesConsistent

-----------------------------------------------------------------------------
(***************************************************************************)
(* The theorems                                                            *)
(***************************************************************************)

\* Every step preserves the inductive invariant.
LEMMA NextIInv == IInv /\ [Next]_vars => IInv'
<1> SUFFICES ASSUME IInv, [Next]_vars PROVE IInv'
  OBVIOUS
<1>1. CASE UNCHANGED vars
  <2> USE <1>1 DEF vars
  <2>1. TypeOK'
    BY DEF IInv, TypeOK
  <2>2. TableInv'
    <3>1. Placed' /\ OneDevice'
      BY DEF IInv, TableInv, Placed, OneDevice, UsesEntry
    <3>2. ReferencesExact' /\ NoEntryLeak'
      BY DEF IInv, TableInv, ReferencesExact, NoEntryLeak, UsesEntry
    <3> QED BY <3>1, <3>2 DEF TableInv
  <2>3. GlobalConsistent'
    BY DEF IInv, GlobalConsistent, GlobalOwners, GlobalWaiters
  <2>4. EntriesConsistent'
    BY DEF IInv, EntriesConsistent, EntryConsistent, DeviceOwners, DeviceWaiters, HasDeviceLock
  <2> QED BY <2>1, <2>2, <2>3, <2>4 DEF IInv
<1>2. ASSUME NEW c \in Callers,
             CancelContext(c) \/ (\E d \in Devices : DoEnter(c, d)) \/ DoStep(c)
      PROVE  IInv'
  BY <1>2, LocalPreserves, DevicePreserves, GlobalPreserves, LookupPreserves,
     ReleaseReferencePreserves, Zenon DEF DoStep
<1> QED BY <1>1, <1>2 DEF Next

\* The invariant holds in every state of every behaviour.
THEOREM Inductive == Spec => []IInv
<1> QED BY InitIInv, NextIInv, PTL DEF Spec

\* The guards' state is well-formed in every reachable state: in particular
\* the allocator never runs out and no count falls below zero.
THEOREM TypeCorrect == Spec => []TypeOK
<1>1. IInv => TypeOK
  BY DEF IInv
<1> QED BY <1>1, Inductive, PTL

\* While somebody refers to an entry it stays the entry of its device, and its
\* reference count is exact.
THEOREM ReferencesAreExact == Spec => []ReferencesExact
<1>1. IInv => ReferencesExact
  BY DEF IInv, TableInv
<1> QED BY <1>1, Inductive, PTL

\* A device has an entry only while a call uses it.
THEOREM EntriesAreDropped == Spec => []NoEntryLeak
<1>1. IInv => NoEntryLeak
  BY DEF IInv, TableInv
<1> QED BY <1>1, Inductive, PTL

\* Two calls that hold device locks work on different devices.
LEMMA LocksDiffer == IInv => DeviceExclusive
<1> SUFFICES ASSUME IInv, NEW c1 \in Callers, NEW c2 \in Callers, c1 # c2,
                    HasDeviceLock(c1), HasDeviceLock(c2), device[c1] = device[c2]
             PROVE  FALSE
  BY DEF DeviceExclusive
<1> DEFINE e == entry[c1]
           S == DeviceOwners(e) \cup entries[e].semaphore.granted
<1>1. e \in Entries /\ entry[c2] = e
  BY DEF IInv, TableInv, Placed, ReferencesExact, UsesEntry, HasDeviceLock
<1>2. Consistent(entries[e].semaphore, DeviceOwners(e), DeviceWaiters(e), Callers, 1)
  BY <1>1 DEF IInv, EntriesConsistent, EntryConsistent
<1>3. IsFiniteSet(S) /\ Cardinality(S) <= 1
  BY <1>2, CallersAssumption, OwnersFinite DEF Consistent
<1>4. {c1, c2} \in SUBSET S
  BY <1>1 DEF DeviceOwners
<1>5. Cardinality({c1, c2}) = 2
  <2>1. {c1, c2} = {c1} \cup {c2} /\ c2 \notin {c1}
    OBVIOUS
  <2>2. IsFiniteSet({c1}) /\ Cardinality({c1}) = 1
    BY FS_Singleton
  <2>3. Cardinality({c1} \cup {c2}) = Cardinality({c1}) + 1
    BY <2>1, <2>2, FS_AddElement
  <2> QED BY <2>1, <2>2, <2>3
<1> HIDE DEF S
<1>6. Cardinality({c1, c2}) <= Cardinality(S) /\ Cardinality(S) \in Nat
  BY <1>3, <1>4, FS_Subset, FS_CardinalityType
<1> QED BY <1>3, <1>5, <1>6

\* Two calls never hold the lock of one device, even while its entry is
\* dropped and remade by others.
THEOREM DevicesAreExclusive == Spec => []DeviceExclusive
<1> QED BY LocksDiffer, Inductive, PTL

\* Every global slot in use is in use for a device of its own.
THEOREM SlotsWorkForDevices == Spec => []NoIdleGlobalSlot
<1>1. IInv => NoIdleGlobalSlot
  <2> SUFFICES ASSUME IInv PROVE NoIdleGlobalSlot
    OBVIOUS
  <2> DEFINE S == GlobalOwners \cup global.granted
             T == {device[c] : c \in S}
             f == [c \in S |-> device[c]]
  <2>1. Consistent(global, GlobalOwners, GlobalWaiters, Callers, MaxGlobal)
    BY DEF IInv, GlobalConsistent
  <2>2. IsFiniteSet(S) /\ global.active = Cardinality(S)
    BY <2>1, CallersAssumption, OwnersFinite DEF Consistent
  <2>3. \A c \in S : c \in Callers /\ HasDeviceLock(c)
    BY <2>1 DEF Consistent, GlobalOwners, GlobalWaiters, HasDeviceLock
  <2>4. \A c1, c2 \in S : device[c1] = device[c2] => c1 = c2
    BY <2>3, LocksDiffer DEF DeviceExclusive
  <2>5. f \in Surjection(S, T) /\ f \in Injection(S, T)
    BY <2>4 DEF Surjection, Injection, IsInjective
  <2>6. NoIdleGlobalSlot <=> global.active = Cardinality(T)
    BY DEF NoIdleGlobalSlot, GlobalOwners
  <2> HIDE DEF S, T, f
  <2>7. Cardinality(T) = Cardinality(S)
    BY <2>2, <2>5, FS_Surjection
  <2> QED BY <2>2, <2>6, <2>7
<1> QED BY <1>1, Inductive, PTL

-----------------------------------------------------------------------------
(***************************************************************************)
(* The global limit refines Semaphore                                      *)
(***************************************************************************)
GPC == [b \in Callers |-> GlobalPC(b)]
GCancelled == [b \in Callers |-> UsesGlobal(b) /\ cancelled[b]]

\* The instance's operators are those of SemaphoreOps.
LEMMA GlobalOps ==
    ASSUME NEW s, NEW c, NEW k
    PROVE  /\ Global!CanTake(s, k) <=> CanTake(s, k)
           /\ Global!Take(s) = Take(s)
           /\ Global!Enqueue(s, c) = Enqueue(s, c)
           /\ Global!Wake(s, c) = Wake(s, c)
           /\ Global!ReleaseOne(s, k) = ReleaseOne(s, k)
           /\ Global!Withdraw(s, c, k) = Withdraw(s, c, k)
<1>1. \A t : Global!GrantLocked(t, k) = GrantLocked(t, k)
  BY DEF GrantLocked, Global!GrantLocked, GrantCount, Global!GrantCount
<1>2. \A q : Global!RemoveWaiterLocked(q, c) = RemoveWaiterLocked(q, c)
  BY DEF RemoveWaiterLocked, Global!RemoveWaiterLocked
<1>3. /\ Global!CanTake(s, k) <=> CanTake(s, k)
      /\ Global!Take(s) = Take(s)
      /\ Global!Enqueue(s, c) = Enqueue(s, c)
      /\ Global!Wake(s, c) = Wake(s, c)
  BY DEF CanTake, Global!CanTake, Take, Global!Take, Enqueue, Global!Enqueue, Wake, Global!Wake
<1>4. Global!ReleaseOne(s, k) = ReleaseOne(s, k)
  BY <1>1 DEF ReleaseOne, Global!ReleaseOne
<1>5. Global!Withdraw(s, c, k) = Withdraw(s, c, k)
  BY <1>1, <1>2 DEF Withdraw, Global!Withdraw
<1> QED BY <1>3, <1>4, <1>5

\* A step of c changes the semaphore's view of c only.
LEMMA GlobalViews ==
    ASSUME NEW c \in Callers, Moves(c), \A b \in Callers \ {c} : cancelled'[b] = cancelled[b]
    PROVE  /\ GPC' = [GPC EXCEPT ![c] = GlobalPC(c)']
           /\ GCancelled' = [GCancelled EXCEPT ![c] = (UsesGlobal(c)' /\ cancelled'[c])]
<1>1. \A b \in Callers \ {c} : GlobalPC(b)' = GlobalPC(b)
  BY DEF Moves, GlobalPC
<1>2. \A b \in Callers \ {c} : UsesGlobal(b)' = UsesGlobal(b)
  BY DEF Moves, UsesGlobal
<1>3. GPC' = [GPC EXCEPT ![c] = GlobalPC(c)']
  BY <1>1 DEF GPC
<1>4. GCancelled' = [GCancelled EXCEPT ![c] = (UsesGlobal(c)' /\ cancelled'[c])]
  BY <1>2 DEF GCancelled
<1> QED BY <1>3, <1>4

\* The first state is one of the semaphore.
LEMMA GlobalInit == Init => Global!Init
<1> SUFFICES ASSUME Init PROVE Global!Init
  OBVIOUS
<1> QED BY DEF Init, Global!Init, GlobalPC, UsesGlobal, NewSemaphore, Global!NewSemaphore

\* Steps in which the semaphore sees its caller c stay where it is.
LEMMA GlobalStutters ==
    ASSUME TypeOK, NEW c \in Callers, Moves(c), global' = global,
           \A b \in Callers \ {c} : cancelled'[b] = cancelled[b],
           GlobalPC(c)' = GlobalPC(c),
           (UsesGlobal(c)' /\ cancelled'[c]) = (UsesGlobal(c) /\ cancelled[c])
    PROVE  UNCHANGED Global!vars
<1>1. GPC' = GPC
  <2>1. GPC' = [GPC EXCEPT ![c] = GlobalPC(c)]
    BY GlobalViews
  <2> QED BY <2>1 DEF GPC
<1>2. GCancelled' = GCancelled
  <2>1. GCancelled' = [GCancelled EXCEPT ![c] = (UsesGlobal(c) /\ cancelled[c])]
    BY GlobalViews
  <2> QED BY <2>1 DEF GCancelled
<1> QED BY <1>1, <1>2 DEF Global!vars, GPC, GCancelled

\* The steps of a call outside global.Acquire and its permit.
LEMMA GlobalIdle ==
    ASSUME TypeOK, NEW c \in Callers, Moves(c), global' = global,
           \A b \in Callers \ {c} : cancelled'[b] = cancelled[b],
           pc[c] \in {"idle", "lookup", "dCheck", "dLock", "dWait", "dGiveUp", "dAbort",
                      "gCheck", "dRelease", "dUnref"},
           pc'[c] \in {"idle", "lookup", "dCheck", "dLock", "dWait", "dGiveUp", "dAbort",
                       "gCheck", "dRelease", "dUnref"}
    PROVE  UNCHANGED Global!vars
<1>1. GlobalPC(c) = "idle" /\ GlobalPC(c)' = "idle"
  BY DEF GlobalPC
<1>2. ~UsesGlobal(c) /\ ~UsesGlobal(c)'
  BY DEF UsesGlobal
<1> QED BY <1>1, <1>2, GlobalStutters

\* Every step of ExecutionGuards is a step of the global semaphore or leaves
\* it alone.
LEMMA GlobalNext ==
    ASSUME TypeOK, [Next]_vars
    PROVE  Global!Next \/ UNCHANGED Global!vars
<1> DEFINE AtMost(c) == /\ Moves(c)
                        /\ \A b \in Callers \ {c} : cancelled'[b] = cancelled[b]
<1>1. CASE UNCHANGED vars
  <2>1. global' = global /\ GPC' = GPC /\ GCancelled' = GCancelled
    BY <1>1 DEF vars, GPC, GCancelled, GlobalPC, UsesGlobal
  <2> QED BY <2>1 DEF Global!vars, GPC, GCancelled
<1>2. ASSUME NEW c \in Callers, CancelContext(c) PROVE Global!Next \/ UNCHANGED Global!vars
  <2>1. /\ global' = global /\ pc' = pc /\ cancelled' = [cancelled EXCEPT ![c] = TRUE]
        /\ ~cancelled[c] /\ AtMost(c)
    BY <1>2 DEF CancelContext, Moves, TypeOK
  <2>2. GlobalPC(c)' = GlobalPC(c) /\ (UsesGlobal(c)' <=> UsesGlobal(c))
    BY <2>1 DEF GlobalPC, UsesGlobal
  <2>3. CASE ~UsesGlobal(c)
    BY <2>1, <2>2, <2>3, GlobalStutters
  <2>4. CASE UsesGlobal(c)
    <3>1. GPC' = GPC /\ GPC[c] # "released"
      <4>1. \A b \in Callers : GlobalPC(b)' = GlobalPC(b) /\ GlobalPC(b) # "released"
        BY <2>1 DEF GlobalPC
      <4> QED BY <4>1 DEF GPC
    <3>2. GCancelled' = [GCancelled EXCEPT ![c] = TRUE]
      <4>1. (UsesGlobal(c)' /\ cancelled'[c]) = TRUE
        BY <2>1, <2>2, <2>4 DEF TypeOK
      <4> QED BY <2>1, <4>1, GlobalViews
    <3>3. ~GCancelled[c]
      BY <2>1 DEF GCancelled
    <3>4. Global!CancelContext(c)
      BY <2>1, <3>1, <3>2, <3>3 DEF Global!CancelContext, GPC, GCancelled
    <3> QED BY <3>4 DEF Global!Next
  <2> QED BY <2>3, <2>4
<1>3. ASSUME NEW c \in Callers,
             \/ \E d \in Devices : DoEnter(c, d)
             \/ LookupEntry(c) \/ DeviceCheck(c) \/ DeviceLock(c) \/ DeviceReady(c)
             \/ DeviceGiveUp(c) \/ DeviceDone(c) \/ DeviceAbort(c) \/ DeviceRelease(c)
             \/ ReleaseReference(c)
      PROVE  UNCHANGED Global!vars
  <2>1. global' = global /\ AtMost(c)
    BY <1>3 DEF DoEnter, LookupEntry, DeviceCheck, DeviceLock, DeviceReady, DeviceGiveUp,
                DeviceDone, DeviceAbort, DeviceRelease, ReleaseReference, Return,
                SetDeviceSemaphore, Goto, Moves, TypeOK, PCs
  <2>2. pc[c] \in {"idle", "lookup", "dCheck", "dLock", "dWait", "dGiveUp", "dAbort",
                   "dRelease", "dUnref"}
    BY <1>3 DEF DoEnter, LookupEntry, DeviceCheck, DeviceLock, DeviceReady, DeviceGiveUp,
                DeviceDone, DeviceAbort, DeviceRelease, ReleaseReference
  <2>3. pc'[c] \in {"idle", "lookup", "dCheck", "dLock", "dWait", "dGiveUp", "dAbort",
                    "gCheck", "dUnref"}
    BY <1>3 DEF DoEnter, LookupEntry, DeviceCheck, DeviceLock, DeviceReady, DeviceGiveUp,
                DeviceDone, DeviceAbort, DeviceRelease, ReleaseReference, Return, Goto, TypeOK
  <2> QED BY <2>1, <2>2, <2>3, GlobalIdle
<1>4. ASSUME NEW c \in Callers, OperationEnds(c) PROVE UNCHANGED Global!vars
  <2>1. /\ global' = global /\ cancelled' = cancelled /\ AtMost(c)
        /\ pc[c] = "running" /\ pc'[c] = "gRelease"
    BY <1>4 DEF OperationEnds, Goto, Moves, TypeOK, PCs
  <2>2. GlobalPC(c)' = GlobalPC(c) /\ UsesGlobal(c) /\ UsesGlobal(c)'
    BY <2>1 DEF GlobalPC, UsesGlobal
  <2> QED BY <2>1, <2>2, GlobalStutters
<1>5. ASSUME NEW c \in Callers, GlobalCheck(c) PROVE Global!Next \/ UNCHANGED Global!vars
  <2>1. /\ global' = global /\ cancelled' = cancelled /\ AtMost(c) /\ pc[c] = "gCheck"
        /\ pc'[c] = IF cancelled[c] THEN "dRelease" ELSE "gLock"
    BY <1>5 DEF GlobalCheck, Goto, Moves, TypeOK, PCs
  <2>2. CASE cancelled[c]
    BY <2>1, <2>2, GlobalIdle
  <2>3. CASE ~cancelled[c]
    <3>1. GlobalPC(c) = "idle" /\ GlobalPC(c)' = "checked" /\ ~UsesGlobal(c)
      BY <2>1, <2>3 DEF GlobalPC, UsesGlobal
    <3>2. GPC' = [GPC EXCEPT ![c] = "checked"] /\ GPC[c] = "idle"
      BY <2>1, <3>1, GlobalViews DEF GPC
    <3>3. GCancelled' = GCancelled /\ ~GCancelled[c]
      <4>1. GCancelled' = [GCancelled EXCEPT ![c] = (UsesGlobal(c)' /\ cancelled'[c])]
        BY <2>1, GlobalViews
      <4>2. (UsesGlobal(c)' /\ cancelled'[c]) = FALSE /\ (UsesGlobal(c) /\ cancelled[c]) = FALSE
        BY <2>1, <2>3, <3>1
      <4> QED BY <4>1, <4>2 DEF GCancelled
    <3>4. Global!AcquireEnter(c)
      BY <2>1, <3>2, <3>3 DEF Global!AcquireEnter, Global!Goto, GPC, GCancelled
    <3> QED BY <3>4 DEF Global!Next
  <2> QED BY <2>2, <2>3
\* From here on c is in global.Acquire or holds the permit.
<1>6. ASSUME NEW c \in Callers, GlobalLock(c) PROVE Global!Next
  <2>1. /\ cancelled' = cancelled /\ AtMost(c) /\ pc[c] = "gLock"
        /\ \/ /\ CanTake(global, MaxGlobal) /\ global' = Take(global) /\ pc'[c] = "running"
           \/ /\ ~CanTake(global, MaxGlobal) /\ global' = Enqueue(global, c) /\ pc'[c] = "gWait"
    BY <1>6 DEF GlobalLock, SetGlobal, Goto, Moves, TypeOK, PCs
  <2>2. /\ GlobalPC(c) = "checked" /\ UsesGlobal(c) /\ UsesGlobal(c)'
        /\ pc'[c] = "running" => GlobalPC(c)' = "holding"
        /\ pc'[c] = "gWait" => GlobalPC(c)' = "waiting"
    BY <2>1 DEF GlobalPC, UsesGlobal
  <2>3. GCancelled' = GCancelled
    BY <2>1, <2>2, GlobalViews DEF GCancelled
  <2>4. GPC[c] = "checked" /\ GPC' = [GPC EXCEPT ![c] = GlobalPC(c)']
    BY <2>1, <2>2, GlobalViews DEF GPC
  <2>5. Global!AcquireLock(c)
    <3>1. CASE CanTake(global, MaxGlobal)
      <4>1. Global!CanTake(global, MaxGlobal) /\ global' = Global!Take(global)
        BY <2>1, <3>1, GlobalOps
      <4>2. GPC' = [GPC EXCEPT ![c] = "holding"]
        BY <2>1, <2>2, <2>4, <3>1
      <4> QED BY <2>3, <2>4, <4>1, <4>2 DEF Global!AcquireLock, Global!Goto, GPC, GCancelled
    <3>2. CASE ~CanTake(global, MaxGlobal)
      <4>1. ~Global!CanTake(global, MaxGlobal) /\ global' = Global!Enqueue(global, c)
        BY <2>1, <3>2, GlobalOps
      <4>2. GPC' = [GPC EXCEPT ![c] = "waiting"]
        BY <2>1, <2>2, <2>4, <3>2
      <4> QED BY <2>3, <2>4, <4>1, <4>2 DEF Global!AcquireLock, Global!Goto, GPC, GCancelled
    <3> QED BY <3>1, <3>2
  <2> QED BY <2>5 DEF Global!Next
<1>7. ASSUME NEW c \in Callers, GlobalReady(c) PROVE Global!Next
  <2>1. /\ cancelled' = cancelled /\ AtMost(c) /\ pc[c] = "gWait" /\ c \in global.granted
        /\ global' = Wake(global, c)
        /\ pc'[c] = IF cancelled[c] THEN "gGiveUp" ELSE "running"
    BY <1>7 DEF GlobalReady, SetGlobal, Goto, Moves, TypeOK, PCs
  <2>2. /\ GlobalPC(c) = "waiting" /\ UsesGlobal(c) /\ UsesGlobal(c)'
        /\ GlobalPC(c)' = IF cancelled[c] THEN "givingUp" ELSE "holding"
    BY <2>1 DEF GlobalPC, UsesGlobal
  <2>3. GCancelled' = GCancelled /\ (GCancelled[c] <=> cancelled[c])
    BY <2>1, <2>2, GlobalViews DEF GCancelled
  <2>4. GPC[c] = "waiting" /\ GPC' = [GPC EXCEPT ![c] = GlobalPC(c)']
    BY <2>1, <2>2, GlobalViews DEF GPC
  <2>5. Global!AcquireReady(c)
    <3>1. GPC' = [GPC EXCEPT ![c] = IF GCancelled[c] THEN "givingUp" ELSE "holding"]
      BY <2>2, <2>3, <2>4
    <3>2. global' = Global!Wake(global, c)
      BY <2>1, GlobalOps
    <3> QED BY <2>1, <2>3, <2>4, <3>1, <3>2
            DEF Global!AcquireReady, Global!Goto, GPC, GCancelled
  <2> QED BY <2>5 DEF Global!Next
<1>8. ASSUME NEW c \in Callers, GlobalDone(c) PROVE Global!Next
  <2>1. /\ cancelled' = cancelled /\ AtMost(c) /\ pc[c] = "gWait" /\ cancelled[c]
        /\ global' = global /\ pc'[c] = "gAbort"
    BY <1>8 DEF GlobalDone, Goto, Moves, TypeOK, PCs
  <2>2. /\ GlobalPC(c) = "waiting" /\ UsesGlobal(c) /\ UsesGlobal(c)'
        /\ GlobalPC(c)' = "aborting"
    BY <2>1 DEF GlobalPC, UsesGlobal
  <2>3. GCancelled' = GCancelled /\ GCancelled[c]
    BY <2>1, <2>2, GlobalViews DEF GCancelled
  <2>4. GPC[c] = "waiting" /\ GPC' = [GPC EXCEPT ![c] = "aborting"]
    BY <2>1, <2>2, GlobalViews DEF GPC
  <2>5. Global!AcquireDone(c)
    BY <2>1, <2>3, <2>4 DEF Global!AcquireDone, Global!Goto, GPC, GCancelled
  <2> QED BY <2>5 DEF Global!Next
<1>9. ASSUME NEW c \in Callers, GlobalGiveUp(c) \/ GlobalAbort(c) \/ GlobalRelease(c)
      PROVE  Global!Next
  <2>1. /\ cancelled' = cancelled /\ AtMost(c) /\ pc'[c] = "dRelease"
        /\ \/ pc[c] \in {"gGiveUp", "gRelease"} /\ global' = ReleaseOne(global, MaxGlobal)
           \/ pc[c] = "gAbort" /\ global' = Withdraw(global, c, MaxGlobal)
    BY <1>9 DEF GlobalGiveUp, GlobalAbort, GlobalRelease, SetGlobal, Goto, Moves, TypeOK, PCs
  <2>2. /\ GlobalPC(c)' = "idle" /\ ~UsesGlobal(c)'
        /\ pc[c] = "gGiveUp" => GlobalPC(c) = "givingUp"
        /\ pc[c] = "gRelease" => GlobalPC(c) = "holding"
        /\ pc[c] = "gAbort" => GlobalPC(c) = "aborting"
    BY <2>1 DEF GlobalPC, UsesGlobal
  <2>3. GCancelled' = [GCancelled EXCEPT ![c] = FALSE]
    <3>1. (UsesGlobal(c)' /\ cancelled'[c]) = FALSE
      BY <2>2
    <3> QED BY <2>1, <3>1, GlobalViews
  <2>4. GPC[c] = GlobalPC(c) /\ GPC' = [GPC EXCEPT ![c] = "idle"]
    BY <2>1, <2>2, GlobalViews DEF GPC
  <2>5. CASE pc[c] = "gGiveUp"
    <3>1. Global!AcquireGiveUp(c)
      BY <2>1, <2>2, <2>3, <2>4, <2>5, GlobalOps
         DEF Global!AcquireGiveUp, Global!Fail, Global!Goto, GPC, GCancelled
    <3> QED BY <3>1 DEF Global!Next
  <2>6. CASE pc[c] = "gRelease"
    <3>1. Global!Release(c)
      BY <2>1, <2>2, <2>3, <2>4, <2>6, GlobalOps
         DEF Global!Release, Global!Goto, GPC, GCancelled
    <3> QED BY <3>1 DEF Global!Next
  <2>7. CASE pc[c] = "gAbort"
    <3>1. Global!AcquireAbort(c)
      BY <2>1, <2>2, <2>3, <2>4, <2>7, GlobalOps
         DEF Global!AcquireAbort, Global!Fail, Global!Goto, GPC, GCancelled
    <3> QED BY <3>1 DEF Global!Next
  <2> QED BY <2>1, <2>5, <2>6, <2>7
<1> QED BY <1>1, <1>2, <1>3, <1>4, <1>5, <1>6, <1>7, <1>8, <1>9, Zenon DEF Next, DoStep

\* Controller.global, under all the calls of Do, is a Semaphore of capacity
\* MaxGlobal: what SemaphoreProofs shows holds of it.
THEOREM GlobalRefinesSemaphore == Spec => ImplementsGlobalSemaphore
<1>1. IInv /\ [Next]_vars => [Global!Next]_(Global!vars)
  BY GlobalNext DEF IInv
<1> QED BY <1>1, GlobalInit, Inductive, PTL DEF Spec, ImplementsGlobalSemaphore, Global!Spec

-----------------------------------------------------------------------------
(***************************************************************************)
(* Every deviceEntry refines Semaphore                                     *)
(***************************************************************************)
DPC(e) == [b \in Callers |-> DevicePC(b, e)]
DCancelled(e) == [b \in Callers |-> DevicePC(b, e) # "idle" /\ cancelled[b]]

\* The instance's operators are those of SemaphoreOps.
LEMMA DeviceOps ==
    ASSUME NEW e, NEW s, NEW c, NEW k
    PROVE  /\ DeviceEntry(e)!CanTake(s, k) <=> CanTake(s, k)
           /\ DeviceEntry(e)!Take(s) = Take(s)
           /\ DeviceEntry(e)!Enqueue(s, c) = Enqueue(s, c)
           /\ DeviceEntry(e)!Wake(s, c) = Wake(s, c)
           /\ DeviceEntry(e)!ReleaseOne(s, k) = ReleaseOne(s, k)
           /\ DeviceEntry(e)!Withdraw(s, c, k) = Withdraw(s, c, k)
<1>1. \A t : DeviceEntry(e)!GrantLocked(t, k) = GrantLocked(t, k)
  BY DEF GrantLocked, DeviceEntry!GrantLocked, GrantCount, DeviceEntry!GrantCount
<1>2. \A q : DeviceEntry(e)!RemoveWaiterLocked(q, c) = RemoveWaiterLocked(q, c)
  BY DEF RemoveWaiterLocked, DeviceEntry!RemoveWaiterLocked
<1>3. /\ DeviceEntry(e)!CanTake(s, k) <=> CanTake(s, k)
      /\ DeviceEntry(e)!Take(s) = Take(s)
      /\ DeviceEntry(e)!Enqueue(s, c) = Enqueue(s, c)
      /\ DeviceEntry(e)!Wake(s, c) = Wake(s, c)
  BY DEF CanTake, DeviceEntry!CanTake, Take, DeviceEntry!Take,
         Enqueue, DeviceEntry!Enqueue, Wake, DeviceEntry!Wake
<1>4. DeviceEntry(e)!ReleaseOne(s, k) = ReleaseOne(s, k)
  BY <1>1 DEF ReleaseOne, DeviceEntry!ReleaseOne
<1>5. DeviceEntry(e)!Withdraw(s, c, k) = Withdraw(s, c, k)
  BY <1>1, <1>2 DEF Withdraw, DeviceEntry!Withdraw
<1> QED BY <1>3, <1>4, <1>5

\* A step of c changes the semaphore's view of c only.
LEMMA DeviceViews ==
    ASSUME NEW e, NEW c \in Callers, Moves(c),
           \A b \in Callers \ {c} : cancelled'[b] = cancelled[b] /\ entry'[b] = entry[b]
    PROVE  /\ DPC(e)' = [DPC(e) EXCEPT ![c] = DevicePC(c, e)']
           /\ DCancelled(e)' =
                 [DCancelled(e) EXCEPT ![c] = (DevicePC(c, e)' # "idle" /\ cancelled'[c])]
<1>1. \A b \in Callers \ {c} : DevicePC(b, e)' = DevicePC(b, e)
  BY DEF Moves, DevicePC, HasDeviceLock
<1>2. DPC(e)' = [DPC(e) EXCEPT ![c] = DevicePC(c, e)']
  BY <1>1 DEF DPC
<1>3. DCancelled(e)' =
        [DCancelled(e) EXCEPT ![c] = (DevicePC(c, e)' # "idle" /\ cancelled'[c])]
  <2>1. \A b \in Callers \ {c} : (DevicePC(b, e)' # "idle" /\ cancelled'[b])
                                    = (DevicePC(b, e) # "idle" /\ cancelled[b])
    BY <1>1
  <2> QED BY <2>1 DEF DCancelled
<1> QED BY <1>2, <1>3

\* The first state is one of every entry's semaphore.
LEMMA DeviceInit == ASSUME NEW e \in Entries, Init PROVE DeviceEntry(e)!Init
<1>1. \A b \in Callers : DevicePC(b, e) = "idle"
  BY NilAssumption DEF Init, DevicePC
<1>2. entries[e].semaphore = NewSemaphore
  BY DEF Init, FreshEntry
<1> QED BY <1>1, <1>2 DEF DeviceEntry!Init, DeviceEntry!NewSemaphore, NewSemaphore

\* Steps in which the semaphore of e sees its caller c stay where it is.
LEMMA DeviceStutters ==
    ASSUME NEW e, NEW c \in Callers, Moves(c),
           entries'[e].semaphore = entries[e].semaphore,
           \A b \in Callers \ {c} : cancelled'[b] = cancelled[b] /\ entry'[b] = entry[b],
           DevicePC(c, e)' = DevicePC(c, e),
           DevicePC(c, e) = "idle" \/ cancelled'[c] = cancelled[c]
    PROVE  UNCHANGED DeviceEntry(e)!vars
<1>1. DPC(e)' = DPC(e)
  <2>1. DPC(e)' = [DPC(e) EXCEPT ![c] = DevicePC(c, e)]
    BY DeviceViews
  <2> QED BY <2>1 DEF DPC
<1>2. DCancelled(e)' = DCancelled(e)
  <2>1. (DevicePC(c, e)' # "idle" /\ cancelled'[c]) = (DevicePC(c, e) # "idle" /\ cancelled[c])
    OBVIOUS
  <2>2. DCancelled(e)' =
          [DCancelled(e) EXCEPT ![c] = (DevicePC(c, e) # "idle" /\ cancelled[c])]
    BY <2>1, DeviceViews
  <2> QED BY <2>2 DEF DCancelled
<1> QED BY <1>1, <1>2 DEF DeviceEntry!vars, DPC, DCancelled

\* Steps of c on another entry, or outside the semaphore of its own.
LEMMA DeviceIdle ==
    ASSUME NEW e \in Entries, NEW c \in Callers, Moves(c),
           entries'[e].semaphore = entries[e].semaphore,
           \A b \in Callers \ {c} : cancelled'[b] = cancelled[b] /\ entry'[b] = entry[b],
           entry[c] # e \/ pc[c] \in {"idle", "lookup", "dCheck", "dUnref"},
           entry'[c] # e \/ pc'[c] \in {"idle", "lookup", "dCheck", "dUnref"}
    PROVE  UNCHANGED DeviceEntry(e)!vars
<1>1. DevicePC(c, e) = "idle" /\ DevicePC(c, e)' = "idle"
  BY DEF DevicePC, HasDeviceLock
<1> QED BY <1>1, DeviceStutters

\* A step inside the semaphore of c's entry: what it does there.
LEMMA DeviceInside ==
    ASSUME TypeOK, NEW c \in Callers, entry[c] \in Entries,
           \/ DeviceLock(c) \/ DeviceReady(c) \/ DeviceGiveUp(c) \/ DeviceAbort(c)
           \/ DeviceRelease(c)
    PROVE  /\ Moves(c) /\ cancelled' = cancelled /\ entry' = entry
           /\ \A e \in Entries \ {entry[c]} : entries'[e].semaphore = entries[e].semaphore
           /\ LET s == entries[entry[c]].semaphore
                  t == entries'[entry[c]].semaphore
              IN  \/ pc[c] = "dLock" /\ CanTake(s, 1) /\ t = Take(s) /\ pc'[c] = "gCheck"
                  \/ pc[c] = "dLock" /\ ~CanTake(s, 1) /\ t = Enqueue(s, c) /\ pc'[c] = "dWait"
                  \/ /\ pc[c] = "dWait" /\ c \in s.granted /\ t = Wake(s, c)
                     /\ pc'[c] = IF cancelled[c] THEN "dGiveUp" ELSE "gCheck"
                  \/ /\ pc[c] \in {"dGiveUp", "dRelease"} /\ t = ReleaseOne(s, 1)
                     /\ pc'[c] = "dUnref"
                  \/ pc[c] = "dAbort" /\ t = Withdraw(s, c, 1) /\ pc'[c] = "dUnref"
<1>1. Moves(c) /\ cancelled' = cancelled /\ entry' = entry
  BY DEF DeviceLock, DeviceReady, DeviceGiveUp, DeviceAbort, DeviceRelease,
         SetDeviceSemaphore, Goto, Moves, TypeOK, PCs
<1>2. ASSUME NEW s, SetDeviceSemaphore(c, s)
      PROVE  /\ entries'[entry[c]].semaphore = s
             /\ \A e \in Entries \ {entry[c]} : entries'[e].semaphore = entries[e].semaphore
  BY <1>2 DEF SetDeviceSemaphore, TypeOK
<1> QED BY <1>1, <1>2 DEF DeviceLock, DeviceReady, DeviceGiveUp, DeviceAbort, DeviceRelease,
                          DeviceSemaphore, Goto, TypeOK

\* ... and that it is a step of Semaphore.
LEMMA DeviceSteps ==
    ASSUME TypeOK, NEW c \in Callers, NEW e \in Entries, entry[c] = e,
           \/ DeviceLock(c) \/ DeviceReady(c) \/ DeviceGiveUp(c) \/ DeviceAbort(c)
           \/ DeviceRelease(c)
    PROVE  DeviceEntry(e)!Next
<1> DEFINE s == entries[e].semaphore
           t == entries'[e].semaphore
<1>1. /\ Moves(c) /\ cancelled' = cancelled /\ entry' = entry
      /\ \/ pc[c] = "dLock" /\ CanTake(s, 1) /\ t = Take(s) /\ pc'[c] = "gCheck"
         \/ pc[c] = "dLock" /\ ~CanTake(s, 1) /\ t = Enqueue(s, c) /\ pc'[c] = "dWait"
         \/ /\ pc[c] = "dWait" /\ c \in s.granted /\ t = Wake(s, c)
            /\ pc'[c] = IF cancelled[c] THEN "dGiveUp" ELSE "gCheck"
         \/ /\ pc[c] \in {"dGiveUp", "dRelease"} /\ t = ReleaseOne(s, 1)
            /\ pc'[c] = "dUnref"
         \/ pc[c] = "dAbort" /\ t = Withdraw(s, c, 1) /\ pc'[c] = "dUnref"
  BY DeviceInside
<1>2. /\ DPC(e)' = [DPC(e) EXCEPT ![c] = DevicePC(c, e)']
      /\ DCancelled(e)' =
            [DCancelled(e) EXCEPT ![c] = (DevicePC(c, e)' # "idle" /\ cancelled[c])]
      /\ DPC(e)[c] = DevicePC(c, e)
      /\ DCancelled(e)[c] = (DevicePC(c, e) # "idle" /\ cancelled[c])
  <2>1. /\ DPC(e)' = [DPC(e) EXCEPT ![c] = DevicePC(c, e)']
        /\ DCancelled(e)' =
              [DCancelled(e) EXCEPT ![c] = (DevicePC(c, e)' # "idle" /\ cancelled'[c])]
    BY <1>1, DeviceViews
  <2>2. /\ DPC(e)[c] = DevicePC(c, e)
        /\ DCancelled(e)[c] = (DevicePC(c, e) # "idle" /\ cancelled[c])
    BY DEF DPC, DCancelled
  <2> QED BY <1>1, <2>1, <2>2
\* The call stays in the semaphore, and so its context in view.
<1>3. ASSUME DevicePC(c, e) # "idle", DevicePC(c, e)' # "idle"
      PROVE  DCancelled(e)' = DCancelled(e) /\ (DCancelled(e)[c] <=> cancelled[c])
  <2>1. (DevicePC(c, e)' # "idle" /\ cancelled[c]) = (DevicePC(c, e) # "idle" /\ cancelled[c])
    BY <1>3
  <2> QED BY <1>2, <1>3, <2>1 DEF DCancelled
\* The call leaves it, and the next one has a context of its own.
<1>4. ASSUME DevicePC(c, e)' = "idle" PROVE DCancelled(e)' = [DCancelled(e) EXCEPT ![c] = FALSE]
  <2>1. (DevicePC(c, e)' # "idle" /\ cancelled[c]) = FALSE
    BY <1>4
  <2> QED BY <1>2, <2>1
<1>5. CASE pc[c] = "dLock" /\ CanTake(s, 1)
  <2>1. t = Take(s) /\ pc'[c] = "gCheck"
    BY <1>1, <1>5
  <2>2. DevicePC(c, e) = "checked" /\ DevicePC(c, e)' = "holding"
    BY <1>1, <1>5, <2>1 DEF DevicePC, HasDeviceLock
  <2>3. DeviceEntry(e)!CanTake(s, 1) /\ t = DeviceEntry(e)!Take(s)
    BY <1>5, <2>1, DeviceOps
  <2>4. DeviceEntry(e)!AcquireLock(c)
    BY <1>2, <1>3, <2>2, <2>3 DEF DeviceEntry!AcquireLock, DeviceEntry!Goto, DPC, DCancelled
  <2> QED BY <2>4 DEF DeviceEntry!Next
<1>6. CASE pc[c] = "dLock" /\ ~CanTake(s, 1)
  <2>1. t = Enqueue(s, c) /\ pc'[c] = "dWait"
    BY <1>1, <1>6
  <2>2. DevicePC(c, e) = "checked" /\ DevicePC(c, e)' = "waiting"
    BY <1>1, <1>6, <2>1 DEF DevicePC, HasDeviceLock
  <2>3. ~DeviceEntry(e)!CanTake(s, 1) /\ t = DeviceEntry(e)!Enqueue(s, c)
    BY <1>6, <2>1, DeviceOps
  <2>4. DeviceEntry(e)!AcquireLock(c)
    BY <1>2, <1>3, <2>2, <2>3 DEF DeviceEntry!AcquireLock, DeviceEntry!Goto, DPC, DCancelled
  <2> QED BY <2>4 DEF DeviceEntry!Next
<1>7. CASE pc[c] = "dWait"
  <2>1. /\ c \in s.granted /\ t = Wake(s, c)
        /\ pc'[c] = IF cancelled[c] THEN "dGiveUp" ELSE "gCheck"
    BY <1>1, <1>7
  <2>2. /\ DevicePC(c, e) = "waiting"
        /\ DevicePC(c, e)' = IF cancelled[c] THEN "givingUp" ELSE "holding"
    BY <1>1, <1>7, <2>1 DEF DevicePC, HasDeviceLock
  <2>3. /\ DCancelled(e)' = DCancelled(e)
        /\ DPC(e)' = [DPC(e) EXCEPT ![c] = IF DCancelled(e)[c] THEN "givingUp" ELSE "holding"]
    BY <1>2, <1>3, <2>2
  <2>4. t = DeviceEntry(e)!Wake(s, c)
    BY <2>1, DeviceOps
  <2>5. DeviceEntry(e)!AcquireReady(c)
    BY <1>2, <2>1, <2>2, <2>3, <2>4
       DEF DeviceEntry!AcquireReady, DeviceEntry!Goto, DPC, DCancelled
  <2> QED BY <2>5 DEF DeviceEntry!Next
<1>8. CASE pc[c] \in {"dGiveUp", "dRelease"}
  <2>1. t = ReleaseOne(s, 1) /\ pc'[c] = "dUnref"
    BY <1>1, <1>8
  <2>2. /\ DevicePC(c, e)' = "idle"
        /\ pc[c] = "dGiveUp" => DevicePC(c, e) = "givingUp"
        /\ pc[c] = "dRelease" => DevicePC(c, e) = "holding"
    BY <1>1, <1>8, <2>1 DEF DevicePC, HasDeviceLock
  <2>3. t = DeviceEntry(e)!ReleaseOne(s, 1)
    BY <2>1, DeviceOps
  <2>4. DPC(e)' = [DPC(e) EXCEPT ![c] = "idle"]
    BY <1>2, <2>2
  <2>5. DeviceEntry(e)!AcquireGiveUp(c) \/ DeviceEntry(e)!Release(c)
    BY <1>2, <1>4, <1>8, <2>2, <2>3, <2>4
       DEF DeviceEntry!AcquireGiveUp, DeviceEntry!Release, DeviceEntry!Fail, DeviceEntry!Goto,
           DPC, DCancelled
  <2> QED BY <2>5 DEF DeviceEntry!Next
<1>9. CASE pc[c] = "dAbort"
  <2>1. t = Withdraw(s, c, 1) /\ pc'[c] = "dUnref"
    BY <1>1, <1>9
  <2>2. DevicePC(c, e)' = "idle" /\ DevicePC(c, e) = "aborting"
    BY <1>1, <1>9, <2>1 DEF DevicePC, HasDeviceLock
  <2>3. t = DeviceEntry(e)!Withdraw(s, c, 1)
    BY <2>1, DeviceOps
  <2>4. DeviceEntry(e)!AcquireAbort(c)
    BY <1>2, <1>4, <2>2, <2>3
       DEF DeviceEntry!AcquireAbort, DeviceEntry!Fail, DeviceEntry!Goto, DPC, DCancelled
  <2> QED BY <2>4 DEF DeviceEntry!Next
<1> QED BY <1>1, <1>5, <1>6, <1>7, <1>8, <1>9

\* An entry nobody refers to is free and nobody waits for it, so the allocator
\* and the garbage collector do not touch a semaphore in use.
LEMMA LookupKeepsSemaphores ==
    ASSUME IInv, NEW c \in Callers, LookupEntry(c), NEW e \in Entries
    PROVE  entries'[e].semaphore = entries[e].semaphore
<1> DEFINE a == AllocatedEntry
<1>1. TypeOK /\ device[c] \in Devices /\ entry[c] = Nil
  BY DEF IInv, TableInv, Placed, UsesEntry, LookupEntry
<1>2. CASE table[device[c]] # Nil
  <2>1. entries' = [entries EXCEPT ![table[device[c]]].references = @ + 1]
    BY <1>2 DEF LookupEntry
  <2> QED BY <1>1, <2>1 DEF TypeOK
<1>3. CASE table[device[c]] = Nil
  <2>1. a \in Entries /\ \A b \in Callers : entry[b] # a
    BY <1>1, EntryIsFree
  <2>2. entries' = [entries EXCEPT ![a] = [FreshEntry EXCEPT !.references = 1]]
    BY <1>3 DEF LookupEntry
  <2>3. DeviceOwners(a) = {} /\ DeviceWaiters(a) = {} /\ EntryConsistent(a)
    BY <2>1 DEF DeviceOwners, DeviceWaiters, IInv, EntriesConsistent
  <2>4. entries[a].semaphore = NewSemaphore
    <3>1. Consistent(entries[a].semaphore, {}, {}, Callers, 1) /\ 1 \in Nat \ {0}
      BY <2>3 DEF EntryConsistent
    <3> QED BY <3>1, UnusedIsNew
  <2>5. [FreshEntry EXCEPT !.references = 1] = [semaphore |-> NewSemaphore, references |-> 1]
    BY DEF FreshEntry
  <2> HIDE DEF a
  <2> QED BY <1>1, <2>1, <2>2, <2>4, <2>5 DEF TypeOK
<1> QED BY <1>2, <1>3

\* Every step of ExecutionGuards is a step of an entry's semaphore or leaves it
\* alone.
LEMMA DeviceNext ==
    ASSUME IInv, [Next]_vars, NEW e \in Entries
    PROVE  DeviceEntry(e)!Next \/ UNCHANGED DeviceEntry(e)!vars
<1> DEFINE AtMost(c) ==
             /\ Moves(c)
             /\ \A b \in Callers \ {c} : cancelled'[b] = cancelled[b] /\ entry'[b] = entry[b]
<1>0. TypeOK /\ \A c \in Callers : UsesEntry(c) => entry[c] \in Entries
  BY DEF IInv, TableInv, Placed
<1>1. CASE UNCHANGED vars
  <2>1. entries' = entries /\ DPC(e)' = DPC(e) /\ DCancelled(e)' = DCancelled(e)
    BY <1>1 DEF vars, DPC, DCancelled, DevicePC, HasDeviceLock
  <2> QED BY <2>1 DEF DeviceEntry!vars, DPC, DCancelled
<1>2. ASSUME NEW c \in Callers, CancelContext(c)
      PROVE  DeviceEntry(e)!Next \/ UNCHANGED DeviceEntry(e)!vars
  <2>1. /\ entries' = entries /\ pc' = pc /\ entry' = entry
        /\ cancelled' = [cancelled EXCEPT ![c] = TRUE] /\ ~cancelled[c] /\ AtMost(c)
    BY <1>0, <1>2 DEF CancelContext, Moves, TypeOK
  <2>2. DevicePC(c, e)' = DevicePC(c, e)
    BY <2>1 DEF DevicePC, HasDeviceLock
  <2>3. CASE DevicePC(c, e) = "idle"
    BY <2>1, <2>2, <2>3, DeviceStutters
  <2>4. CASE DevicePC(c, e) # "idle"
    <3>1. DPC(e)' = DPC(e) /\ DPC(e)[c] # "released"
      <4>1. \A b \in Callers : DevicePC(b, e)' = DevicePC(b, e) /\ DevicePC(b, e) # "released"
        BY <2>1 DEF DevicePC, HasDeviceLock
      <4> QED BY <4>1 DEF DPC
    <3>2. DCancelled(e)' = [DCancelled(e) EXCEPT ![c] = TRUE]
      <4>1. (DevicePC(c, e)' # "idle" /\ cancelled'[c]) = TRUE
        BY <1>0, <2>1, <2>2, <2>4 DEF TypeOK
      <4> QED BY <2>1, <4>1, DeviceViews
    <3>3. ~DCancelled(e)[c]
      BY <2>1 DEF DCancelled
    <3>4. DeviceEntry(e)!CancelContext(c)
      BY <2>1, <3>1, <3>2, <3>3 DEF DeviceEntry!CancelContext, DPC, DCancelled
    <3> QED BY <3>4 DEF DeviceEntry!Next
  <2> QED BY <2>3, <2>4
<1>3. ASSUME NEW c \in Callers, NEW d \in Devices, DoEnter(c, d)
      PROVE  UNCHANGED DeviceEntry(e)!vars
  <2>1. entries' = entries /\ AtMost(c) /\ pc[c] = "idle" /\ pc'[c] = "lookup"
    BY <1>0, <1>3 DEF DoEnter, Goto, Moves, TypeOK, PCs
  <2> QED BY <2>1, DeviceIdle
<1>4. ASSUME NEW c \in Callers, LookupEntry(c) PROVE UNCHANGED DeviceEntry(e)!vars
  <2>1. AtMost(c) /\ pc[c] = "lookup" /\ pc'[c] = "dCheck"
    BY <1>0, <1>4 DEF LookupEntry, Goto, Moves, TypeOK, PCs
  <2> QED BY <1>4, <2>1, LookupKeepsSemaphores, DeviceIdle
<1>5. ASSUME NEW c \in Callers, DeviceCheck(c)
      PROVE  DeviceEntry(e)!Next \/ UNCHANGED DeviceEntry(e)!vars
  <2>1. /\ entries' = entries /\ entry' = entry /\ cancelled' = cancelled /\ AtMost(c)
        /\ pc[c] = "dCheck" /\ pc'[c] = IF cancelled[c] THEN "dUnref" ELSE "dLock"
    BY <1>0, <1>5 DEF DeviceCheck, Goto, Moves, TypeOK, PCs
  <2>2. CASE entry[c] # e \/ cancelled[c]
    BY <2>1, <2>2, DeviceIdle
  <2>3. CASE entry[c] = e /\ ~cancelled[c]
    <3>1. DevicePC(c, e) = "idle" /\ DevicePC(c, e)' = "checked"
      BY <2>1, <2>3 DEF DevicePC, HasDeviceLock
    <3>2. DPC(e)' = [DPC(e) EXCEPT ![c] = "checked"] /\ DPC(e)[c] = "idle"
      BY <2>1, <3>1, DeviceViews DEF DPC
    <3>3. DCancelled(e)' = DCancelled(e) /\ ~DCancelled(e)[c]
      <4>1. DCancelled(e)' =
              [DCancelled(e) EXCEPT ![c] = (DevicePC(c, e)' # "idle" /\ cancelled'[c])]
        BY <2>1, DeviceViews
      <4>2. /\ (DevicePC(c, e)' # "idle" /\ cancelled'[c]) = FALSE
            /\ (DevicePC(c, e) # "idle" /\ cancelled[c]) = FALSE
        BY <2>1, <2>3
      <4> QED BY <4>1, <4>2 DEF DCancelled
    <3>4. DeviceEntry(e)!AcquireEnter(c)
      BY <2>1, <3>2, <3>3 DEF DeviceEntry!AcquireEnter, DeviceEntry!Goto, DPC, DCancelled
    <3> QED BY <3>4 DEF DeviceEntry!Next
  <2> QED BY <2>2, <2>3
<1>6. ASSUME NEW c \in Callers,
             \/ DeviceLock(c) \/ DeviceReady(c) \/ DeviceGiveUp(c) \/ DeviceAbort(c)
             \/ DeviceRelease(c)
      PROVE  DeviceEntry(e)!Next \/ UNCHANGED DeviceEntry(e)!vars
  <2>1. entry[c] \in Entries
    BY <1>0, <1>6 DEF DeviceLock, DeviceReady, DeviceGiveUp, DeviceAbort, DeviceRelease, UsesEntry
  <2>2. CASE entry[c] = e
    BY <1>0, <1>6, <2>2, DeviceSteps
  <2>3. CASE entry[c] # e
    <3>1. entries'[e].semaphore = entries[e].semaphore /\ AtMost(c) /\ entry'[c] # e
      BY <1>0, <1>6, <2>1, <2>3, DeviceInside
    <3> QED BY <2>3, <3>1, DeviceIdle
  <2> QED BY <2>2, <2>3
<1>7. ASSUME NEW c \in Callers, DeviceDone(c)
      PROVE  DeviceEntry(e)!Next \/ UNCHANGED DeviceEntry(e)!vars
  <2>1. /\ entries' = entries /\ entry' = entry /\ cancelled' = cancelled /\ AtMost(c)
        /\ pc[c] = "dWait" /\ pc'[c] = "dAbort" /\ cancelled[c]
    BY <1>0, <1>7 DEF DeviceDone, Goto, Moves, TypeOK, PCs
  <2>2. CASE entry[c] # e
    BY <2>1, <2>2, DeviceIdle
  <2>3. CASE entry[c] = e
    <3>1. DevicePC(c, e) = "waiting" /\ DevicePC(c, e)' = "aborting"
      BY <2>1, <2>3 DEF DevicePC, HasDeviceLock
    <3>2. DPC(e)' = [DPC(e) EXCEPT ![c] = "aborting"] /\ DPC(e)[c] = "waiting"
      BY <2>1, <3>1, DeviceViews DEF DPC
    <3>3. DCancelled(e)' = DCancelled(e) /\ DCancelled(e)[c]
      <4>1. DCancelled(e)' =
              [DCancelled(e) EXCEPT ![c] = (DevicePC(c, e)' # "idle" /\ cancelled'[c])]
        BY <2>1, DeviceViews
      <4>2. (DevicePC(c, e)' # "idle" /\ cancelled'[c]) = (DevicePC(c, e) # "idle" /\ cancelled[c])
        BY <2>1, <3>1
      <4> QED BY <2>1, <3>1, <4>1, <4>2 DEF DCancelled
    <3>4. DeviceEntry(e)!AcquireDone(c)
      BY <2>1, <3>2, <3>3 DEF DeviceEntry!AcquireDone, DeviceEntry!Goto, DPC, DCancelled
    <3> QED BY <3>4 DEF DeviceEntry!Next
  <2> QED BY <2>2, <2>3
<1>8. ASSUME NEW c \in Callers,
             \/ GlobalCheck(c) \/ GlobalLock(c) \/ GlobalReady(c) \/ GlobalGiveUp(c)
             \/ GlobalDone(c) \/ GlobalAbort(c) \/ OperationEnds(c) \/ GlobalRelease(c)
      PROVE  UNCHANGED DeviceEntry(e)!vars
  <2>1. entries' = entries /\ entry' = entry /\ cancelled' = cancelled /\ AtMost(c)
    BY <1>0, <1>8 DEF GlobalCheck, GlobalLock, GlobalReady, GlobalGiveUp, GlobalDone,
                      GlobalAbort, OperationEnds, GlobalRelease, SetGlobal, Goto, Moves,
                      TypeOK, PCs
  <2>2. HasDeviceLock(c) /\ HasDeviceLock(c)'
    BY <1>0, <1>8 DEF GlobalCheck, GlobalLock, GlobalReady, GlobalGiveUp, GlobalDone,
                      GlobalAbort, OperationEnds, GlobalRelease, Goto, HasDeviceLock, TypeOK
  <2>3. DevicePC(c, e)' = DevicePC(c, e)
    BY <2>1, <2>2 DEF DevicePC, HasDeviceLock
  <2> QED BY <2>1, <2>3, DeviceStutters
<1>9. ASSUME NEW c \in Callers, ReleaseReference(c) PROVE UNCHANGED DeviceEntry(e)!vars
  <2>1. AtMost(c) /\ pc[c] = "dUnref" /\ pc'[c] = "idle"
    BY <1>0, <1>9 DEF ReleaseReference, Return, Goto, Moves, TypeOK, PCs
  <2>2. entries'[e].semaphore = entries[e].semaphore
    BY <1>0, <1>9 DEF ReleaseReference, TypeOK
  <2> QED BY <2>1, <2>2, DeviceIdle
<1> QED BY <1>1, <1>2, <1>3, <1>4, <1>5, <1>6, <1>7, <1>8, <1>9, Zenon DEF Next, DoStep

\* Every deviceEntry object, over all the devices and calls it serves in its
\* life, is a Semaphore of capacity one.
THEOREM EntriesRefineSemaphore == Spec => ImplementsDeviceSemaphores
<1>1. Init => \A e \in Entries : DeviceEntry(e)!Init
  BY DeviceInit
<1>2. IInv /\ [Next]_vars =>
        [\A e \in Entries : [DeviceEntry(e)!Next]_(DeviceEntry(e)!vars)]_vars
  BY DeviceNext
<1> QED BY <1>1, <1>2, Inductive, PTL DEF Spec, ImplementsDeviceSemaphores
=============================================================================
