------------------------ MODULE BackupStorageProofs ------------------------
(***************************************************************************)
(* What BackupStorage promises, for any number of callers, requests, block *)
(* limits and losses of power.                                             *)
(*                                                                         *)
(* A file gets its final name once, when all its blocks are durable (Link  *)
(* after SyncTemp), so that whatever has a name is whole and a file whose  *)
(* name was removed does not get it back from its own Put.  From there on  *)
(* the names on the disk lag behind the names in memory, and the proof     *)
(* follows both: a call between Link and its answer finds its file under   *)
(* its name unless somebody removed it, and a file that is being deleted   *)
(* is on the disk at most until the directory is synced.                   *)
(***************************************************************************)
EXTENDS BackupStorage, TLAPS

-----------------------------------------------------------------------------
(***************************************************************************)
(* The inductive invariant                                                 *)
(***************************************************************************)

BeforeCopy == {"idle", "mkdir", "exists", "create"}
AfterLink == {"unlinkTemp", "syncDir", "undo", "done", "lost"}
PutPlaces == {"mkdir", "exists", "create", "copy", "sync", "link", "unlinkTemp",
              "syncDir", "undo", "cleanup"}

\* A call is at a place of the operation it asked for, and OK is the last word.
Places ==
    \A c \in Clients :
        /\ IF pc[c] = "idle" THEN req[c] = Nil ELSE req[c] \in Requests
        /\ pc[c] \in PutPlaces => req[c].kind = "Put"
        /\ pc[c] = "resolve" => req[c].kind \in {"Open", "Delete"}
        /\ pc[c] \in {"open", "stat", "hash"} => req[c].kind = "Open"
        /\ pc[c] \in {"remove", "syncRemoved"} => req[c].kind = "Delete"
        /\ pc[c] \in {"probe", "unprobe"} => req[c].kind = "CheckReady"
        /\ reply[c] = "OK" => pc[c] = "done"
        /\ pc[c] \in {"stat", "hash"} => file[c] # Nil

\* The blocks of a file, by the place of its Put.
Written ==
    \A c \in Clients :
        /\ pc[c] \in BeforeCopy => data[c] = 0
        /\ pc[c] = "copy" => data[c] <= req[c].size /\ data[c] <= MaxFileBytes
        /\ pc[c] = "sync" => data[c] = req[c].size /\ data[c] <= MaxFileBytes
        /\ pc[c] = "link" => Whole(c)

\* A Put past its Link whose file holds all its blocks, durable.
Complete(f) == f \in Clients /\ pc[f] \in AfterLink /\ req[f].kind = "Put" /\ Whole(f)

\* Whatever has a name, or had one and is held open, is such a file.
Named ==
    /\ \A p \in Paths : names[p] # Nil => Complete(names[p]) /\ req[names[p]].path = p
    /\ \A p \in Paths : durable[p] # Nil => Complete(durable[p]) /\ req[durable[p]].path = p
Held == \A c \in Clients : file[c] # Nil => Complete(file[c])

\* Between Link and its answer a Put finds its file under its name, unless the
\* name was removed.
Placed ==
    \A c \in Clients :
        pc[c] \in {"unlinkTemp", "syncDir", "undo"} /\ c \notin gone => names[req[c].path] = c

\* A removed file is under no name in memory, and it never gets one again.
Removed ==
    \A c \in Clients : pc[c] = "syncRemoved" => file[c] # Nil /\ names[req[c].path] # file[c]

\* What the two answers mean.
PutKept ==
    \A c \in Clients :
        pc[c] = "done" /\ req[c].kind = "Put" /\ reply[c] = "OK" /\ c \notin gone =>
            names[req[c].path] = c /\ durable[req[c].path] = c
DeleteKept ==
    \A c \in Clients :
        pc[c] = "done" /\ req[c].kind = "Delete" /\ reply[c] = "OK" =>
            /\ file[c] # Nil
            /\ names[req[c].path] # file[c] /\ durable[req[c].path] # file[c]
Verified ==
    \A c \in Clients :
        pc[c] = "done" /\ req[c].kind = "Open" /\ reply[c] = "OK" /\ file[c] # Nil =>
            req[file[c]].content = req[c].content

IInv == /\ TypeOK /\ Places /\ Written /\ Named /\ Held
        /\ Placed /\ Removed /\ PutKept /\ DeleteKept /\ Verified

-----------------------------------------------------------------------------
(***************************************************************************)
(* Steps that touch no name                                                *)
(***************************************************************************)

\* Only the call of c moves: what has a final name or had one is left alone.
Moves(c) ==
    /\ UNCHANGED <<file, names, durable, gone>>
    /\ \A d \in Clients \ {c} :
          /\ pc'[d] = pc[d] /\ reply'[d] = reply[d] /\ req'[d] = req[d]
          /\ data'[d] = data[d] /\ synced'[d] = synced[d]
    /\ pc[c] \in AfterLink =>
          /\ pc'[c] \in AfterLink
          /\ req'[c] = req[c] /\ data'[c] = data[c] /\ synced'[c] = synced[c]

\* ... and comes to no place that says something about a name.
Silent(c) ==
    /\ pc'[c] \in {"unlinkTemp", "syncDir", "undo"} =>
          pc[c] \in {"unlinkTemp", "syncDir", "undo"}
    /\ pc'[c] # "syncRemoved"
    /\ pc'[c] = "done" /\ reply'[c] = "OK" =>
          req'[c].kind = "CheckReady" \/ (pc[c] = "done" /\ reply[c] = "OK")

\* A step of one call that touches no name keeps the rest of the invariant:
\* all of Put up to its link and every failure.
LEMMA MovePreserves ==
    ASSUME IInv, NEW c \in Clients, Moves(c), Silent(c), TypeOK', Places', Written'
    PROVE  IInv'
<1> USE DEF Moves, AfterLink
<1>1. \A f : Complete(f) => Complete(f)' /\ req'[f] = req[f]
  BY DEF Complete, Whole
<1>2. Named'
  BY <1>1 DEF IInv, Named
<1>3. Held'
  BY <1>1 DEF IInv, Held
<1>4. Placed'
  BY DEF IInv, Placed, Silent
<1>5. Removed'
  BY DEF IInv, Removed, Silent
<1>6. PutKept'
  BY DEF IInv, PutKept, Silent
<1>7. DeleteKept'
  BY DEF IInv, DeleteKept, Silent
<1>8. Verified'
  <2> SUFFICES ASSUME NEW d \in Clients, pc'[d] = "done", req'[d].kind = "Open",
                      reply'[d] = "OK", file'[d] # Nil
               PROVE  req'[file'[d]].content = req'[d].content
    BY DEF Verified
  <2>1. pc[d] = "done" /\ reply[d] = "OK" /\ req'[d] = req[d] /\ file'[d] = file[d]
    BY DEF Silent
  <2>2. req'[file[d]] = req[file[d]]
    BY <1>1, <2>1 DEF IInv, Held
  <2> QED BY <2>1, <2>2 DEF IInv, Verified
<1> QED BY <1>2, <1>3, <1>4, <1>5, <1>6, <1>7, <1>8 DEF IInv

-----------------------------------------------------------------------------
(***************************************************************************)
(* The steps of Put, OpenVerified, Delete and CheckReady up to a name      *)
(***************************************************************************)

\* The requests and the path of one that has a path.
LEMMA RequestKinds ==
    ASSUME NEW r \in Requests
    PROVE  /\ r.kind \in {"Put", "Open", "Delete", "CheckReady"}
           /\ r.kind # "CheckReady" => r.path \in Paths
           /\ r.kind \in {"Put", "Open"} => r.size \in Nat
BY RequestsAssumption DEF Paths

\* A request arrives.
LEMMA CallPreserves ==
    ASSUME IInv, NEW c \in Clients, Call(c)
    PROVE  IInv'
<1> USE DEF Call, Goto, Answer, fs
<1>1. PICK r \in Requests :
        /\ req' = [req EXCEPT ![c] = r]
        /\ \/ /\ pc' = [pc EXCEPT ![c] = "done"]
              /\ reply' = [reply EXCEPT ![c] = "VALIDATION_ERROR"]
           \/ /\ pc' = [pc EXCEPT ![c] = CASE r.kind = "Put" -> "mkdir"
                                           [] r.kind = "CheckReady" -> "probe"
                                           [] OTHER -> "resolve"]
              /\ reply' = reply
  OBVIOUS
<1>2. r.kind \in {"Put", "Open", "Delete", "CheckReady"}
  BY RequestKinds
<1>3. TypeOK'
  BY DEF IInv, TypeOK, PCs, Codes
<1>4. Places'
  BY <1>1, <1>2 DEF IInv, TypeOK, Places, PutPlaces
<1>5. Written'
  BY <1>1, <1>2 DEF IInv, TypeOK, Written, BeforeCopy, Whole
<1>6. Moves(c) /\ Silent(c)
  BY <1>1, <1>2 DEF IInv, TypeOK, Moves, Silent, AfterLink, Places
<1> QED BY <1>3, <1>4, <1>5, <1>6, MovePreserves

\* Put up to the copy: nothing is written yet.
LEMMA PreparePreserves ==
    ASSUME IInv, NEW c \in Clients, EnsureDirectory(c) \/ CheckAbsent(c) \/ CreateTemp(c)
    PROVE  IInv'
<1> USE DEF EnsureDirectory, CheckAbsent, CreateTemp, Goto, Answer, fs
<1>1. TypeOK'
  <2>1. durableDirs' \subseteq dirs'
    <3>1. dirs \subseteq dirs' /\ durableDirs' = durableDirs
      OBVIOUS
    <3> QED BY <3>1 DEF IInv, TypeOK
  <2>2. pc' \in [Clients -> PCs] /\ reply' \in [Clients -> Codes \cup {Nil}]
    BY DEF IInv, TypeOK, PCs, Codes
  <2>3. temps' \subseteq Clients
    BY DEF IInv, TypeOK
  <2>4. UNCHANGED <<req, file, data, synced, names, durable, gone, crashes>>
    OBVIOUS
  <2> HIDE DEF EnsureDirectory, CheckAbsent, CreateTemp
  <2> QED BY <2>1, <2>2, <2>3, <2>4 DEF IInv, TypeOK
<1>2. Places'
  BY DEF IInv, TypeOK, Places, PutPlaces
<1>3. Written'
  <2>1. req[c].kind = "Put" /\ req[c] \in Requests
    BY DEF IInv, Places, PutPlaces
  <2>2. req[c].size \in Nat /\ data[c] = 0
    BY <2>1, RequestKinds DEF IInv, Written, BeforeCopy
  <2>3. UNCHANGED <<req, data, synced>>
    OBVIOUS
  <2>4. pc'[c] \in BeforeCopy \cup {"copy", "done"} /\ \A d \in Clients \ {c} : pc'[d] = pc[d]
    BY DEF IInv, TypeOK, BeforeCopy
  <2> HIDE DEF EnsureDirectory, CheckAbsent, CreateTemp
  <2> QED BY <2>2, <2>3, <2>4, MaxFileBytesAssumption
          DEF IInv, Written, BeforeCopy, Whole
<1>4. Moves(c) /\ Silent(c)
  BY DEF IInv, TypeOK, Moves, Silent, AfterLink, Places
<1> QED BY <1>1, <1>2, <1>3, <1>4, MovePreserves

\* copyWithContext stops at the first block past the limit.
LEMMA CopyPreserves ==
    ASSUME IInv, NEW c \in Clients, CopyBlock(c)
    PROVE  IInv'
<1> USE DEF CopyBlock, Goto, Abandon
<1>1. req[c] \in Requests /\ req[c].size \in Nat /\ data[c] \in Nat /\ MaxFileBytes \in Nat
  BY MaxFileBytesAssumption, RequestKinds DEF IInv, TypeOK, Places, PutPlaces
<1>2. TypeOK'
  BY <1>1 DEF IInv, TypeOK, PCs, Codes, Written
<1>3. Places'
  BY DEF IInv, TypeOK, Places, PutPlaces
<1>4. Written'
  BY <1>1 DEF IInv, TypeOK, Written, BeforeCopy, Whole
<1>5. Moves(c) /\ Silent(c)
  BY DEF IInv, TypeOK, Moves, Silent, AfterLink, Places
<1> QED BY <1>2, <1>3, <1>4, <1>5, MovePreserves

\* The file is linked only when every block of it is durable.
LEMMA SyncTempPreserves ==
    ASSUME IInv, NEW c \in Clients, SyncTemp(c)
    PROVE  IInv'
<1> USE DEF SyncTemp, Goto, Abandon
<1>1. TypeOK'
  BY DEF IInv, TypeOK, PCs, Codes
<1>2. Places'
  BY DEF IInv, TypeOK, Places, PutPlaces
<1>3. Written'
  BY DEF IInv, TypeOK, Written, BeforeCopy, Whole
<1>4. Moves(c) /\ Silent(c)
  BY DEF IInv, TypeOK, Moves, Silent, AfterLink, Places
<1> QED BY <1>1, <1>2, <1>3, <1>4, MovePreserves

\* The temporary name is no final name; nor are probe files.
LEMMA TemporaryPreserves ==
    ASSUME IInv, NEW c \in Clients,
           UnlinkTemp(c) \/ Cleanup(c) \/ WriteProbe(c) \/ RemoveProbe(c)
    PROVE  IInv'
<1> USE DEF UnlinkTemp, Cleanup, WriteProbe, RemoveProbe, Goto, Answer
<1>1. TypeOK'
  BY DEF IInv, TypeOK, PCs, Codes
<1>2. Places'
  BY DEF IInv, TypeOK, Places, PutPlaces
<1>3. Written'
  BY DEF IInv, TypeOK, Written, BeforeCopy, Whole
<1>4. Moves(c) /\ Silent(c)
  BY DEF IInv, TypeOK, Moves, Silent, AfterLink, Places
<1> QED BY <1>1, <1>2, <1>3, <1>4, MovePreserves

\* A reader looks a name up and looks at the size of what it opened.
LEMMA ReadPreserves ==
    ASSUME IInv, NEW c \in Clients, ResolveExisting(c) \/ StatFile(c)
    PROVE  IInv'
<1> USE DEF ResolveExisting, StatFile, Goto, Answer, fs
<1>1. TypeOK'
  BY DEF IInv, TypeOK, PCs, Codes
<1>2. Places'
  BY DEF IInv, TypeOK, Places, PutPlaces
<1>3. Written'
  BY DEF IInv, TypeOK, Written, BeforeCopy, Whole
<1>4. Moves(c) /\ Silent(c)
  BY DEF IInv, TypeOK, Moves, Silent, AfterLink, Places
<1> QED BY <1>1, <1>2, <1>3, <1>4, MovePreserves

-----------------------------------------------------------------------------
(***************************************************************************)
(* The steps that change a name                                            *)
(***************************************************************************)

\* A call of c goes on to its end and leaves the files themselves alone.
Ends(c) ==
    /\ UNCHANGED <<req, data, synced>>
    /\ \A d \in Clients \ {c} : pc'[d] = pc[d] /\ reply'[d] = reply[d]
    /\ pc[c] \in AfterLink => pc'[c] \in AfterLink

\* Such a step takes nothing from a complete file.
LEMMA CompleteKept ==
    ASSUME NEW c \in Clients, Ends(c), NEW f, Complete(f)
    PROVE  Complete(f)'
BY DEF Ends, Complete, Whole

\* The path of a call that has one.
LEMMA OwnPath ==
    ASSUME IInv, NEW c \in Clients, pc[c] # "idle", req[c].kind # "CheckReady"
    PROVE  req[c].path \in Paths
BY RequestKinds DEF IInv, Places

\* os.Link: a complete file gets its name, which nobody had.
LEMMA LinkPreserves ==
    ASSUME IInv, NEW c \in Clients, Link(c)
    PROVE  IInv'
<1> USE DEF Link, Goto, Abandon
<1> DEFINE path == req[c].path
<1>1. path \in Paths /\ req[c].kind = "Put" /\ pc[c] = "link"
  BY OwnPath DEF IInv, Places, PutPlaces
<1>2. TypeOK'
  BY <1>1 DEF IInv, TypeOK, PCs, Codes
<1>3. Places'
  BY DEF IInv, TypeOK, Places, PutPlaces
<1>4. Written'
  BY DEF IInv, TypeOK, Written, BeforeCopy, Whole
<1>5. CASE UNCHANGED names
  <2>1. Moves(c) /\ Silent(c)
    BY <1>5, <1>1, NilAssumption DEF IInv, TypeOK, Moves, Silent, AfterLink, Places
  <2> QED BY <2>1, <1>2, <1>3, <1>4, MovePreserves
<1>6. CASE names[path] = Nil /\ names' = [names EXCEPT ![path] = c]
  <2>1. names'[path] = c /\ \A p \in Paths \ {path} : names'[p] = names[p]
    BY <1>1, <1>6 DEF IInv, TypeOK
  <2>2. /\ pc'[c] = "unlinkTemp" /\ reply'[c] = reply[c]
        /\ \A d \in Clients \ {c} : pc'[d] = pc[d] /\ reply'[d] = reply[d]
    BY <1>6, <1>1, NilAssumption DEF IInv, TypeOK
  <2>3. Ends(c) /\ UNCHANGED <<req, file, durable, gone>>
    BY <1>1, <2>2 DEF Ends, AfterLink
  <2>4. \A f : Complete(f) => Complete(f)' /\ f # c
    BY <1>1, <2>3, CompleteKept DEF Complete, AfterLink
  <2>5. Complete(c)'
    BY <1>1, <2>2 DEF IInv, Written, Complete, AfterLink, Whole
  <2> HIDE DEF Link
  <2>6. Named'
    BY <2>1, <2>3, <2>4, <2>5 DEF IInv, Named
  <2>7. Held'
    BY <2>3, <2>4 DEF IInv, Held
  <2>8. Placed'
    BY <1>6, <2>1, <2>2, <2>3, OwnPath, NilAssumption DEF IInv, Placed, Places, PutPlaces
  <2>9. Removed'
    BY <1>6, <2>1, <2>2, <2>3, <2>4, OwnPath DEF IInv, Removed, Held, Places
  <2>10. PutKept'
    BY <1>6, <2>1, <2>2, <2>3, OwnPath, NilAssumption DEF IInv, PutKept
  <2>11. DeleteKept'
    BY <1>6, <2>1, <2>2, <2>3, <2>4, OwnPath DEF IInv, DeleteKept, Held
  <2>12. Verified'
    BY <2>2, <2>3 DEF IInv, Verified
  <2> QED BY <1>2, <1>3, <1>4, <2>6, <2>7, <2>8, <2>9, <2>10, <2>11, <2>12 DEF IInv
<1> QED BY <1>5, <1>6

\* fsync of a directory: a name on the disk is what it was, or what it is now.
LEMMA SyncedNames ==
    ASSUME TypeOK, NEW dir, Synced(dir)
    PROVE  /\ durable' \in [Paths -> Clients \cup {Nil}]
           /\ \A p \in Paths : durable'[p] \in {names[p], durable[p]}
           /\ \A p \in Paths : Parent(p) = dir => durable'[p] = names[p]
           /\ durableDirs' \subseteq dirs
<1>1. durable' = [p \in Paths |-> IF Parent(p) = dir THEN names[p] ELSE durable[p]]
  BY DEF Synced
<1>2. durableDirs' \subseteq dirs
  BY Zenon DEF TypeOK, Synced
<1> QED BY <1>1, <1>2 DEF TypeOK

\* A directory is synced, by the Put that made the name or by the Delete that
\* removed it.
LEMMA SyncPreserves ==
    ASSUME IInv, NEW c \in Clients, SyncTargetDirectory(c) \/ SyncRemoval(c)
    PROVE  IInv'
<1> USE DEF SyncTargetDirectory, SyncRemoval, Goto, Answer
<1> DEFINE path == req[c].path
<1>1. path \in Paths /\ req[c] \in Requests /\ pc[c] \in {"syncDir", "syncRemoved"}
      /\ req[c].kind = (IF pc[c] = "syncDir" THEN "Put" ELSE "Delete")
  BY OwnPath DEF IInv, Places, PutPlaces
<1>2. /\ UNCHANGED <<req, file, data, synced, temps, names, dirs, gone, crashes>>
      /\ pc'[c] \in {"done", "undo"} /\ (pc'[c] = "undo" => pc[c] = "syncDir")
      /\ \A d \in Clients \ {c} : pc'[d] = pc[d] /\ reply'[d] = reply[d]
      /\ pc' \in [Clients -> PCs] /\ reply' \in [Clients -> Codes \cup {Nil}]
  BY DEF IInv, TypeOK, PCs, Codes
<1>3. reply'[c] = "OK" => pc'[c] = "done" /\ Synced(Parent(path))
  BY DEF IInv, TypeOK, Places
<1>4. (reply'[c] # "OK" /\ UNCHANGED <<durable, durableDirs>>) \/ Synced(Parent(path))
  BY <1>1 DEF IInv, TypeOK, Places
<1> HIDE DEF SyncTargetDirectory, SyncRemoval
<1>5. /\ durable' \in [Paths -> Clients \cup {Nil}]
      /\ durableDirs' \subseteq dirs
      /\ \A p \in Paths : durable'[p] \in {names[p], durable[p]}
  BY <1>4, SyncedNames DEF IInv, TypeOK
<1>6. reply'[c] = "OK" => durable'[path] = names[path]
  BY <1>1, <1>3, SyncedNames DEF IInv
<1>7. TypeOK'
  BY <1>2, <1>5 DEF IInv, TypeOK
<1>8. Places'
  BY <1>1, <1>2, <1>3 DEF IInv, Places, PutPlaces
<1>9. Written'
  BY <1>1, <1>2 DEF IInv, Written, BeforeCopy, Whole
<1>10. \A f : Complete(f) => Complete(f)'
  <2>1. Ends(c)
    BY <1>1, <1>2 DEF Ends, AfterLink
  <2> QED BY <2>1, CompleteKept
<1>11. Named' /\ Held'
  BY <1>2, <1>5, <1>10 DEF IInv, Named, Held
<1>12. Placed'
  BY <1>2, <1>1 DEF IInv, Placed
<1>13. Removed'
  BY <1>2 DEF IInv, Removed
<1>14. PutKept'
  <2> SUFFICES ASSUME NEW d \in Clients, pc'[d] = "done", req[d].kind = "Put",
                      reply'[d] = "OK", d \notin gone
               PROVE  names[req[d].path] = d /\ durable'[req[d].path] = d
    BY <1>2 DEF PutKept
  <2>1. CASE d = c
    BY <2>1, <1>1, <1>6 DEF IInv, Placed
  <2>2. CASE d # c
    <3>1. names[req[d].path] = d /\ durable[req[d].path] = d /\ req[d].path \in Paths
      BY <2>2, <1>2, OwnPath DEF IInv, PutKept
    <3> QED BY <3>1, <1>5
  <2> QED BY <2>1, <2>2
<1>15. DeleteKept'
  <2> SUFFICES ASSUME NEW d \in Clients, pc'[d] = "done", req[d].kind = "Delete",
                      reply'[d] = "OK"
               PROVE  /\ file[d] # Nil
                      /\ names[req[d].path] # file[d] /\ durable'[req[d].path] # file[d]
    BY <1>2 DEF DeleteKept
  <2>1. CASE d = c
    BY <2>1, <1>1, <1>6 DEF IInv, Removed
  <2>2. CASE d # c
    <3>1. file[d] # Nil /\ names[req[d].path] # file[d] /\ durable[req[d].path] # file[d]
          /\ req[d].path \in Paths
      BY <2>2, <1>2, OwnPath DEF IInv, DeleteKept
    <3> QED BY <3>1, <1>5
  <2> QED BY <2>1, <2>2
<1>16. Verified'
  BY <1>1, <1>2 DEF IInv, Verified
<1> QED BY <1>7, <1>8, <1>9, <1>11, <1>12, <1>13, <1>14, <1>15, <1>16 DEF IInv

\* os.Remove of a name: c is the call that removes it.
Removes(c) ==
    LET path == req[c].path IN
    /\ Ends(c) /\ UNCHANGED durable
    /\ names' = [names EXCEPT ![path] = Nil]
    /\ gone' = gone \cup ({names[path]} \ {Nil})
    /\ file' = file \/ (names[path] # Nil /\ file' = [file EXCEPT ![c] = names[path]])
    /\ pc'[c] \in {"done", "syncRemoved"} /\ reply'[c] # "OK"
    /\ pc'[c] = "syncRemoved" => file'[c] = names[path] /\ names[path] # Nil

\* Whoever loses its name is marked gone, so no other call is misled.
LEMMA RemovePreserves ==
    ASSUME IInv, NEW c \in Clients, Removes(c), req[c].path \in Paths,
           pc[c] \in {"undo", "remove"}, TypeOK', Places', Written'
    PROVE  IInv'
<1> DEFINE path == req[c].path
<1>1. names'[path] = Nil /\ \A p \in Paths \ {path} : names'[p] = names[p]
  BY DEF Removes, IInv, TypeOK
<1>2. \A f : Complete(f) => Complete(f)'
  BY CompleteKept DEF Removes
<1>3. /\ UNCHANGED <<req, durable>>
      /\ \A d \in Clients \ {c} : pc'[d] = pc[d] /\ reply'[d] = reply[d] /\ file'[d] = file[d]
      /\ \/ file'[c] = file[c]
         \/ names[path] # Nil /\ file'[c] = names[path]
  BY DEF Removes, Ends, IInv, TypeOK
<1>4. \A d \in Clients : names[path] = d => d \in gone'
  BY NilAssumption DEF Removes
<1>5. Named'
  BY <1>1, <1>2, <1>3 DEF IInv, Named
<1>6. Held'
  BY <1>2, <1>3 DEF IInv, Held, Named
<1>7. \A d \in Clients : d \notin gone' =>
        /\ d \notin gone
        /\ \A p \in Paths : names[p] = d => names'[p] = d
  BY <1>1, <1>4 DEF Removes
<1>8. Placed'
  BY <1>3, <1>7, OwnPath DEF IInv, Placed, Places, PutPlaces, Removes
<1>9. Removed'
  BY <1>1, <1>3, OwnPath DEF IInv, Removed, Places, Removes
<1>10. PutKept'
  BY <1>3, <1>7, OwnPath DEF IInv, PutKept, Removes
<1>11. DeleteKept'
  BY <1>1, <1>3, OwnPath DEF IInv, DeleteKept, Removes
<1>12. Verified'
  BY <1>3 DEF IInv, Verified, Removes
<1> QED BY <1>5, <1>6, <1>8, <1>9, <1>10, <1>11, <1>12 DEF IInv

\* A Put that could not sync its directory removes whatever has its name.
LEMMA UndoLinkPreserves ==
    ASSUME IInv, NEW c \in Clients, UndoLink(c)
    PROVE  IInv'
<1> USE DEF UndoLink, Goto, Answer
<1>1. req[c].path \in Paths
  BY OwnPath DEF IInv, Places, PutPlaces
<1>2. TypeOK'
  BY <1>1 DEF IInv, TypeOK, PCs, Codes
<1>3. Places'
  BY DEF IInv, TypeOK, Places, PutPlaces
<1>4. Written'
  BY DEF IInv, TypeOK, Written, BeforeCopy, Whole
<1>5. CASE UNCHANGED <<names, gone>>
  <2>1. Moves(c) /\ Silent(c)
    BY <1>5 DEF IInv, TypeOK, Moves, Silent, AfterLink, Places
  <2> QED BY <2>1, <1>2, <1>3, <1>4, MovePreserves
<1>6. CASE /\ names' = [names EXCEPT ![req[c].path] = Nil]
           /\ gone' = gone \cup ({names[req[c].path]} \ {Nil})
  <2>1. Removes(c)
    BY <1>6 DEF IInv, TypeOK, Removes, Ends, AfterLink
  <2> QED BY <1>1, <1>2, <1>3, <1>4, <2>1, RemovePreserves
<1> QED BY <1>5, <1>6

\* Delete removes the name and remembers the file it removed.
LEMMA RemoveFilePreserves ==
    ASSUME IInv, NEW c \in Clients, RemoveFile(c)
    PROVE  IInv'
<1> USE DEF RemoveFile, Goto, Answer
<1>1. req[c].path \in Paths
  BY OwnPath DEF IInv, Places
<1>2. TypeOK'
  BY <1>1 DEF IInv, TypeOK, PCs, Codes
<1>3. Places'
  BY DEF IInv, TypeOK, Places, PutPlaces
<1>4. Written'
  BY DEF IInv, TypeOK, Written, BeforeCopy, Whole
<1>5. CASE UNCHANGED <<names, file, gone>> /\ pc'[c] = "done"
  <2>1. Moves(c) /\ Silent(c)
    BY <1>5 DEF IInv, TypeOK, Moves, Silent, AfterLink, Places
  <2> QED BY <2>1, <1>2, <1>3, <1>4, MovePreserves
<1>6. CASE /\ names[req[c].path] # Nil
           /\ names' = [names EXCEPT ![req[c].path] = Nil]
           /\ file' = [file EXCEPT ![c] = names[req[c].path]]
           /\ gone' = gone \cup {names[req[c].path]}
           /\ pc' = [pc EXCEPT ![c] = "syncRemoved"] /\ reply' = reply
  <2>1. Ends(c) /\ UNCHANGED durable
    BY <1>6 DEF Ends, IInv, TypeOK, AfterLink
  <2>2. reply'[c] # "OK" /\ pc'[c] = "syncRemoved" /\ file'[c] = names[req[c].path]
    BY <1>6 DEF IInv, TypeOK, Places
  <2>3. Removes(c)
    BY <1>6, <2>1, <2>2 DEF Removes
  <2> QED BY <1>1, <1>2, <1>3, <1>4, <2>3, RemovePreserves
<1> QED BY <1>5, <1>6 DEF IInv, TypeOK

\* A reader that opened a name holds a complete file.
LEMMA OpenPreserves ==
    ASSUME IInv, NEW c \in Clients, OpenFile(c)
    PROVE  IInv'
<1> USE DEF OpenFile, Goto, Answer, fs
<1>1. req[c].path \in Paths /\ pc[c] = "open" /\ req[c].kind = "Open" /\ reply[c] # "OK"
  BY OwnPath DEF IInv, Places
<1>2. TypeOK'
  BY <1>1 DEF IInv, TypeOK, PCs, Codes
<1>3. Places'
  BY DEF IInv, TypeOK, Places, PutPlaces
<1>4. Written'
  BY DEF IInv, TypeOK, Written, BeforeCopy, Whole
<1>5. CASE UNCHANGED file /\ pc'[c] = "done"
  <2>1. Moves(c) /\ Silent(c)
    BY <1>1, <1>5 DEF IInv, TypeOK, Moves, Silent, AfterLink, Places
  <2> QED BY <2>1, <1>2, <1>3, <1>4, MovePreserves
<1>6. CASE /\ names[req[c].path] # Nil
           /\ file' = [file EXCEPT ![c] = names[req[c].path]]
           /\ pc' = [pc EXCEPT ![c] = "stat"] /\ reply' = reply
  <2>1. Ends(c) /\ UNCHANGED <<names, durable, gone>>
    BY <1>1, <1>6 DEF Ends, IInv, TypeOK, AfterLink
  <2>2. /\ UNCHANGED <<req, reply>> /\ pc'[c] = "stat" /\ file'[c] = names[req[c].path]
        /\ \A d \in Clients \ {c} : pc'[d] = pc[d] /\ file'[d] = file[d]
    BY <1>6 DEF IInv, TypeOK
  <2>3. \A f : Complete(f) => Complete(f)'
    BY <2>1, CompleteKept
  <2> HIDE DEF OpenFile
  <2>4. Named'
    BY <2>1, <2>2, <2>3 DEF IInv, Named
  <2>5. Held'
    BY <1>1, <2>2, <2>3 DEF IInv, Held, Named
  <2>6. Placed' /\ Removed' /\ PutKept'
    BY <2>1, <2>2 DEF IInv, Placed, Removed, PutKept
  <2>7. DeleteKept' /\ Verified'
    BY <2>1, <2>2 DEF IInv, DeleteKept, Verified
  <2> QED BY <1>2, <1>3, <1>4, <2>4, <2>5, <2>6, <2>7 DEF IInv
<1> QED BY <1>5, <1>6 DEF IInv, TypeOK

\* OpenVerified answers OK only when the digest is the one that was asked for.
LEMMA HashPreserves ==
    ASSUME IInv, NEW c \in Clients, HashFile(c)
    PROVE  IInv'
<1> USE DEF HashFile, Goto, Answer, fs
<1>1. pc[c] = "hash" /\ req[c].kind = "Open"
  BY DEF IInv, Places
<1>2. TypeOK'
  BY DEF IInv, TypeOK, PCs, Codes
<1>3. Places'
  BY DEF IInv, TypeOK, Places, PutPlaces
<1>4. Written'
  BY DEF IInv, TypeOK, Written, BeforeCopy, Whole
<1>5. reply'[c] = "OK" => req[file[c]].content = req[c].content
  BY DEF IInv, TypeOK, Digest
<1>6. /\ UNCHANGED <<req, file, names, durable, gone>>
      /\ pc'[c] = "done" /\ \A d \in Clients \ {c} : pc'[d] = pc[d] /\ reply'[d] = reply[d]
  BY DEF IInv, TypeOK
<1>7. \A f : Complete(f) => Complete(f)'
  BY <1>1, <1>6, CompleteKept DEF Ends, AfterLink
<1> HIDE DEF HashFile
<1>8. Named' /\ Held'
  BY <1>6, <1>7 DEF IInv, Named, Held
<1>9. Placed' /\ Removed'
  BY <1>6 DEF IInv, Placed, Removed
<1>10. PutKept' /\ DeleteKept'
  BY <1>1, <1>6 DEF IInv, PutKept, DeleteKept
<1>11. Verified'
  BY <1>5, <1>6 DEF IInv, Verified
<1> QED BY <1>2, <1>3, <1>4, <1>8, <1>9, <1>10, <1>11 DEF IInv

-----------------------------------------------------------------------------
(***************************************************************************)
(* The loss of power                                                       *)
(***************************************************************************)

\* After a crash a name is what it was on the disk or in memory, or nothing;
\* a file loses the blocks that were not synced; calls under way are lost.
LEMMA CrashEffect ==
    ASSUME TypeOK, Crash
    PROVE  /\ names' \in [Paths -> Clients \cup {Nil}]
           /\ durable' = names'
           /\ \A p \in Paths : names'[p] \in {Nil, names[p], durable[p]}
           /\ \A p \in Paths : names[p] = durable[p] /\ names[p] # Nil =>
                 names'[p] = names[p] \/ names[p] \in gone'
           /\ gone \subseteq gone' /\ gone' \subseteq Clients
           /\ data' \in [Clients -> 0..MaxFileBytes + 1]
           /\ synced' = data'
           /\ \A c \in Clients : data'[c] \in {data[c], synced[c]}
<1>1. PICK flushed \in SUBSET {p \in Paths : names[p] # durable[p]},
           kept \in SUBSET {c \in Clients : data[c] # synced[c]},
           found \in SUBSET (dirs \ durableDirs) :
         LET left == durableDirs \cup found
             after == [p \in Paths |->
                 IF ~(Ancestors(p) \subseteq left) THEN Nil
                 ELSE IF p \in flushed THEN names[p] ELSE durable[p]]
         IN /\ dirs' = {d \in left : \A n \in 0..Len(d) : SubSeq(d, 1, n) \in left}
            /\ durableDirs' = dirs'
            /\ names' = after /\ durable' = after
            /\ gone' = gone \cup {names[p] : p \in {q \in Paths :
                   names[q] # Nil /\ ~(Ancestors(q) \subseteq left)}}
            /\ data' = [c \in Clients |-> IF c \in kept THEN data[c] ELSE synced[c]]
            /\ synced' = data'
  BY Zenon DEF Crash
<1> DEFINE Lost(p) == ~(Ancestors(p) \subseteq durableDirs \cup found)
<1>2. /\ names' = [p \in Paths |-> IF Lost(p) THEN Nil
                                   ELSE IF p \in flushed THEN names[p] ELSE durable[p]]
      /\ durable' = names'
      /\ gone' = gone \cup {names[p] : p \in {q \in Paths : names[q] # Nil /\ Lost(q)}}
      /\ data' = [c \in Clients |-> IF c \in kept THEN data[c] ELSE synced[c]]
      /\ synced' = data'
  BY <1>1
<1> HIDE DEF Lost
<1>3. /\ names' \in [Paths -> Clients \cup {Nil}]
      /\ \A p \in Paths : names'[p] \in {Nil, names[p], durable[p]}
      /\ \A p \in Paths : names[p] = durable[p] /\ ~Lost(p) => names'[p] = names[p]
  BY <1>2 DEF TypeOK
<1>4. \A p \in Paths : names[p] # Nil /\ Lost(p) => names[p] \in gone'
  BY <1>2
<1>5. gone \subseteq gone' /\ gone' \subseteq Clients
  BY <1>2 DEF TypeOK
<1>6. data' \in [Clients -> 0..MaxFileBytes + 1]
      /\ \A c \in Clients : data'[c] \in {data[c], synced[c]}
  BY <1>2 DEF TypeOK
<1> QED BY <1>2, <1>3, <1>4, <1>5, <1>6

\* A loss of power at any moment takes nothing that was promised.
LEMMA CrashPreserves ==
    ASSUME IInv, Crash
    PROVE  IInv'
<1>1. /\ UNCHANGED <<req, reply, temps>>
      /\ pc' = [c \in Clients |-> IF pc[c] \in {"idle", "done"} THEN pc[c] ELSE "lost"]
      /\ file' = [c \in Clients |-> IF pc[c] = "done" /\ req[c].kind # "Open"
                                    THEN file[c] ELSE Nil]
      /\ durableDirs' = dirs'
      /\ crashes < MaxCrashes /\ crashes' = crashes + 1
  BY DEF Crash
<1>2. /\ names' \in [Paths -> Clients \cup {Nil}]
      /\ durable' = names'
      /\ \A p \in Paths : names'[p] \in {Nil, names[p], durable[p]}
      /\ \A p \in Paths : names[p] = durable[p] /\ names[p] # Nil =>
            names'[p] = names[p] \/ names[p] \in gone'
      /\ gone \subseteq gone' /\ gone' \subseteq Clients
      /\ data' \in [Clients -> 0..MaxFileBytes + 1]
      /\ synced' = data'
      /\ \A c \in Clients : data'[c] \in {data[c], synced[c]}
  BY CrashEffect DEF IInv
<1>3. TypeOK'
  <2>1. pc' \in [Clients -> PCs] /\ file' \in [Clients -> Clients \cup {Nil}]
    BY <1>1 DEF IInv, TypeOK, PCs
  <2>2. crashes' \in 0..MaxCrashes
    BY <1>1, MaxCrashesAssumption DEF IInv, TypeOK
  <2>3. \A c \in Clients : synced'[c] <= data'[c]
    BY <1>2, MaxFileBytesAssumption
  <2> QED BY <1>1, <1>2, <2>1, <2>2, <2>3 DEF IInv, TypeOK
<1>4. Places'
  BY <1>1 DEF IInv, Places, PutPlaces
<1>5. Written'
  <2>1. \A c \in Clients : pc[c] = "idle" => data'[c] = 0
    BY <1>2, MaxFileBytesAssumption DEF IInv, TypeOK, Written, BeforeCopy
  <2> QED BY <1>1, <2>1 DEF Written, BeforeCopy
<1>6. \A f : Complete(f) => Complete(f)'
  <2> SUFFICES ASSUME NEW f, Complete(f) PROVE Complete(f)'
    OBVIOUS
  <2>1. pc'[f] \in AfterLink
    BY <1>1 DEF Complete, AfterLink
  <2>2. data'[f] = data[f] /\ synced'[f] = data'[f]
    BY <1>2 DEF Complete, Whole
  <2> QED BY <1>1, <2>1, <2>2 DEF Complete, Whole
<1>7. Named'
  BY <1>1, <1>2, <1>6 DEF IInv, Named
<1>8. Held'
  BY <1>1, <1>6 DEF IInv, Held
<1>9. Placed' /\ Removed'
  BY <1>1 DEF Placed, Removed
<1>10. PutKept'
  <2> SUFFICES ASSUME NEW c \in Clients, pc'[c] = "done", req[c].kind = "Put",
                      reply[c] = "OK", c \notin gone'
               PROVE  names'[req[c].path] = c
    BY <1>1, <1>2 DEF PutKept
  <2>1. names[req[c].path] = c /\ durable[req[c].path] = c /\ req[c].path \in Paths
    BY <1>1, <1>2, OwnPath DEF IInv, PutKept
  <2> QED BY <1>2, <2>1, NilAssumption
<1>11. DeleteKept'
  <2> SUFFICES ASSUME NEW c \in Clients, pc'[c] = "done", req[c].kind = "Delete",
                      reply[c] = "OK"
               PROVE  file'[c] # Nil /\ names'[req[c].path] # file'[c]
    BY <1>1, <1>2 DEF DeleteKept
  <2>1. pc[c] = "done" /\ file'[c] = file[c] /\ req[c].path \in Paths
    BY <1>1, OwnPath
  <2> QED BY <1>2, <2>1 DEF IInv, DeleteKept
<1>12. Verified'
  BY <1>1 DEF Verified
<1> QED BY <1>3, <1>4, <1>5, <1>7, <1>8, <1>9, <1>10, <1>11, <1>12 DEF IInv

-----------------------------------------------------------------------------
(***************************************************************************)
(* The theorems                                                            *)
(***************************************************************************)

\* An empty root satisfies the invariant.
LEMMA InitEstablishes == Init => IInv
<1> SUFFICES ASSUME Init PROVE IInv
  OBVIOUS
<1> USE DEF Init
<1>1. TypeOK
  BY MaxFileBytesAssumption, MaxCrashesAssumption DEF TypeOK, PCs
<1>2. Places
  BY NilAssumption DEF Places, PutPlaces, Codes
<1>3. Written
  BY DEF Written, BeforeCopy
<1>4. Named /\ Held
  BY DEF Named, Held
<1>5. Placed /\ Removed /\ PutKept /\ DeleteKept /\ Verified
  BY DEF Placed, Removed, PutKept, DeleteKept, Verified
<1> QED BY <1>1, <1>2, <1>3, <1>4, <1>5 DEF IInv

\* Every step of every call, and a loss of power, keeps it.
LEMMA NextPreserves == IInv /\ [Next]_vars => IInv'
<1> SUFFICES ASSUME IInv, [Next]_vars PROVE IInv'
  OBVIOUS
<1>1. ASSUME NEW c \in Clients, Call(c) PROVE IInv'
  BY <1>1, CallPreserves
<1>2. ASSUME NEW c \in Clients, EnsureDirectory(c) \/ CheckAbsent(c) \/ CreateTemp(c) PROVE IInv'
  BY <1>2, PreparePreserves
<1>3. ASSUME NEW c \in Clients, CopyBlock(c) PROVE IInv'
  BY <1>3, CopyPreserves
<1>4. ASSUME NEW c \in Clients, SyncTemp(c) PROVE IInv'
  BY <1>4, SyncTempPreserves
<1>5. ASSUME NEW c \in Clients, Link(c) PROVE IInv'
  BY <1>5, LinkPreserves
<1>6. ASSUME NEW c \in Clients,
             UnlinkTemp(c) \/ Cleanup(c) \/ WriteProbe(c) \/ RemoveProbe(c)
      PROVE IInv'
  BY <1>6, TemporaryPreserves
<1>7. ASSUME NEW c \in Clients, SyncTargetDirectory(c) \/ SyncRemoval(c) PROVE IInv'
  BY <1>7, SyncPreserves
<1>8. ASSUME NEW c \in Clients, UndoLink(c) PROVE IInv'
  BY <1>8, UndoLinkPreserves
<1>9. ASSUME NEW c \in Clients, ResolveExisting(c) \/ StatFile(c) PROVE IInv'
  BY <1>9, ReadPreserves
<1>10. ASSUME NEW c \in Clients, OpenFile(c) PROVE IInv'
  BY <1>10, OpenPreserves
<1>11. ASSUME NEW c \in Clients, HashFile(c) PROVE IInv'
  BY <1>11, HashPreserves
<1>12. ASSUME NEW c \in Clients, RemoveFile(c) PROVE IInv'
  BY <1>12, RemoveFilePreserves
<1>13. CASE Crash
  BY <1>13, CrashPreserves
<1>14. CASE UNCHANGED vars
  BY <1>14 DEF vars, IInv, TypeOK, Places, Written, Whole, Complete, Named, Held, Placed,
               Removed, PutKept, DeleteKept, Verified
<1> QED BY <1>1, <1>2, <1>3, <1>4, <1>5, <1>6, <1>7, <1>8, <1>9, <1>10, <1>11, <1>12,
           <1>13, <1>14 DEF Next, AllDone

\* The invariant of the backup storage.
THEOREM Inductive == Spec => []IInv
BY InitEstablishes, NextPreserves, PTL DEF Spec

\* The state of the storage is well formed; no file grows past the first block
\* beyond MaxFileBytes (copyWithContext) and nothing is durable that was not
\* written.
THEOREM TypeCorrect == Spec => []TypeOK
<1>1. IInv => TypeOK
  BY DEF IInv
<1> QED BY <1>1, Inductive, PTL

\* A backup is never seen in part: what has a final name, in memory or on the
\* disk, and what OpenVerified handed out, has all its blocks, all durable.
THEOREM BackupsAreComplete == Spec => []VisibleIsComplete
<1>1. IInv => VisibleIsComplete
  <2> SUFFICES ASSUME IInv PROVE VisibleIsComplete
    OBVIOUS
  <2>1. \A p \in Paths : \A f \in {names[p], durable[p]} \ {Nil} : Whole(f)
    BY DEF IInv, Named, Complete
  <2>2. ASSUME NEW c \in Clients, file[c] # Nil, req[c].kind = "Open", reply[c] = "OK"
        PROVE  Whole(file[c]) /\ req[file[c]].content = req[c].content
    BY <2>2 DEF IInv, Places, Held, Complete, Verified
  <2> QED BY <2>1, <2>2 DEF VisibleIsComplete
<1> QED BY <1>1, Inductive, PTL

\* What Put and Delete acknowledged survives any number of losses of power.
THEOREM AcknowledgementsHold == Spec => []AcknowledgedIsDurable
<1>1. IInv => AcknowledgedIsDurable
  <2> SUFFICES ASSUME IInv, NEW c \in Clients
               PROVE  /\ Stored(c) /\ c \notin gone =>
                           names[req[c].path] = c /\ durable[req[c].path] = c
                      /\ req[c] # Nil /\ req[c].kind = "Delete" /\ reply[c] = "OK" =>
                           file[c] \notin {names[req[c].path], durable[req[c].path]}
    BY DEF AcknowledgedIsDurable
  <2>1. reply[c] = "OK" => pc[c] = "done"
    BY DEF IInv, Places
  <2> QED BY <2>1 DEF IInv, Stored, PutKept, DeleteKept
<1> QED BY <1>1, Inductive, PTL
=============================================================================
