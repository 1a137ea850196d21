--------------------------- MODULE BackupStorage ---------------------------
(***************************************************************************)
(* Storage of internal/backupfs/storage.go: immutable backup files below   *)
(* one root directory, written as a temporary file that is synced, linked  *)
(* to its final name and made durable by syncing the directory.            *)
(*                                                                         *)
(* A step is one system call, with the tests that follow it.  The file     *)
(* system is external: a current and a durable version of every name, and  *)
(* of the length of every file.  A crash is a loss of power: the pages and *)
(* directory entries that were not synced may or may not have reached the  *)
(* disk.  Nobody else writes below the root, so the tests for symbolic     *)
(* links and permissions never fail here.                                  *)
(*                                                                         *)
(* A client makes one request.  A file is identified with the client whose *)
(* Put made it, its data with the content and the number of blocks         *)
(* written (copyWithContext writes a block at a time); SHA-256 is taken to *)
(* be injective.                                                           *)
(***************************************************************************)
EXTENDS Integers, Sequences

CONSTANTS Clients,       \* callers of the storage, one request each
          Requests,      \* the requests they choose from
          MaxFileBytes,  \* Config.MaxFileBytes, in blocks
          MaxCrashes,    \* bound on the losses of power
          Nil

ASSUME MaxFileBytesAssumption == MaxFileBytes \in Nat \ {0}
ASSUME MaxCrashesAssumption == MaxCrashes \in Nat
\* A path is a sequence of segments.
ASSUME RequestsAssumption ==
    \A r \in Requests :
        \/ r.kind \in {"Put", "Open"} /\ r.path \in Seq(STRING) /\ r.size \in Nat
        \/ r.kind = "Delete" /\ r.path \in Seq(STRING)
        \/ r.kind = "CheckReady"
\* No path asked for is also a directory of another one.
ASSUME DisjointAssumption ==
    \A r, q \in {x \in Requests : x.kind # "CheckReady"} : \A n \in 1..Len(q.path) - 1 :
        r.path # SubSeq(q.path, 1, n)

VARIABLES pc, req, reply,
          file,        \* of each client: the inode a delete removed or a reader holds
          data,        \* the blocks written to the file of each Put
          synced,      \* the blocks of it that are durable
          temps,       \* the temporary files present, by the client that made them
          names,       \* the files under their final names
          durable,     \* ... as they would be found after a crash
          dirs,        \* the directories below the root
          durableDirs, \* ... whose entry in their parent is durable
          gone,        \* history: files whose final name was removed or lost
          crashes

vars == <<pc, req, reply, file, data, synced, temps, names, durable, dirs,
          durableDirs, gone, crashes>>

Paths == {r.path : r \in {q \in Requests : q.kind # "CheckReady"}}
Parent(path) == SubSeq(path, 1, Len(path) - 1)

PCs == {"idle", "mkdir", "exists", "create", "copy", "sync", "link", "unlinkTemp",
        "syncDir", "undo", "cleanup",                         \* Put
        "resolve", "open", "stat", "hash",                    \* OpenVerified
        "remove", "syncRemoved",                              \* Delete
        "probe", "unprobe",                                   \* CheckReady
        "done", "lost"}

Codes == {"OK", "VALIDATION_ERROR", "STATE_CONFLICT", "BACKUP_FAILED",
          "RESULT_TOO_LARGE", "BACKUP_NOT_FOUND", "BACKUP_INTEGRITY_FAILED",
          "ERROR"}

ASSUME NilAssumption == Nil \notin Clients \cup Codes

\* Types: no file grows past the first block beyond the limit, and nothing is
\* durable that was not written.
TypeOK ==
    /\ pc \in [Clients -> PCs]
    /\ req \in [Clients -> Requests \cup {Nil}]
    /\ reply \in [Clients -> Codes \cup {Nil}]
    /\ file \in [Clients -> Clients \cup {Nil}]
    /\ data \in [Clients -> 0..MaxFileBytes + 1]
    /\ synced \in [Clients -> 0..MaxFileBytes + 1]
    /\ \A c \in Clients : synced[c] <= data[c]
    /\ temps \subseteq Clients
    /\ names \in [Paths -> Clients \cup {Nil}]
    /\ durable \in [Paths -> Clients \cup {Nil}]
    /\ durableDirs \subseteq dirs
    /\ gone \subseteq Clients
    /\ crashes \in 0..MaxCrashes

\* New: the root exists and is empty.
Init ==
    /\ pc = [c \in Clients |-> "idle"]
    /\ req = [c \in Clients |-> Nil]
    /\ reply = [c \in Clients |-> Nil]
    /\ file = [c \in Clients |-> Nil]
    /\ data = [c \in Clients |-> 0]
    /\ synced = [c \in Clients |-> 0]
    /\ temps = {}
    /\ names = [p \in Paths |-> Nil]
    /\ durable = [p \in Paths |-> Nil]
    /\ dirs = {<<>>} /\ durableDirs = {<<>>}
    /\ gone = {}
    /\ crashes = 0

-----------------------------------------------------------------------------
(* The names of files.                                                     *)

\* Every segment is a plain name: the path stays below the root.
validateRelativePath(path) ==
    Len(path) > 0 /\ \A i \in DOMAIN path : path[i] \notin {"", ".", ".."}

\* The directories that a file at path needs.
Ancestors(path) == {SubSeq(path, 1, n) : n \in 0..Len(path) - 1}

\* fsync of a directory: its entries, the names of subdirectories included.
Synced(dir) ==
    /\ durable' = [p \in Paths |-> IF Parent(p) = dir THEN names[p] ELSE durable[p]]
    /\ durableDirs' = durableDirs
          \cup {d \in dirs : d # <<>> /\ Parent(d) = dir}

-----------------------------------------------------------------------------

Goto(c, at) == pc' = [pc EXCEPT ![c] = at]

Answer(c, code) == Goto(c, "done") /\ reply' = [reply EXCEPT ![c] = code]

fs == <<data, synced, temps, names, durable, dirs, durableDirs, gone>>

\* A request arrives: Put, OpenVerified, Delete and CheckReady up to their
\* first system call.  OpenVerified gets a well-formed digest.
Call(c) ==
    /\ pc[c] = "idle"
    /\ \E r \in Requests :
        /\ req' = [req EXCEPT ![c] = r]
        /\ IF r.kind # "CheckReady" /\ ~validateRelativePath(r.path)
           THEN Answer(c, "VALIDATION_ERROR")
           ELSE /\ Goto(c, CASE r.kind = "Put" -> "mkdir"
                             [] r.kind = "CheckReady" -> "probe"
                             [] OTHER -> "resolve")
                /\ UNCHANGED reply
    /\ UNCHANGED <<file, crashes>> /\ UNCHANGED fs

\* ensureSecureDirectory: the first missing directory is made; a racing
\* Mkdir that finds it made is no error.  A failing Lstat, Mkdir or Chmod of
\* a directory below the root ends the call.
EnsureDirectory(c) ==
    /\ pc[c] = "mkdir"
    /\ LET missing == Ancestors(req[c].path) \ dirs IN
       \/ /\ missing = {}
          /\ Goto(c, "exists") /\ UNCHANGED <<reply, dirs>>
       \/ /\ missing # {}
          /\ \E d \in missing :
                /\ \A e \in missing : Len(d) <= Len(e)
                /\ dirs' = dirs \cup {d}
          /\ UNCHANGED <<pc, reply>>
       \/ /\ Len(req[c].path) > 1
          /\ \E code \in {"BACKUP_FAILED", "BACKUP_INTEGRITY_FAILED"} : Answer(c, code)
          /\ UNCHANGED dirs
    /\ UNCHANGED <<req, file, data, synced, temps, names, durable, durableDirs,
                   gone, crashes>>

\* Lstat of the target.
CheckAbsent(c) ==
    /\ pc[c] = "exists"
    /\ \/ names[req[c].path] # Nil /\ Answer(c, "STATE_CONFLICT")
       \/ names[req[c].path] = Nil /\ Goto(c, "create") /\ UNCHANGED reply
       \/ Answer(c, "BACKUP_FAILED")
    /\ UNCHANGED <<req, file, crashes>> /\ UNCHANGED fs

\* The temporary file, under a random name of its own.
CreateTemp(c) ==
    /\ pc[c] = "create"
    /\ \/ temps' = temps \cup {c} /\ Goto(c, "copy") /\ UNCHANGED reply
       \/ Answer(c, "BACKUP_FAILED") /\ UNCHANGED temps
    /\ UNCHANGED <<req, file, data, synced, names, durable, dirs, durableDirs,
                   gone, crashes>>

\* A failure before the link: the deferred function removes the temporary
\* file and the code is returned.
Abandon(c, code) == Goto(c, "cleanup") /\ reply' = [reply EXCEPT ![c] = code]

\* Mutant: the limit on the size is not enforced while copying.
CopyBlockUnlimited(c) ==
    /\ pc[c] = "copy"
    /\ \/ /\ data[c] < req[c].size
          /\ data' = [data EXCEPT ![c] = @ + 1]
          /\ UNCHANGED <<pc, reply>>
       \/ /\ data[c] = req[c].size
          /\ Goto(c, "sync") /\ UNCHANGED <<reply, data>>
    /\ UNCHANGED <<req, file, synced, temps, names, durable, dirs, durableDirs,
                   gone, crashes>>

\* One round of copyWithContext: a block, the end of the source, or an error
\* (a cancelled context, a failing read, a failing or short write).
CopyBlock(c) ==
    /\ pc[c] = "copy"
    /\ \/ /\ data[c] < req[c].size
          /\ data' = [data EXCEPT ![c] = @ + 1]
          /\ IF data[c] + 1 > MaxFileBytes
             THEN Abandon(c, "RESULT_TOO_LARGE")
             ELSE UNCHANGED <<pc, reply>>
       \/ /\ data[c] = req[c].size
          /\ Goto(c, "sync") /\ UNCHANGED <<reply, data>>
       \/ Abandon(c, "BACKUP_FAILED") /\ UNCHANGED data
    /\ UNCHANGED <<req, file, synced, temps, names, durable, dirs, durableDirs,
                   gone, crashes>>

\* Mutant: the file is linked without having been synced.
SyncTempSkipped(c) ==
    /\ pc[c] = "sync"
    /\ Goto(c, "link")
    /\ UNCHANGED <<req, reply, file, crashes>> /\ UNCHANGED fs

\* temp.Sync, then Chmod and Close.
SyncTemp(c) ==
    /\ pc[c] = "sync"
    /\ \/ synced' = [synced EXCEPT ![c] = data[c]] /\ Goto(c, "link") /\ UNCHANGED reply
       \/ Abandon(c, "BACKUP_FAILED") /\ UNCHANGED synced
    /\ UNCHANGED <<req, file, data, temps, names, durable, dirs, durableDirs,
                   gone, crashes>>

\* os.Link: atomic, and refused when the name exists.
Link(c) ==
    /\ pc[c] = "link"
    /\ LET path == req[c].path IN
       \/ /\ names[path] = Nil
          /\ names' = [names EXCEPT ![path] = c]
          /\ Goto(c, "unlinkTemp") /\ UNCHANGED reply
       \/ names[path] # Nil /\ Abandon(c, "STATE_CONFLICT") /\ UNCHANGED names
       \/ Abandon(c, "BACKUP_FAILED") /\ UNCHANGED names
    /\ UNCHANGED <<req, file, data, synced, temps, durable, dirs, durableDirs,
                   gone, crashes>>

\* The temporary name is removed; an error is ignored.
UnlinkTemp(c) ==
    /\ pc[c] = "unlinkTemp"
    /\ temps' \in {temps, temps \ {c}}
    /\ Goto(c, "syncDir")
    /\ UNCHANGED <<req, reply, file, data, synced, names, durable, dirs,
                   durableDirs, gone, crashes>>

\* Mutant: the artifact is returned without syncing the directory.
SyncTargetDirectorySkipped(c) ==
    /\ pc[c] = "syncDir"
    /\ Answer(c, "OK")
    /\ UNCHANGED <<req, file, crashes>> /\ UNCHANGED fs

\* syncDirectory, and the artifact is returned.
SyncTargetDirectory(c) ==
    /\ pc[c] = "syncDir"
    /\ \/ Synced(Parent(req[c].path)) /\ Answer(c, "OK")
       \/ Goto(c, "undo") /\ UNCHANGED <<reply, durable, durableDirs>>
    /\ UNCHANGED <<req, file, data, synced, temps, names, dirs, gone, crashes>>

\* The directory could not be synced: os.Remove of whatever has the name; an
\* error of it is ignored.
UndoLink(c) ==
    /\ pc[c] = "undo"
    /\ LET path == req[c].path IN
       \/ /\ names' = [names EXCEPT ![path] = Nil]
          /\ gone' = gone \cup ({names[path]} \ {Nil})
       \/ UNCHANGED <<names, gone>>
    /\ Answer(c, "BACKUP_FAILED")
    /\ UNCHANGED <<req, file, data, synced, temps, durable, dirs, durableDirs, crashes>>

\* The deferred Close and Remove of the temporary file.
Cleanup(c) ==
    /\ pc[c] = "cleanup"
    /\ temps' \in {temps, temps \ {c}}
    /\ Goto(c, "done")
    /\ UNCHANGED <<req, reply, file, data, synced, names, durable, dirs,
                   durableDirs, gone, crashes>>

-----------------------------------------------------------------------------

\* resolveExisting of OpenVerified and Delete: Lstat along the path.
ResolveExisting(c) ==
    /\ pc[c] = "resolve"
    /\ \/ names[req[c].path] = Nil /\ Answer(c, "BACKUP_NOT_FOUND")
       \/ /\ names[req[c].path] # Nil
          /\ Goto(c, IF req[c].kind = "Open" THEN "open" ELSE "remove") /\ UNCHANGED reply
       \/ Answer(c, "BACKUP_FAILED")
    /\ UNCHANGED <<req, file, crashes>> /\ UNCHANGED fs

\* os.Open: the reader holds the file whatever becomes of its name.
OpenFile(c) ==
    /\ pc[c] = "open"
    /\ \/ /\ names[req[c].path] # Nil
          /\ file' = [file EXCEPT ![c] = names[req[c].path]]
          /\ Goto(c, "stat") /\ UNCHANGED reply
       \/ /\ names[req[c].path] = Nil
          /\ Answer(c, "BACKUP_NOT_FOUND") /\ UNCHANGED file
       \/ Answer(c, "BACKUP_FAILED") /\ UNCHANGED file
    /\ UNCHANGED <<req, crashes>> /\ UNCHANGED fs

\* file.Stat: it works, the size is the expected one and within the limit.
StatFile(c) ==
    /\ pc[c] = "stat"
    /\ \/ /\ data[file[c]] = req[c].size /\ data[file[c]] <= MaxFileBytes
          /\ Goto(c, "hash") /\ UNCHANGED reply
       \/ Answer(c, "BACKUP_INTEGRITY_FAILED")
    /\ UNCHANGED <<req, file, crashes>> /\ UNCHANGED fs

\* The digest of a file covers its content and its length.
Digest(f) == <<req[f].content, data[f]>>

\* The file is read and hashed; Verify closes it again.
HashFile(c) ==
    /\ pc[c] = "hash"
    /\ \/ Answer(c, IF Digest(file[c]) = <<req[c].content, req[c].size>>
                    THEN "OK" ELSE "BACKUP_INTEGRITY_FAILED")
       \/ Answer(c, "BACKUP_FAILED")
    /\ UNCHANGED <<req, file, crashes>> /\ UNCHANGED fs

\* Delete: os.Remove of the target.
RemoveFile(c) ==
    /\ pc[c] = "remove"
    /\ LET path == req[c].path IN
       \/ /\ names[path] # Nil
          /\ names' = [names EXCEPT ![path] = Nil]
          /\ file' = [file EXCEPT ![c] = names[path]]
          /\ gone' = gone \cup {names[path]}
          /\ Goto(c, "syncRemoved") /\ UNCHANGED reply
       \/ /\ names[path] = Nil
          /\ Answer(c, "BACKUP_NOT_FOUND") /\ UNCHANGED <<names, file, gone>>
       \/ Answer(c, "BACKUP_FAILED") /\ UNCHANGED <<names, file, gone>>
    /\ UNCHANGED <<req, data, synced, temps, durable, dirs, durableDirs, crashes>>

\* Delete returns what syncDirectory returns.
SyncRemoval(c) ==
    /\ pc[c] = "syncRemoved"
    /\ \/ Synced(Parent(req[c].path)) /\ Answer(c, "OK")
       \/ Answer(c, "ERROR") /\ UNCHANGED <<durable, durableDirs>>
    /\ UNCHANGED <<req, file, data, synced, temps, names, dirs, gone, crashes>>

\* CheckReady writes, syncs and closes a probe file ...
WriteProbe(c) ==
    /\ pc[c] = "probe"
    /\ \/ temps' = temps \cup {c} /\ Goto(c, "unprobe") /\ UNCHANGED reply
       \/ Answer(c, "ERROR") /\ UNCHANGED temps
    /\ UNCHANGED <<req, file, data, synced, names, durable, dirs, durableDirs,
                   gone, crashes>>

\* ... and removes it, whether or not the write succeeded.
RemoveProbe(c) ==
    /\ pc[c] = "unprobe"
    /\ \/ temps' = temps \ {c} /\ \E code \in {"OK", "ERROR"} : Answer(c, code)
       \/ Answer(c, "ERROR") /\ UNCHANGED temps
    /\ UNCHANGED <<req, file, data, synced, names, durable, dirs, durableDirs,
                   gone, crashes>>

-----------------------------------------------------------------------------

\* The power fails and the process starts again.  Of everything that was not
\* synced any part may have been written: names (flushed), blocks (kept) and
\* directories; a file whose directory is lost is lost.  Calls under way end
\* without an answer.
Crash ==
    /\ crashes < MaxCrashes
    /\ \E flushed \in SUBSET {p \in Paths : names[p] # durable[p]},
         kept \in SUBSET {c \in Clients : data[c] # synced[c]},
         found \in SUBSET (dirs \ durableDirs) :
         LET left == durableDirs \cup found
             after == [p \in Paths |->
                 IF ~(Ancestors(p) \subseteq left) THEN Nil
                 ELSE IF p \in flushed THEN names[p] ELSE durable[p]]
         IN /\ dirs' = {d \in left : \A n \in 0..Len(d) : SubSeq(d, 1, n) \in left}
            /\ durableDirs' = dirs'
            /\ names' = after /\ durable' = after
            /\ gone' = gone \cup {names[p] : p \in {q \in Paths :
                   names[q] # Nil /\ ~(Ancestors(q) \subseteq left)}}
            /\ data' = [c \in Clients |-> IF c \in kept THEN data[c] ELSE synced[c]]
            /\ synced' = data'
    /\ pc' = [c \in Clients |-> IF pc[c] \in {"idle", "done"} THEN pc[c] ELSE "lost"]
    /\ file' = [c \in Clients |-> IF pc[c] = "done" /\ req[c].kind # "Open" THEN file[c] ELSE Nil]
    /\ crashes' = crashes + 1
    /\ UNCHANGED <<req, reply, temps>>

\* Every client has made its request.
AllDone == (\A c \in Clients : pc[c] \in {"done", "lost"}) /\ UNCHANGED vars

Next ==
    \/ \E c \in Clients :
        \/ Call(c) \/ EnsureDirectory(c) \/ CheckAbsent(c) \/ CreateTemp(c)
        \/ CopyBlock(c) \/ SyncTemp(c) \/ Link(c) \/ UnlinkTemp(c)
        \/ SyncTargetDirectory(c) \/ UndoLink(c) \/ Cleanup(c)
        \/ ResolveExisting(c) \/ OpenFile(c) \/ StatFile(c) \/ HashFile(c)
        \/ RemoveFile(c) \/ SyncRemoval(c) \/ WriteProbe(c) \/ RemoveProbe(c)
    \/ Crash
    \/ AllDone

Spec == Init /\ [][Next]_vars

-----------------------------------------------------------------------------
(* Properties.                                                             *)

Whole(f) == data[f] = req[f].size /\ synced[f] = data[f] /\ data[f] <= MaxFileBytes

Stored(c) == req[c] # Nil /\ req[c].kind = "Put" /\ reply[c] = "OK"

\* What was acknowledged survives a loss of power, at any moment.  A file
\* whose Put returned its artifact keeps its name, now and on the disk, until
\* a Delete or the clean-up of a Put that failed removes that name; only the
\* loss of a directory whose own entry nobody synced takes it away.  A file
\* whose Delete returned without error never comes back.
AcknowledgedIsDurable ==
    \A c \in Clients :
        /\ Stored(c) /\ c \notin gone =>
             /\ names[req[c].path] = c
             /\ durable[req[c].path] = c
        /\ req[c] # Nil /\ req[c].kind = "Delete" /\ reply[c] = "OK" =>
             file[c] \notin {names[req[c].path], durable[req[c].path]}

\* A backup is never seen in part.  Whatever has a final name, on the disk
\* too, and whatever a verified reader was handed, holds all the blocks of
\* its source, all of them durable, and no more than the limit.
VisibleIsComplete ==
    /\ \A p \in Paths : \A f \in {names[p], durable[p]} \ {Nil} : Whole(f)
    /\ \A c \in Clients :
         file[c] # Nil /\ req[c].kind = "Open" /\ reply[c] = "OK" =>
             /\ Whole(file[c])
             /\ req[file[c]].content = req[c].content
=============================================================================
