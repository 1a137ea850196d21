--------------------------- MODULE OperationProofs ---------------------------
(***************************************************************************)
(* Theorems about module Operation, for every set of clients, requests and *)
(* rows, every number of workers and every number of failures.             *)
(*                                                                         *)
(* One invariant, IInv, carries all of them.  Its four parts are about the *)
(* rows of the inventory and what the requests in flight hold of them      *)
(* (InventoryInv), the task rows, the submissions and the answers          *)
(* (TaskInv), the executions, the guard and the commands sent (ExecInv),   *)
(* and the audit records (AuditInv).  Each part is kept by every step,     *)
(* given the parts before it.                                              *)
(***************************************************************************)
EXTENDS Operation, DecisionProofs, FiniteSetTheorems, SequenceTheorems

-----------------------------------------------------------------------------
(* The invariant.                                                          *)

TaskFields == {"status", "actor", "key", "snap", "main", "save", "err", "cancel"}
ExecFields == {"pc", "row", "main", "save", "records", "status", "err", "cancelled"}
AnswerFields == {"code", "task"}

IsSequence(s) == \E S : s \in Seq(S)

\* A row that says VERIFIED was seen by a detection.
SeenIn(d, detections) == d.identity = "VERIFIED" => <<d.host, d.vendor, d.model>> \in detections

\* Where a request of the inventory holds a device row.
HoldsDevice == {"insertDevice", "checkPatch", "loadCredential", "probe", "writeDevice"}

Rows ==
    /\ DOMAIN creds = CredIds /\ DOMAIN devices = DevIds
    /\ \A i \in CredIds : DOMAIN creds[i] = CredentialFields
    /\ \A i \in CredIds : creds[i].st = "live" => ValidCredential(creds[i])
    /\ \A i \in DevIds : DOMAIN devices[i] = DeviceFields
    /\ \A i \in DevIds : devices[i].st = "live" => ValidDevice(devices[i]) /\ SeenIn(devices[i], observed)

Requests ==
    /\ DOMAIN pc = Clients /\ DOMAIN row = Clients
    /\ \A c \in Clients : pc[c] = "writeCredential" => DOMAIN row[c] = CredentialFields
    /\ \A c \in Clients : pc[c] \in HoldsDevice => DOMAIN row[c] = DeviceFields /\ SeenIn(row[c], observed)

InventoryInv == req \in Scenarios /\ keyVersion \in 1..MaxKeyVersion /\ Rows /\ Requests

\* What the planner lets through.
Planned(main, save, s) ==
    /\ IsSequence(main.commands) /\ main.commands # <<>>
    /\ save # NoPlan => IsSequence(save.commands) /\ save.commands # <<>>
    /\ main.risk # "BLOCKED" /\ (main.risk = "HIGH" => s.confirm)
    /\ s.op \in CustomCommands =>
         \A i \in DOMAIN main.commands :
           "BLOCKED" \notin MatchedEffects(CustomCommandPolicy(s.op), main.commands[i].words)

Submitting == {"prepare", "create", "createAudit", "queue", "cancel", "cancelAudit", "wait"}

Accepted(c) == Submits(c) /\ SubmitError(req[c]) = ""

TaskShape ==
    /\ DOMAIN tasks = Clients /\ DOMAIN exec = Clients /\ DOMAIN answer = Clients
    /\ \A c \in Clients : DOMAIN tasks[c] = TaskFields
    /\ \A c \in Clients : DOMAIN exec[c] = ExecFields
    /\ \A c \in Clients : DOMAIN answer[c] = AnswerFields

SubmissionOK(c) ==
    /\ pc[c] \in Submitting => Accepted(c)
    /\ pc[c] = "create" => Planned(row[c].main, row[c].save, snapshotRequest(req[c]))
    /\ pc[c] \in {"start", "prepare", "create"} => tasks[c].status = "none"
    /\ pc[c] \in {"createAudit", "queue"} => tasks[c].status # "none"

TaskOK(t) ==
    tasks[t].status # "none" =>
      /\ Accepted(t)
      /\ tasks[t].actor = Access(req[t]).actor /\ tasks[t].key = req[t].key
      /\ tasks[t].snap = snapshotRequest(req[t])
      /\ Planned(tasks[t].main, tasks[t].save, tasks[t].snap)

AnswerOK(c) ==
    LET t == answer[c].task
    IN t # 0 => /\ t \in Clients /\ tasks[t].status # "none"
                /\ tasks[t].actor = Access(req[c]).actor
                /\ tasks[t].snap = snapshotRequest(req[c])

UniqueKeys ==
    \A t, u \in Clients :
      tasks[t].status # "none" /\ tasks[u].status # "none" /\ tasks[t].key # ""
      /\ tasks[t].key = tasks[u].key /\ tasks[t].actor = tasks[u].actor => t = u

\* The process: a dead one has no calls, and only one that has recovered has
\* workers.
Process ==
    /\ app \in {"starting", "recovering", "up", "stopping", "down"}
    /\ recoverable \subseteq {t \in Clients : tasks[t].status # "none"}
    /\ recoverable # {} <=> app = "recovering"
    /\ app = "down" => \A c \in Clients : pc[c] \in {"start", "done", "lost"}
    /\ app \in {"starting", "recovering", "down"} => \A t \in Clients : exec[t].pc = "idle"

TaskInv ==
    /\ TaskShape
    /\ \A c \in Clients : SubmissionOK(c) /\ TaskOK(c) /\ AnswerOK(c)
    /\ \A t \in Clients : exec[t].pc # "idle" => tasks[t].status = "RUNNING"
    /\ \A t \in Clients : tasks[t].status \in Terminal \cup {"none", "PENDING", "QUEUED", "RUNNING"}
    /\ UniqueKeys
    /\ Process

\* The device a change is executed on.
Detected(d) == d.status = "ACTIVE" /\ d.identity = "VERIFIED" /\ SeenIn(d, observed)

Ended == {"SUCCESS", "PARTIAL_SUCCESS", "FAILED"}

ExecOK(t) ==
    LET e == exec[t] IN
    /\ e.pc \in {"idle", "reload", "prepare", "guard", "main", "save", "audit", "auditFailure", "finalize"}
    /\ e.pc \in {"idle", "reload", "prepare", "auditFailure"} => e.status = ""
    /\ e.pc \in {"guard", "main", "save", "audit"} => e.status \in Ended
    /\ e.pc = "finalize" => e.status \in Ended \cup {""}
    /\ e.pc \in {"guard", "main", "save"} =>
         /\ e.main = tasks[t].main /\ e.save = tasks[t].save
         /\ ~tasks[t].snap.dry /\ tasks[t].snap.device \in DevIds
         /\ tasks[t].snap.class # "QUERY" => Detected(e.row)

GuardInv ==
    /\ DOMAIN guard = DevIds
    /\ \A d \in DevIds : guard[d] # 0 =>
         /\ guard[d] \in Clients /\ exec[guard[d]].pc \in {"main", "save"}
    /\ \A t \in Clients : exec[t].pc \in {"main", "save"} => guard[tasks[t].snap.device] = t

Running == {t \in Clients : exec[t].pc # "idle"}

SentOK(t) ==
    LET e == exec[t]
        n == Len(sent[t])
    IN /\ IsSequence(sent[t])
       /\ tasks[t].status # "none" =>
            n <= Len(Approved(t)) /\ \A i \in 1..n : sent[t][i] = Approved(t)[i]
       /\ tasks[t].status \in {"none", "PENDING", "QUEUED"} => n = 0
       /\ e.pc \in {"reload", "prepare", "guard"} => n = 0
       /\ e.pc \in {"idle", "reload", "prepare", "guard"} => e.records = <<>>
       /\ e.pc \in {"main", "save"} => IsSequence(e.records)
       /\ e.pc = "main" => n = Len(e.records) /\ n < Len(e.main.commands)
       /\ e.pc = "save" =>
            /\ e.save # NoPlan
            /\ n = Len(e.main.commands) + Len(e.records) /\ Len(e.records) < Len(e.save.commands)

ExecInv ==
    /\ \A t \in Clients : ExecOK(t)
    /\ GuardInv
    /\ Cardinality(Running) <= Workers
    /\ DOMAIN sent = Clients
    /\ \A t \in Clients : SentOK(t)

AuditOK(t) ==
    /\ audits[t] \in Terminal \cup {"none", "PENDING"}
    /\ tasks[t].status # "none" /\ tasks[t].snap.class # "QUERY" => audits[t] # "none"
    /\ (tasks[t].status = "SUCCESS" \/ (exec[t].pc = "finalize" /\ exec[t].status = "SUCCESS"))
       => tasks[t].snap.class = "QUERY" \/ "SUCCESS" \in auditWrites[t]
    /\ exec[t].pc \in {"idle", "reload"} => ~exec[t].cancelled

\* A task that no worker has had.
Waiting == {"none", "PENDING", "QUEUED"}

\* Where a submission has yet to queue its task, or could not.
Unsettled == {"start", "prepare", "create", "createAudit", "queue", "cancel", "cancelAudit"}

\* While nothing has failed: before there are workers a task waits, so that
\* its submission can queue it; and a task that its submission has queued is
\* not cancelled, and ends as its audit record does.
CalmOK(t) ==
    /\ app # "up" => tasks[t].status \in Waiting /\ pc[t] \notin {"cancel", "cancelAudit"}
    /\ pc[t] \in {"createAudit", "queue"} => ~tasks[t].cancel
    /\ pc[t] = "queue" => audits[t] # "none"
    /\ answer[t].task = t =>
         /\ pc[t] \notin Unsettled /\ audits[t] # "none"
         /\ ~tasks[t].cancel /\ ~exec[t].cancelled
         /\ exec[t].pc = "auditFailure" => exec[t].err # "context"
         /\ exec[t].pc = "finalize" =>
              audits[t] = IF exec[t].status = "" THEN "FAILED" ELSE exec[t].status
         /\ tasks[t].status \in Terminal => audits[t] = tasks[t].status

AuditInv ==
    /\ faults \in 0..MaxFaults
    /\ DOMAIN audits = Clients /\ DOMAIN auditWrites = Clients
    /\ \A t \in Clients : AuditOK(t)
    /\ faults = 0 => app \notin {"stopping", "down"} /\ \A t \in Clients : CalmOK(t)

IInv == InventoryInv /\ TaskInv /\ ExecInv /\ AuditInv

-----------------------------------------------------------------------------
(* The inventory.                                                          *)

\* A request that answers holds no row any more.
LEMMA AnswerKeepsRequests ==
  ASSUME Requests, NEW c \in Clients, NEW code, Answer(c, code), observed \subseteq observed'
  PROVE  Requests'
<1>1. /\ DOMAIN pc' = Clients /\ row' = row /\ pc'[c] = "done"
      /\ \A b \in Clients : b # c => pc'[b] = pc[b]
  BY DEF Requests, Answer
<1>2. "done" \notin HoldsDevice /\ "done" # "writeCredential"
  BY DEF HoldsDevice
<1>3. ASSUME NEW b \in Clients, pc'[b] \in HoldsDevice
      PROVE  DOMAIN row'[b] = DeviceFields /\ SeenIn(row'[b], observed')
  BY <1>1, <1>2, <1>3 DEF Requests, SeenIn
<1>4. ASSUME NEW b \in Clients, pc'[b] = "writeCredential"
      PROVE  DOMAIN row'[b] = CredentialFields
  BY <1>1, <1>2, <1>4 DEF Requests
<1> QED BY <1>1, <1>3, <1>4 DEF Requests

\* A request goes on with a row that is fit for its next statement.
LEMMA ContinueKeepsRequests ==
  ASSUME Requests, NEW c \in Clients, NEW next, NEW value, Continue(c, next, value),
         observed \subseteq observed',
         next = "writeCredential" => DOMAIN value = CredentialFields,
         next \in HoldsDevice => DOMAIN value = DeviceFields /\ SeenIn(value, observed')
  PROVE  Requests'
<1>1. /\ DOMAIN pc' = Clients /\ DOMAIN row' = Clients /\ pc'[c] = next /\ row'[c] = value
      /\ \A b \in Clients : b # c => pc'[b] = pc[b] /\ row'[b] = row[b]
  BY DEF Requests, Continue
<1>2. ASSUME NEW b \in Clients, pc'[b] \in HoldsDevice
      PROVE  DOMAIN row'[b] = DeviceFields /\ SeenIn(row'[b], observed')
  BY <1>1, <1>2 DEF Requests, SeenIn
<1>3. ASSUME NEW b \in Clients, pc'[b] = "writeCredential"
      PROVE  DOMAIN row'[b] = CredentialFields
  BY <1>1, <1>3 DEF Requests
<1> QED BY <1>1, <1>2, <1>3 DEF Requests

\* The rows stay as they are.
LEMMA RowsKept ==
  ASSUME Rows, creds' = creds, devices' = devices, observed \subseteq observed'
  PROVE  Rows'
BY DEF Rows, SeenIn, ValidCredential, ValidDevice

\* A credential row is written.
LEMMA CredentialRowWritten ==
  ASSUME Rows, NEW id, NEW v, creds' = [creds EXCEPT ![id] = v],
         devices' = devices, observed' = observed,
         DOMAIN v = CredentialFields, v.st = "live" => ValidCredential(v)
  PROVE  Rows'
<1>1. /\ DOMAIN creds' = CredIds
      /\ \A i \in CredIds : creds'[i] = creds[i] \/ creds'[i] = v
  BY DEF Rows
<1>2. \A i \in CredIds : DOMAIN creds'[i] = CredentialFields
  BY <1>1 DEF Rows
<1>3. \A i \in CredIds : creds'[i].st = "live" => ValidCredential(creds'[i])
  BY <1>1 DEF Rows
<1> QED BY <1>1, <1>2, <1>3 DEF Rows, ValidCredential

\* A device row is written.
LEMMA DeviceRowWritten ==
  ASSUME Rows, NEW id, NEW d, devices' = [devices EXCEPT ![id] = d],
         creds' = creds, observed' = observed,
         DOMAIN d = DeviceFields, d.st = "live" => ValidDevice(d) /\ SeenIn(d, observed)
  PROVE  Rows'
<1>1. /\ DOMAIN devices' = DevIds
      /\ \A i \in DevIds : devices'[i] = devices[i] \/ devices'[i] = d
  BY DEF Rows
<1>2. \A i \in DevIds : DOMAIN devices'[i] = DeviceFields
  BY <1>1 DEF Rows
<1>3. \A i \in DevIds : devices'[i].st = "live" =>
                          ValidDevice(devices'[i]) /\ SeenIn(devices'[i], observed')
  BY <1>1 DEF Rows
<1> QED BY <1>1, <1>2, <1>3 DEF Rows, ValidDevice

\* A request is answered and the rows stay.
LEMMA AnswerKeepsInventory ==
  ASSUME InventoryInv, NEW c \in Clients, NEW code, Answer(c, code),
         UNCHANGED inventoryVars, req' = req
  PROVE  InventoryInv'
<1>1. creds' = creds /\ devices' = devices /\ observed' = observed /\ keyVersion' = keyVersion
  BY DEF inventoryVars
<1>2. Requests'
  BY <1>1, AnswerKeepsRequests DEF InventoryInv
<1>3. Rows'
  BY <1>1, RowsKept DEF InventoryInv
<1> QED BY <1>1, <1>2, <1>3 DEF InventoryInv

\* A request goes on and the rows stay.
LEMMA ContinueKeepsInventory ==
  ASSUME InventoryInv, NEW c \in Clients, NEW next, NEW value, Continue(c, next, value),
         UNCHANGED inventoryVars, req' = req,
         next = "writeCredential" => DOMAIN value = CredentialFields,
         next \in HoldsDevice => DOMAIN value = DeviceFields /\ SeenIn(value, observed)
  PROVE  InventoryInv'
<1>1. creds' = creds /\ devices' = devices /\ observed' = observed /\ keyVersion' = keyVersion
  BY DEF inventoryVars
<1>2. Requests'
  BY <1>1, ContinueKeepsRequests DEF InventoryInv
<1>3. Rows'
  BY <1>1, RowsKept DEF InventoryInv
<1> QED BY <1>1, <1>2, <1>3 DEF InventoryInv

\* CreateCredential writes a row that Validate has seen.
LEMMA CreateCredentialStep ==
  ASSUME InventoryInv, NEW c \in Clients, CreateCredential(c), req' = req
  PROVE  InventoryInv'
<1> DEFINE new == applyNewCredentialMaterial(req[c].input)
           id == FreshId(creds)
           code == IF new.error # "" THEN new.error ELSE WriteCredentialError(id, new.value)
<1>1. devices' = devices /\ keyVersion' = keyVersion /\ observed' = observed
  BY DEF CreateCredential
<1>2. CASE Answer(c, code) /\ creds' = creds
  BY <1>1, <1>2, AnswerKeepsInventory DEF inventoryVars
<1>3. CASE code = "" /\ creds' = [creds EXCEPT ![id] = new.value] /\ Answer(c, "OK")
  <2>1. Requests'
    BY <1>1, <1>3, AnswerKeepsRequests DEF InventoryInv
  <2>2. DOMAIN new.value = CredentialFields
    BY DEF applyNewCredentialMaterial, CredentialFields
  <2>3. ValidCredential(new.value)
    <3> HIDE DEF new, id
    <3> QED BY <1>3 DEF WriteCredentialError
  <2>4. Rows'
    <3> HIDE DEF new, id, code
    <3> QED BY <1>1, <1>3, <2>2, <2>3, CredentialRowWritten DEF InventoryInv
  <2> QED BY <1>1, <2>1, <2>4 DEF InventoryInv
<1> QED BY <1>2, <1>3 DEF CreateCredential

\* UpdateCredential reads a row and goes on with the patched one.
LEMMA PatchCredentialStep ==
  ASSUME InventoryInv, NEW c \in Clients, PatchCredential(c), req' = req
  PROVE  InventoryInv'
<1> DEFINE r == req[c]
           stored == creds[r.id]
           named == [stored EXCEPT !.name = IF Given(r.patch, "name") THEN r.patch.name ELSE @,
                                   !.type = IF Given(r.patch, "type") THEN r.patch.type ELSE @]
           patched == applyPatchedCredentialMaterial(named, r.patch)
<1>1. UNCHANGED inventoryVars
  BY DEF PatchCredential
<1>2. CASE \E code : Answer(c, code)
  BY <1>1, <1>2, AnswerKeepsInventory
<1>3. CASE r.id \in Live(creds) /\ Continue(c, "writeCredential", patched.value)
  <2>1. DOMAIN stored = CredentialFields
    BY <1>3 DEF InventoryInv, Rows, Live
  <2>2. DOMAIN named = CredentialFields
    BY <2>1
  <2> HIDE DEF named
  <2>3. DOMAIN patched.value = CredentialFields
    BY <2>2 DEF applyPatchedCredentialMaterial
  <2> HIDE DEF patched
  <2> QED BY <1>1, <1>3, <2>3, ContinueKeepsInventory DEF HoldsDevice
<1> QED BY <1>2, <1>3 DEF PatchCredential

\* CredentialRepository.Update writes the row that the request holds.
LEMMA WriteCredentialStep ==
  ASSUME InventoryInv, NEW c \in Clients, WriteCredential(c), req' = req
  PROVE  InventoryInv'
<1>1. devices' = devices /\ keyVersion' = keyVersion /\ observed' = observed
  BY DEF WriteCredential
<1>2. CASE \E code : Answer(c, code) /\ creds' = creds
  BY <1>1, <1>2, AnswerKeepsInventory DEF inventoryVars
<1>3. CASE /\ ValidCredential(row[c]) /\ pc[c] = "writeCredential"
           /\ creds' = [creds EXCEPT ![req[c].id] = row[c]] /\ Answer(c, "OK")
  <2>1. Requests'
    BY <1>1, <1>3, AnswerKeepsRequests DEF InventoryInv
  <2>2. DOMAIN row[c] = CredentialFields
    BY <1>3 DEF InventoryInv, Requests
  <2>3. Rows'
    BY <1>1, <1>3, <2>2, CredentialRowWritten DEF InventoryInv
  <2> QED BY <1>1, <2>1, <2>3 DEF InventoryInv
<1> QED BY <1>2, <1>3 DEF WriteCredential

\* DeleteCredential leaves the row behind, dead.
LEMMA DeleteCredentialStep ==
  ASSUME InventoryInv, NEW c \in Clients, DeleteCredential(c), req' = req
  PROVE  InventoryInv'
<1> DEFINE id == req[c].id
           v == [creds[id] EXCEPT !.st = "deleted"]
<1>1. devices' = devices /\ keyVersion' = keyVersion /\ observed' = observed
  BY DEF DeleteCredential
<1>2. CASE \E code : Answer(c, code) /\ creds' = creds
  BY <1>1, <1>2, AnswerKeepsInventory DEF inventoryVars
<1>3. CASE id \in Live(creds) /\ creds' = [creds EXCEPT ![id].st = "deleted"] /\ Answer(c, "OK")
  <2>1. Requests'
    BY <1>1, <1>3, AnswerKeepsRequests DEF InventoryInv
  <2>2. DOMAIN creds[id] = CredentialFields
    BY <1>3 DEF InventoryInv, Rows, Live
  <2>3. DOMAIN v = CredentialFields /\ v.st # "live"
    BY <2>2 DEF CredentialFields
  <2>4. creds' = [creds EXCEPT ![id] = v]
    BY <1>3
  <2>5. Rows'
    <3> HIDE DEF v, id
    <3> QED BY <1>1, <2>3, <2>4, CredentialRowWritten DEF InventoryInv
  <2> QED BY <1>1, <2>1, <2>5 DEF InventoryInv
<1> QED BY <1>2, <1>3 DEF DeleteCredential

\* CreateDevice goes on with a device whose identity is not known.
LEMMA CheckCredentialStep ==
  ASSUME InventoryInv, NEW c \in Clients, CheckCredential(c), req' = req
  PROVE  InventoryInv'
<1> DEFINE d == [req[c].input EXCEPT !.st = "live", !.identity = "UNKNOWN"]
<1>1. UNCHANGED inventoryVars
  BY DEF CheckCredential
<1>2. CASE \E code : Answer(c, code)
  BY <1>1, <1>2, AnswerKeepsInventory
<1>3. CASE req[c].kind = "CreateDevice" /\ Continue(c, "insertDevice", d)
  <2>1. DOMAIN req[c].input = DeviceFields
    BY <1>3, InventoryRequestsAssumption DEF InventoryInv
  <2>2. DOMAIN d = DeviceFields /\ d.identity = "UNKNOWN"
    BY <2>1 DEF DeviceFields
  <2> HIDE DEF d
  <2>3. SeenIn(d, observed)
    BY <2>2 DEF SeenIn
  <2> QED BY <1>1, <1>3, <2>2, <2>3, ContinueKeepsInventory
<1> QED BY <1>2, <1>3 DEF CheckCredential, Starts

\* DeviceRepository.Create writes a row that Validate has seen.
LEMMA InsertDeviceStep ==
  ASSUME InventoryInv, NEW c \in Clients, InsertDevice(c), req' = req
  PROVE  InventoryInv'
<1> DEFINE id == FreshId(devices)
<1>1. creds' = creds /\ keyVersion' = keyVersion /\ observed' = observed
  BY DEF InsertDevice
<1>2. CASE \E code : Answer(c, code) /\ devices' = devices
  BY <1>1, <1>2, AnswerKeepsInventory DEF inventoryVars
<1>3. CASE /\ WriteDeviceError(id, row[c]) = "" /\ pc[c] = "insertDevice"
           /\ devices' = [devices EXCEPT ![id] = row[c]] /\ \E code : Answer(c, code)
  <2>1. Requests'
    BY <1>1, <1>3, AnswerKeepsRequests DEF InventoryInv
  <2>2. DOMAIN row[c] = DeviceFields /\ SeenIn(row[c], observed)
    BY <1>3 DEF InventoryInv, Requests, HoldsDevice
  <2>3. ValidDevice(row[c])
    BY <1>3 DEF WriteDeviceError
  <2>4. Rows'
    <3> HIDE DEF id
    <3> QED BY <1>1, <1>3, <2>2, <2>3, DeviceRowWritten DEF InventoryInv
  <2> QED BY <1>1, <2>1, <2>4 DEF InventoryInv
<1> QED BY <1>2, <1>3 DEF InsertDevice

\* What UpdateDevice makes of a row that was seen is a row that was seen: a
\* patch of address, vendor or model takes the identity away.
LEMMA PatchedIsSeen ==
  ASSUME NEW d, DOMAIN d = DeviceFields, SeenIn(d, observed),
         NEW patch, DOMAIN patch \subseteq PatchFields
  PROVE  DOMAIN Patched(d, patch) = DeviceFields /\ SeenIn(Patched(d, patch), observed)
<1> DEFINE changed == [f \in DOMAIN d |-> IF Given(patch, f) THEN patch[f] ELSE d[f]]
<1>1. DOMAIN changed = DeviceFields
  OBVIOUS
<1>2. CASE DOMAIN patch \cap {"host", "vendor", "model"} = {}
  <2>1. Patched(d, patch) = changed
    BY <1>2 DEF Patched
  <2>2. \A f \in {"host", "vendor", "model", "identity"} : changed[f] = d[f]
    BY <1>2 DEF DeviceFields, PatchFields, Given
  <2> HIDE DEF changed
  <2> QED BY <1>1, <2>1, <2>2 DEF SeenIn
<1>3. CASE DOMAIN patch \cap {"host", "vendor", "model"} # {}
  <2>1. Patched(d, patch) = [changed EXCEPT !.identity = "UNKNOWN"]
    BY <1>3 DEF Patched
  <2> HIDE DEF changed
  <2> QED BY <1>1, <2>1 DEF SeenIn, DeviceFields
<1> QED BY <1>2, <1>3

\* DeviceRepository.Get: the request goes on with a row that was seen.
LEMMA ReadDeviceStep ==
  ASSUME InventoryInv, NEW c \in Clients, ReadDevice(c), req' = req
  PROVE  InventoryInv'
<1> DEFINE r == req[c]
           d == devices[r.id]
<1>1. UNCHANGED inventoryVars
  BY DEF ReadDevice
<1>2. CASE \E code : Answer(c, code)
  BY <1>1, <1>2, AnswerKeepsInventory
<1>3. CASE r.id \in Live(devices) /\ Continue(c, "loadCredential", d)
  <2>1. DOMAIN d = DeviceFields /\ SeenIn(d, observed)
    BY <1>3 DEF InventoryInv, Rows, Live
  <2> HIDE DEF d
  <2> QED BY <1>1, <1>3, <2>1, ContinueKeepsInventory
<1>4. CASE /\ r.id \in Live(devices) /\ r.kind = "UpdateDevice"
           /\ \E next \in {"checkPatch", "writeDevice"} : Continue(c, next, Patched(d, r.patch))
  <2>1. DOMAIN d = DeviceFields /\ SeenIn(d, observed)
    BY <1>4 DEF InventoryInv, Rows, Live
  <2>2. DOMAIN r.patch \subseteq PatchFields
    BY <1>4, InventoryRequestsAssumption DEF InventoryInv
  <2> HIDE DEF d, r
  <2>3. DOMAIN Patched(d, r.patch) = DeviceFields /\ SeenIn(Patched(d, r.patch), observed)
    BY <2>1, <2>2, PatchedIsSeen
  <2> QED BY <1>1, <1>4, <2>3, ContinueKeepsInventory
<1> QED BY <1>2, <1>3, <1>4 DEF ReadDevice, Starts

\* The credential is looked up, and the row is kept.
LEMMA CheckPatchedCredentialStep ==
  ASSUME InventoryInv, NEW c \in Clients, CheckPatchedCredential(c), req' = req
  PROVE  InventoryInv'
<1>1. UNCHANGED inventoryVars /\ pc[c] = "checkPatch"
  BY DEF CheckPatchedCredential
<1>2. DOMAIN row[c] = DeviceFields /\ SeenIn(row[c], observed)
  BY <1>1 DEF InventoryInv, Requests, HoldsDevice
<1>3. CASE \E code : Answer(c, code)
  BY <1>1, <1>3, AnswerKeepsInventory
<1>4. CASE Continue(c, "writeDevice", row[c])
  BY <1>1, <1>2, <1>4, ContinueKeepsInventory
<1> QED BY <1>3, <1>4 DEF CheckPatchedCredential

\* The credential is decrypted, and the row is kept.
LEMMA LoadCredentialStep ==
  ASSUME InventoryInv, NEW c \in Clients, LoadCredential(c), req' = req
  PROVE  InventoryInv'
<1>1. UNCHANGED inventoryVars /\ pc[c] = "loadCredential"
  BY DEF LoadCredential
<1>2. DOMAIN row[c] = DeviceFields /\ SeenIn(row[c], observed)
  BY <1>1 DEF InventoryInv, Requests, HoldsDevice
<1>3. CASE \E code : Answer(c, code)
  BY <1>1, <1>3, AnswerKeepsInventory
<1>4. CASE Continue(c, "probe", row[c])
  BY <1>1, <1>2, <1>4, ContinueKeepsInventory
<1> QED BY <1>3, <1>4 DEF LoadCredential

\* TestConnection changes the status and nothing the identity rests on.
LEMMA ProbeStep ==
  ASSUME InventoryInv, NEW c \in Clients, Probe(c), req' = req
  PROVE  InventoryInv'
<1>1. UNCHANGED inventoryVars /\ pc[c] = "probe"
  BY DEF Probe
<1>2. DOMAIN row[c] = DeviceFields /\ SeenIn(row[c], observed)
  BY <1>1 DEF InventoryInv, Requests, HoldsDevice
<1>3. PICK status : Continue(c, "writeDevice", [row[c] EXCEPT !.status = status])
  BY DEF Probe
<1> DEFINE d == [row[c] EXCEPT !.status = status]
<1>4. DOMAIN d = DeviceFields /\ SeenIn(d, observed)
  BY <1>2 DEF SeenIn, DeviceFields
<1> HIDE DEF d
<1> QED BY <1>1, <1>3, <1>4, ContinueKeepsInventory DEF d

\* Detect: a row becomes VERIFIED with what the detector has just seen.
LEMMA ObserveDeviceStep ==
  ASSUME InventoryInv, NEW c \in Clients, ObserveDevice(c), req' = req
  PROVE  InventoryInv'
<1>1. creds' = creds /\ devices' = devices /\ keyVersion' = keyVersion /\ pc[c] = "probe"
  BY DEF ObserveDevice
<1>2. DOMAIN row[c] = DeviceFields
  BY <1>1 DEF InventoryInv, Requests, HoldsDevice
<1>3. CASE \E code : Answer(c, code) /\ observed' = observed
  BY <1>1, <1>3, AnswerKeepsInventory DEF inventoryVars
<1>4. ASSUME NEW seen,
             Continue(c, "writeDevice",
                      [row[c] EXCEPT !.model = seen.model,
                         !.identity = IF seen.vendor = row[c].vendor
                                      THEN "VERIFIED" ELSE "MISMATCH"]),
             observed' = observed \cup {<<row[c].host, seen.vendor, seen.model>>}
      PROVE  InventoryInv'
  <2> DEFINE d == [row[c] EXCEPT !.model = seen.model,
                     !.identity = IF seen.vendor = row[c].vendor THEN "VERIFIED" ELSE "MISMATCH"]
  <2>1. /\ DOMAIN d = DeviceFields /\ d.host = row[c].host /\ d.vendor = row[c].vendor
        /\ d.model = seen.model /\ (d.identity = "VERIFIED" => seen.vendor = row[c].vendor)
    BY <1>2 DEF DeviceFields
  <2> HIDE DEF d
  <2>2. SeenIn(d, observed')
    BY <1>4, <2>1 DEF SeenIn
  <2>3. Continue(c, "writeDevice", d)
    BY <1>4 DEF d
  <2>4. observed \subseteq observed'
    BY <1>4
  <2>5. Requests'
    BY <2>1, <2>2, <2>3, <2>4, ContinueKeepsRequests DEF InventoryInv
  <2>6. Rows'
    BY <1>1, <2>4, RowsKept DEF InventoryInv
  <2> QED BY <1>1, <2>5, <2>6 DEF InventoryInv
<1> QED BY <1>3, <1>4 DEF ObserveDevice

\* DeviceRepository.Update writes the row that the request holds, whatever
\* was written since it was read.
LEMMA WriteDeviceStep ==
  ASSUME InventoryInv, NEW c \in Clients, WriteDevice(c), req' = req
  PROVE  InventoryInv'
<1>1. creds' = creds /\ keyVersion' = keyVersion /\ observed' = observed /\ pc[c] = "writeDevice"
  BY DEF WriteDevice
<1>2. CASE \E code : Answer(c, code) /\ devices' = devices
  BY <1>1, <1>2, AnswerKeepsInventory DEF inventoryVars
<1>3. CASE /\ ValidDevice(row[c])
           /\ devices' = [devices EXCEPT ![req[c].id] = row[c]] /\ \E code : Answer(c, code)
  <2>1. Requests'
    BY <1>1, <1>3, AnswerKeepsRequests DEF InventoryInv
  <2>2. DOMAIN row[c] = DeviceFields /\ SeenIn(row[c], observed)
    BY <1>1 DEF InventoryInv, Requests, HoldsDevice
  <2>3. Rows'
    BY <1>1, <1>3, <2>2, DeviceRowWritten DEF InventoryInv
  <2> QED BY <1>1, <2>1, <2>3 DEF InventoryInv
<1> QED BY <1>2, <1>3 DEF WriteDevice

\* DeleteDevice leaves the row behind, dead.
LEMMA DeleteDeviceStep ==
  ASSUME InventoryInv, NEW c \in Clients, DeleteDevice(c), req' = req
  PROVE  InventoryInv'
<1> DEFINE id == req[c].id
           d == [devices[id] EXCEPT !.st = "deleted"]
<1>1. creds' = creds /\ keyVersion' = keyVersion /\ observed' = observed
  BY DEF DeleteDevice
<1>2. CASE \E code : Answer(c, code) /\ devices' = devices
  BY <1>1, <1>2, AnswerKeepsInventory DEF inventoryVars
<1>3. CASE id \in Live(devices) /\ devices' = [devices EXCEPT ![id].st = "deleted"] /\ Answer(c, "OK")
  <2>1. Requests'
    BY <1>1, <1>3, AnswerKeepsRequests DEF InventoryInv
  <2>2. DOMAIN devices[id] = DeviceFields
    BY <1>3 DEF InventoryInv, Rows, Live
  <2>3. DOMAIN d = DeviceFields /\ d.st # "live"
    BY <2>2 DEF DeviceFields
  <2>4. devices' = [devices EXCEPT ![id] = d]
    BY <1>3
  <2>5. Rows'
    <3> HIDE DEF d, id
    <3> QED BY <1>1, <2>3, <2>4, DeviceRowWritten DEF InventoryInv
  <2> QED BY <1>1, <2>1, <2>5 DEF InventoryInv
<1> QED BY <1>2, <1>3 DEF DeleteDevice

\* Every step of a request of the inventory.
LEMMA InventoryStepKeepsInventory ==
  ASSUME InventoryInv, NEW c \in Clients, InventoryStep(c), req' = req
  PROVE  InventoryInv'
<1>1. ASSUME Denied(c) PROVE InventoryInv'
  BY <1>1, AnswerKeepsInventory DEF Denied
<1> QED BY <1>1, CreateCredentialStep, PatchCredentialStep, WriteCredentialStep,
           DeleteCredentialStep, CheckCredentialStep, InsertDeviceStep, ReadDeviceStep,
           CheckPatchedCredentialStep, LoadCredentialStep, ProbeStep, ObserveDeviceStep,
           WriteDeviceStep, DeleteDeviceStep DEF InventoryStep

-----------------------------------------------------------------------------
(* Submissions move their own client.                                      *)

\* What a step of a submission may do to the state of the clients: the
\* client answers with or without a task, or goes on to a statement of the
\* submission.
Moves(c, to) ==
    /\ pc' = [pc EXCEPT ![c] = to]
    /\ row' = row \/ \E value : row' = [row EXCEPT ![c] = value]

\* A submission stays a submission.
LEMMA SubmitMoves ==
  ASSUME NEW c \in Clients, SubmitStep(c)
  PROVE  \E to \in Submitting \cup {"done"} : Moves(c, to)
<1>1. ASSUME NEW t, Respond(c, t) PROVE Moves(c, "done")
  BY <1>1 DEF Respond, Moves
<1>2. ASSUME NEW t, Wait(c, t) PROVE Moves(c, "wait")
  BY <1>2 DEF Wait, Moves
<1>3. ASSUME NEW code, Answer(c, code) PROVE Moves(c, "done")
  BY <1>3 DEF Answer, Moves
<1>4. ASSUME NEW to, NEW value, Continue(c, to, value) PROVE Moves(c, to)
  BY <1>4 DEF Continue, Moves
<1>5. ASSUME NEW t, replay(c, t) PROVE Moves(c, "done") \/ Moves(c, "wait")
  BY <1>1, <1>2, <1>3, <1>5 DEF replay
<1>6. {"prepare", "create", "createAudit", "queue", "cancel", "cancelAudit", "wait", "done"}
        \subseteq Submitting \cup {"done"}
  BY DEF Submitting
<1>7. CASE Reject(c)
  BY <1>3, <1>6, <1>7 DEF Reject
<1>8. CASE FindByIdempotency(c)
  BY <1>4, <1>5, <1>6, <1>8 DEF FindByIdempotency
<1>9. CASE Preflight(c)
  BY <1>3, <1>4, <1>6, <1>9 DEF Preflight
<1>10. CASE Create(c)
  BY <1>4, <1>5, <1>6, <1>10 DEF Create
<1>11. CASE CreateFails(c) \/ CleanUpAudit(c) \/ WaitTimesOut(c)
  BY <1>3, <1>6, <1>11 DEF CreateFails, CleanUpAudit, WaitTimesOut
<1>12. CASE CreateQueryAudit(c) \/ QueueConflict(c) \/ QueueFails(c) \/ CleanUpTask(c)
  BY <1>4, <1>6, <1>12 DEF CreateQueryAudit, QueueConflict, QueueFails, CleanUp, CleanUpTask
<1>13. CASE Queue(c)
  BY <1>2, <1>6, <1>13 DEF Queue, Moves
<1>14. CASE WaitEnded(c)
  BY <1>1, <1>6, <1>14 DEF WaitEnded
<1> QED BY <1>7, <1>8, <1>9, <1>10, <1>11, <1>12, <1>13, <1>14 DEF SubmitStep

-----------------------------------------------------------------------------
(* The inventory's part of the invariant holds in every state.             *)

\* The rows at first.
LEMMA InitInventoryInv ==
  ASSUME Init
  PROVE  InventoryInv
<1>1. /\ creds = [i \in CredIds |-> IF i \in DOMAIN InitCreds THEN InitCreds[i] ELSE NoCredential]
      /\ devices = [i \in DevIds |-> IF i \in DOMAIN InitDevices THEN InitDevices[i] ELSE NoDevice]
      /\ observed = {<<d.host, d.vendor, d.model>> :
                       d \in {InitDevices[i] : i \in {j \in DOMAIN InitDevices :
                                                        InitDevices[j].identity = "VERIFIED"}}}
  BY DEF Init, InitInventory
<1>2. DOMAIN NoCredential = CredentialFields /\ NoCredential.st = "none"
  BY DEF NoCredential, CredentialFields
<1>3. DOMAIN NoDevice = DeviceFields /\ NoDevice.st = "none" /\ NoDevice.identity = "UNKNOWN"
  BY DEF NoDevice, DeviceFields
<1>4. DOMAIN creds = CredIds /\ DOMAIN devices = DevIds
  BY <1>1
<1>5. \A i \in CredIds : /\ DOMAIN creds[i] = CredentialFields
                         /\ creds[i].st = "live" => ValidCredential(creds[i])
  BY <1>1, <1>2, InitRowsAssumption
<1>6. \A i \in DevIds : /\ DOMAIN devices[i] = DeviceFields
                        /\ devices[i].st = "live" => ValidDevice(devices[i])
  BY <1>1, <1>3, InitRowsAssumption
<1>7. \A i \in DevIds : SeenIn(devices[i], observed)
  <2> SUFFICES ASSUME NEW i \in DevIds, devices[i].identity = "VERIFIED"
               PROVE  <<devices[i].host, devices[i].vendor, devices[i].model>> \in observed
    BY DEF SeenIn
  <2>1. i \in DOMAIN InitDevices /\ devices[i] = InitDevices[i]
    BY <1>1, <1>3
  <2>2. devices[i] \in {InitDevices[k] : k \in {j \in DOMAIN InitDevices :
                                                  InitDevices[j].identity = "VERIFIED"}}
    BY <2>1
  <2> QED BY <1>1, <2>2
<1>8. Rows
  BY <1>4, <1>5, <1>6, <1>7 DEF Rows
<1>9. Requests
  <2>1. pc = [c \in Clients |-> "start"] /\ row = [c \in Clients |-> NoDevice]
    BY DEF Init, InitClients
  <2> QED BY <2>1 DEF Requests, HoldsDevice
<1>10. req \in Scenarios /\ keyVersion = 1
  BY DEF Init, InitClients, InitInventory
<1>11. 1 \in 1..MaxKeyVersion
  BY KeyVersionAssumption
<1> QED BY <1>8, <1>9, <1>10, <1>11 DEF InventoryInv

\* A client that is moved to where it holds no row.
LEMMA MovesKeepsRequests ==
  ASSUME Requests, NEW c \in Clients, NEW to \in Submitting \cup {"done"}, Moves(c, to),
         observed' = observed
  PROVE  Requests'
<1>1. to \notin HoldsDevice /\ to # "writeCredential"
  BY DEF Submitting, HoldsDevice
<1>2. /\ DOMAIN pc' = Clients /\ DOMAIN row' = Clients /\ pc'[c] = to
      /\ \A b \in Clients : b # c => pc'[b] = pc[b] /\ row'[b] = row[b]
  BY DEF Requests, Moves
<1>3. ASSUME NEW b \in Clients, pc'[b] \in HoldsDevice
      PROVE  DOMAIN row'[b] = DeviceFields /\ SeenIn(row'[b], observed')
  BY <1>1, <1>2, <1>3 DEF Requests
<1>4. ASSUME NEW b \in Clients, pc'[b] = "writeCredential"
      PROVE  DOMAIN row'[b] = CredentialFields
  BY <1>1, <1>2, <1>4 DEF Requests
<1> QED BY <1>2, <1>3, <1>4 DEF Requests

\* The process is gone, and with it every row a request held.
LEMMA VanishKeepsInventory ==
  ASSUME InventoryInv, Vanish
  PROVE  InventoryInv'
<1>1. /\ req' = req /\ row' = row /\ creds' = creds /\ devices' = devices
      /\ keyVersion' = keyVersion /\ observed' = observed
  BY DEF Vanish, inventoryVars
<1>2. Rows'
  BY <1>1, RowsKept DEF InventoryInv
<1>3. DOMAIN pc' = Clients /\ \A c \in Clients : pc'[c] = "lost" \/ pc'[c] = pc[c]
  BY DEF Vanish
<1>4. Requests'
  <2>1. "lost" \notin HoldsDevice /\ "lost" # "writeCredential"
    BY DEF HoldsDevice
  <2> QED BY <1>1, <1>3, <2>1 DEF InventoryInv, Requests
<1> QED BY <1>1, <1>2, <1>4 DEF InventoryInv

\* Nothing the invariant speaks of changes, but the key.
LEMMA InventoryKept ==
  ASSUME InventoryInv, keyVersion' \in 1..MaxKeyVersion,
         UNCHANGED <<req, pc, row, creds, devices, observed>>
  PROVE  InventoryInv'
<1>1. Rows'
  BY RowsKept DEF InventoryInv
<1> QED BY <1>1 DEF InventoryInv, Requests

\* Every step keeps the inventory's part of the invariant.
LEMMA InventoryInvStep ==
  ASSUME InventoryInv, [Next]_vars
  PROVE  InventoryInv'
<1>1. ASSUME NEW c \in Clients, InventoryStep(c), req' = req
      PROVE  InventoryInv'
  BY <1>1, InventoryStepKeepsInventory
<1>2. ASSUME NEW c \in Clients, SubmitStep(c), UNCHANGED inventoryVars, req' = req
      PROVE  InventoryInv'
  <2>1. creds' = creds /\ devices' = devices /\ observed' = observed /\ keyVersion' = keyVersion
    BY <1>2 DEF inventoryVars
  <2>2. PICK to \in Submitting \cup {"done"} : Moves(c, to)
    BY <1>2, SubmitMoves
  <2>3. Requests'
    BY <2>1, <2>2, MovesKeepsRequests DEF InventoryInv
  <2>4. Rows'
    BY <2>1, RowsKept DEF InventoryInv
  <2> QED BY <1>2, <2>1, <2>3, <2>4 DEF InventoryInv
<1>3. ASSUME UNCHANGED <<req, clientVars, inventoryVars>>
      PROVE  InventoryInv'
  BY <1>3, InventoryKept DEF InventoryInv, clientVars, inventoryVars
<1>4. ASSUME Crash \/ Stopped PROVE InventoryInv'
  BY <1>4, VanishKeepsInventory DEF Crash, Stopped
<1>5. ASSUME Restart PROVE InventoryInv'
  <2>1. keyVersion' \in 1..MaxKeyVersion
    BY <1>5, KeyVersionAssumption DEF Restart, InventoryInv
  <2> QED BY <1>5, <2>1, InventoryKept DEF Restart, clientVars
<1>6. ASSUME UNCHANGED vars PROVE InventoryInv'
  BY <1>3, <1>6 DEF vars
<1> QED BY <1>1, <1>2, <1>3, <1>4, <1>5, <1>6 DEF Next, Stop, Quiet

-----------------------------------------------------------------------------
(* The planner.                                                            *)

\* A chain of checks without an error is what its last link says.
LEMMA UnlessOk ==
  ASSUME NEW code, NEW outcome, Unless(code, outcome).error = ""
  PROVE  code = "" /\ Unless(code, outcome) = outcome
BY DEF Unless, Failed

\* A chain of checks has the error of one of them.
LEMMA UnlessError ==
  ASSUME NEW code, NEW outcome, code # "context", outcome.error # "context"
  PROVE  Unless(code, outcome).error # "context"
BY DEF Unless, Failed

\* The rules of the plugin's policies are sequences.
LEMMA PolicyRules ==
  ASSUME NEW op \in CustomCommands
  PROVE  \E R : CustomCommandPolicy(op).rules \in Seq(R)
<1>1. CustomCommandPolicy(op).rules = CustomCommandRules[op]
  BY DEF CustomCommandPolicy
<1>2. ASSUME NEW a, NEW b, NEW c, NEW d, NEW e
      PROVE  \E R : <<a, b, c, d, e>> \in Seq(R)
  <2>1. <<a, b, c, d, e>> \in Seq({a, b, c, d, e})
    OBVIOUS
  <2> QED BY <2>1
<1>3. \E R : CustomCommandRules[op] \in Seq(R)
  BY <1>2 DEF CustomCommandRules
<1> QED BY <1>1, <1>3

\* The commands of a custom operation that were decided on.
LEMMA DecisionIsDefaultDeny ==
  ASSUME NEW s, NEW info, s.parameters.commands \in Seq(Seq(STRING))
  PROVE  /\ commandDecision(s, info).error # "context"
         /\ commandDecision(s, info).error = "" /\ s.op \in CustomCommands =>
              \A i \in DOMAIN s.parameters.commands :
                "BLOCKED" \notin MatchedEffects(CustomCommandPolicy(s.op), s.parameters.commands[i])
<1> DEFINE unsupported == mapPlanningError(CustomCommandPolicyError(info, s.op))
           policy == CustomCommandPolicy(s.op)
           decision == Evaluate(policy, s.op, s.parameters.commands)
<1>1. CASE s.op \notin CustomCommands
  BY <1>1 DEF commandDecision
<1>2. CASE s.op \in CustomCommands /\ unsupported # ""
  <2>1. unsupported # "context"
    BY DEF mapPlanningError
  <2>2. commandDecision(s, info) = Refused(unsupported)
    BY <1>2 DEF commandDecision
  <2> HIDE DEF unsupported
  <2>3. commandDecision(s, info).error = unsupported
    BY <2>2 DEF Refused
  <2> QED BY <1>2, <2>1, <2>3
<1>3. CASE s.op \in CustomCommands /\ unsupported = ""
  <2>1. commandDecision(s, info) = decision
    BY <1>3 DEF commandDecision
  <2>2. PICK R : policy.rules \in Seq(R)
    BY <1>3, PolicyRules
  <2> HIDE DEF policy
  <2>3. /\ decision.error \in DecisionCodes \cup {"INTERNAL_ERROR"}
        /\ decision.error = "" => \A i \in DOMAIN s.parameters.commands :
                                    "BLOCKED" \notin MatchedEffects(policy, s.parameters.commands[i])
    BY <2>2, EvaluateAcceptsOnlyAllowed
  <2> HIDE DEF decision
  <2> QED BY <2>1, <2>3 DEF DecisionCodes, policy
<1> QED BY <1>1, <1>2, <1>3

PlanFields == {"device", "vendor", "plugin", "version", "op", "class", "commands",
               "enterConfig", "save", "risk"}

\* A plan of one command.
LEMMA OneCommand ==
  ASSUME NEW command
  PROVE  IsSequence(<<command>>)
<1>1. <<command>> \in Seq({command})
  OBVIOUS
<1> QED BY <1>1 DEF IsSequence

\* The commands of a custom operation's plan.
LEMMA CommandsOfWords ==
  ASSUME NEW W, NEW commands \in Seq(W)
  PROVE  IsSequence([i \in DOMAIN commands |-> Command(commands[i], 0, "")])
<1> DEFINE built == [i \in DOMAIN commands |-> Command(commands[i], 0, "")]
           n == Len(commands)
           S == {Command(w, 0, "") : w \in W}
<1>1. n \in Nat /\ DOMAIN commands = 1..n /\ \A i \in 1..n : commands[i] \in W
  OBVIOUS
<1> HIDE DEF n
<1>2. built \in [1..n -> S]
  BY <1>1
<1> HIDE DEF built, S
<1>3. built \in Seq(S)
  BY <1>1, <1>2, SeqDef
<1> QED BY <1>3 DEF IsSequence, built

\* A plan the plugin builds is a sequence of commands, and not an empty one.
LEMMA PluginPlan ==
  ASSUME NEW request, BuildPlan(request).error = "",
         request.op \in CustomCommands => request.parameters.commands \in Seq(Seq(STRING))
  PROVE  LET p == BuildPlan(request).plan
         IN DOMAIN p = PlanFields /\ IsSequence(p.commands) /\ p.commands # <<>>
<1> DEFINE for == PlanFor(request)
           meta == Metadata(request.info.vendor)
           plan == [device |-> request.device, vendor |-> request.info.vendor,
                    plugin |-> meta.name, version |-> meta.version, op |-> request.op,
                    class |-> request.class, commands |-> for.commands,
                    enterConfig |-> for.enterConfig, save |-> request.save, risk |-> for.risk]
<1>1. IsSequence(for.commands)
  <2>1. CASE request.op \in CustomCommands
    <3> DEFINE commands == request.parameters.commands
               built == [i \in DOMAIN commands |-> Command(commands[i], 0, "")]
    <3>1. for.commands = built
      BY <2>1 DEF PlanFor, buildCustomCommandPlan
    <3>2. commands \in Seq(Seq(STRING))
      BY <2>1
    <3> HIDE DEF for, commands
    <3> QED BY <3>1, <3>2, CommandsOfWords
  <2>2. CASE request.op \notin CustomCommands
    <3>1. \E command : for.commands = <<command>>
      BY <2>2 DEF PlanFor
    <3> HIDE DEF for
    <3> QED BY <3>1, OneCommand
  <2> QED BY <2>1, <2>2
<1> HIDE DEF for, meta
<1>2. BuildPlan(request) = [error |-> "", plan |-> plan] /\ ValidPlan(plan)
  BY DEF BuildPlan, BuildPlanFor, for, meta
<1>3. DOMAIN plan = PlanFields /\ plan.commands = for.commands
  BY DEF PlanFields
<1> HIDE DEF plan
<1>4. BuildPlan(request).plan = plan
  <2>1. \A e, p : [error |-> e, plan |-> p].plan = p
    OBVIOUS
  <2> QED BY <1>2, <2>1, Zenon
<1>5. plan.commands # <<>>
  BY <1>2 DEF ValidPlan
<1> QED BY <1>1, <1>3, <1>4, <1>5

\* Planner.buildPlan without an error is the plan of the plugin.
LEMMA BuiltPlan ==
  ASSUME NEW request, buildPlan(request).error = ""
  PROVE  buildPlan(request) = BuildPlan(request) /\ BuildPlan(request).error = ""
<1> DEFINE built == BuildPlan(request)
           checked == CheckedPlan(request, built)
           declared == IF Declares(Registry[request.info.vendor], request.op) THEN ""
                       ELSE IF request.op = SaveConfigOperation THEN "CAPABILITY_NOT_SUPPORTED"
                       ELSE "UNSUPPORTED_OPERATION"
           supported == Supported(LookupCapability(Registry, request.info.vendor, request.info,
                                                   request.op, Capabilities(request.info)))
           mapped == mapPlanningError(built.error)
           valid == IF validatePluginPlan(built.plan, request) THEN "" ELSE "INTERNAL_ERROR"
<1>1. buildPlan(request) = Unless(declared, Unless(supported, checked))
  BY DEF buildPlan
<1>2. checked = Unless(mapped, Unless(valid, built))
  BY DEF CheckedPlan
<1> HIDE DEF built, declared, supported, checked, mapped, valid
<1>3. buildPlan(request) = Unless(supported, checked)
  BY <1>1, UnlessOk
<1>4. buildPlan(request) = checked
  BY <1>3, UnlessOk
<1>5. mapped = "" /\ buildPlan(request) = Unless(valid, built)
  <2>1. Unless(mapped, Unless(valid, built)).error = ""
    BY <1>2, <1>4
  <2> QED BY <1>2, <1>4, <2>1, UnlessOk
<1>6. buildPlan(request) = built
  BY <1>5, UnlessOk
<1>7. built.error = ""
  BY <1>5 DEF mapped, mapPlanningError
<1> QED BY <1>6, <1>7 DEF built

\* Planner.buildPlan has an error of its own.
LEMMA BuildPlanError ==
  ASSUME NEW request
  PROVE  buildPlan(request).error # "context"
<1> DEFINE built == BuildPlan(request)
           checked == CheckedPlan(request, built)
           declared == IF Declares(Registry[request.info.vendor], request.op) THEN ""
                       ELSE IF request.op = SaveConfigOperation THEN "CAPABILITY_NOT_SUPPORTED"
                       ELSE "UNSUPPORTED_OPERATION"
           looked == LookupCapability(Registry, request.info.vendor, request.info,
                                      request.op, Capabilities(request.info))
           supported == Supported(looked)
           mapped == mapPlanningError(built.error)
           valid == IF validatePluginPlan(built.plan, request) THEN "" ELSE "INTERNAL_ERROR"
<1>1. buildPlan(request) = Unless(declared, Unless(supported, checked))
  BY DEF buildPlan
<1>2. checked = Unless(mapped, Unless(valid, built))
  BY DEF CheckedPlan
<1>3. declared # "context"
  OBVIOUS
<1>4. supported # "context"
  <2> HIDE DEF looked
  <2> QED BY DEF Supported, mapPlanningError
<1>5. valid # "context"
  OBVIOUS
<1>6. mapped # "context" /\ (mapped = "" => built.error = "")
  <2> HIDE DEF built
  <2> QED BY DEF mapPlanningError
<1> HIDE DEF built, declared, supported, checked, mapped, valid
<1>7. checked.error # "context"
  <2>1. CASE mapped = ""
    BY <1>2, <1>5, <1>6, <2>1, UnlessError
  <2>2. CASE mapped # ""
    BY <1>2, <1>6, <2>2 DEF Unless, Failed
  <2> QED BY <2>1, <2>2
<1> QED BY <1>1, <1>3, <1>4, <1>7, UnlessError

\* A plan with another risk is the same plan otherwise.
LEMMA PlanWithRisk ==
  ASSUME NEW p, DOMAIN p = PlanFields, NEW r
  PROVE  /\ [p EXCEPT !.risk = r].commands = p.commands
         /\ [p EXCEPT !.risk = r].risk = r
BY DEF PlanFields

\* The positions of a sequence.
LEMMA SequenceDomain ==
  ASSUME NEW q, IsSequence(q)
  PROVE  DOMAIN q = 1..Len(q) /\ Len(q) \in Nat
<1>1. PICK S : q \in Seq(S)
  BY DEF IsSequence
<1> QED BY <1>1

\* What Planner.prepare returns when nothing is wrong.
Outcome(s, decision, main, save) ==
    [error |-> "", row |-> devices[s.device], save |-> save.plan,
     main |-> [main.plan EXCEPT !.risk = maxRisk(@, decision.risk)]]

\* Planner.prepare without an error: the plan is fit to be stored.
LEMMA PreparedOperation ==
  ASSUME NEW s, NEW decision, NEW main, NEW save,
         preparedOperation(s, decision, main, save).error = ""
  PROVE  /\ decision.error = "" /\ main.error = "" /\ save.error = ""
         /\ s.op \in CustomCommands =>
              validateCustomCommandPlan(main.plan, CustomCommandPolicy(s.op), s.parameters.commands)
         /\ enforceRisk(maxRisk(main.plan.risk, decision.risk), s.confirm) = ""
         /\ preparedOperation(s, decision, main, save) = Outcome(s, decision, main, save)
<1> DEFINE custom == IF s.op \in CustomCommands
                        /\ ~validateCustomCommandPlan(main.plan, CustomCommandPolicy(s.op), s.parameters.commands)
                     THEN "INTERNAL_ERROR" ELSE ""
           risk == enforceRisk(maxRisk(main.plan.risk, decision.risk), s.confirm)
           saved == IF s.save THEN enforceRisk(save.plan.risk, s.confirm) ELSE ""
           last == [error |-> "", row |-> devices[s.device], save |-> save.plan,
                    main |-> [main.plan EXCEPT !.risk = maxRisk(@, decision.risk)]]
           out == preparedOperation(s, decision, main, save)
           step5 == Unless(saved, last)
           step4 == Unless(save.error, step5)
           step3 == Unless(risk, step4)
           step2 == Unless(custom, step3)
           step1 == Unless(main.error, step2)
<1>1. out = Unless(decision.error, step1)
  BY DEF preparedOperation
<1> HIDE DEF out, custom, risk, saved, last
<1>2. out.error = ""
  BY DEF out
<1>3. decision.error = "" /\ out = step1
  <2> HIDE DEF step1
  <2> QED BY <1>1, <1>2, UnlessOk
<1>4. main.error = "" /\ out = step2
  <2> HIDE DEF step2
  <2> QED BY <1>3, <1>2, UnlessOk
<1>5. custom = "" /\ out = step3
  <2> HIDE DEF step3
  <2> QED BY <1>4, <1>2, UnlessOk
<1>6. risk = "" /\ out = step4
  <2> HIDE DEF step4
  <2> QED BY <1>5, <1>2, UnlessOk
<1>7. save.error = "" /\ out = step5
  <2> HIDE DEF step5
  <2> QED BY <1>6, <1>2, UnlessOk
<1>8. out = last
  BY <1>7, <1>2, UnlessOk
<1>9. s.op \in CustomCommands =>
        validateCustomCommandPlan(main.plan, CustomCommandPolicy(s.op), s.parameters.commands)
  BY <1>5 DEF custom
<1> QED BY <1>3, <1>4, <1>6, <1>7, <1>8, <1>9 DEF out, last, risk, Outcome

\* The errors of Planner.prepare from its parts.
LEMMA PreparedOperationError ==
  ASSUME NEW s, NEW decision, NEW main, NEW save,
         decision.error # "context", main.error # "context", save.error # "context"
  PROVE  preparedOperation(s, decision, main, save).error # "context"
<1> DEFINE custom == IF s.op \in CustomCommands
                        /\ ~validateCustomCommandPlan(main.plan, CustomCommandPolicy(s.op), s.parameters.commands)
                     THEN "INTERNAL_ERROR" ELSE ""
           risk == enforceRisk(maxRisk(main.plan.risk, decision.risk), s.confirm)
           saved == IF s.save THEN enforceRisk(save.plan.risk, s.confirm) ELSE ""
           last == [error |-> "", row |-> devices[s.device], save |-> save.plan,
                    main |-> [main.plan EXCEPT !.risk = maxRisk(@, decision.risk)]]
           step5 == Unless(saved, last)
           step4 == Unless(save.error, step5)
           step3 == Unless(risk, step4)
           step2 == Unless(custom, step3)
           step1 == Unless(main.error, step2)
<1>1. preparedOperation(s, decision, main, save) = Unless(decision.error, step1)
  BY DEF preparedOperation
<1>2. custom # "context" /\ last.error # "context"
  OBVIOUS
<1>3. risk # "context" /\ saved # "context"
  BY DEF enforceRisk
<1> HIDE DEF custom, risk, saved, last
<1>4. step5.error # "context"
  BY <1>2, <1>3, UnlessError
<1>5. step4.error # "context"
  <2> HIDE DEF step5
  <2> QED BY <1>4, UnlessError
<1>6. step3.error # "context"
  <2> HIDE DEF step4
  <2> QED BY <1>5, <1>3, UnlessError
<1>7. step2.error # "context"
  <2> HIDE DEF step3
  <2> QED BY <1>6, <1>2, UnlessError
<1>8. step1.error # "context"
  <2> HIDE DEF step2
  <2> QED BY <1>7, UnlessError
<1> HIDE DEF step1
<1> QED BY <1>1, <1>8, UnlessError

\* Planner.prepare: a device it accepts is there and fit for the operation,
\* and what it makes is fit to be stored.
LEMMA Prepared ==
  ASSUME NEW s, s.parameters.commands \in Seq(Seq(STRING)), prepare(s).error = ""
  PROVE  /\ s.device \in Live(devices) /\ prepare(s).row = devices[s.device]
         /\ validateDeviceForOperation(devices[s.device], s.class) = ""
         /\ Planned(prepare(s).main, prepare(s).save, s)
<1> DEFINE d == devices[s.device]
           info == [vendor |-> d.vendor, model |-> d.model]
           request(op, class, parameters, save) ==
             [device |-> s.device, info |-> info, op |-> op, class |-> class,
              parameters |-> parameters, save |-> save]
           mainRequest == request(s.op, s.class, s.parameters, s.save)
           saveRequest == request(SaveConfigOperation, "CONFIG", NoParameters, FALSE)
           decision == commandDecision(s, info)
           main == buildPlan(mainRequest)
           save == IF s.save THEN buildPlan(saveRequest) ELSE [error |-> "", plan |-> NoPlan]
           found == IF s.device \in Live(devices) THEN "" ELSE "DEVICE_NOT_FOUND"
           valid == validateDeviceForOperation(d, s.class)
           known == IF d.vendor \in DOMAIN Registry THEN "" ELSE "PLUGIN_NOT_FOUND"
           out == preparedOperation(s, decision, main, save)
<1>1. prepare(s) = Unless(found, Unless(valid, Unless(known, out)))
  BY DEF prepare
<1>2. mainRequest.op = s.op /\ mainRequest.parameters = s.parameters /\ saveRequest.op = SaveConfigOperation
  OBVIOUS
<1>3. SaveConfigOperation \notin CustomCommands
  BY DEF SaveConfigOperation, CustomCommands, ReadonlyOperation, ConfigOperation
<1>4. \A e, p : [error |-> e, plan |-> p].error = e /\ [error |-> e, plan |-> p].plan = p
  OBVIOUS
<1> HIDE DEF found, valid, known, out, decision, main, mainRequest, saveRequest
<1>5. found = "" /\ prepare(s) = Unless(valid, Unless(known, out))
  <2>1. Unless(found, Unless(valid, Unless(known, out))).error = ""
    BY <1>1
  <2> QED BY <1>1, <2>1, UnlessOk, Zenon
<1>6. valid = "" /\ prepare(s) = Unless(known, out)
  <2>1. Unless(valid, Unless(known, out)).error = ""
    BY <1>5
  <2> QED BY <1>5, <2>1, UnlessOk, Zenon
<1>7. prepare(s) = out /\ out.error = ""
  <2>1. Unless(known, out).error = ""
    BY <1>6
  <2> QED BY <1>6, <2>1, UnlessOk, Zenon
<1>8. s.device \in Live(devices)
  BY <1>5 DEF found
<1>9. /\ decision.error = "" /\ main.error = "" /\ save.error = ""
      /\ s.op \in CustomCommands =>
           validateCustomCommandPlan(main.plan, CustomCommandPolicy(s.op), s.parameters.commands)
      /\ enforceRisk(maxRisk(main.plan.risk, decision.risk), s.confirm) = ""
      /\ out = Outcome(s, decision, main, save)
  <2> HIDE DEF save
  <2>1. preparedOperation(s, decision, main, save).error = ""
    BY <1>7 DEF out
  <2> QED BY <2>1, PreparedOperation, Zenon DEF out
<1>10. DOMAIN main.plan = PlanFields /\ IsSequence(main.plan.commands) /\ main.plan.commands # <<>>
  <2>1. main = BuildPlan(mainRequest) /\ BuildPlan(mainRequest).error = ""
    BY <1>9, BuiltPlan DEF main
  <2>2. mainRequest.op \in CustomCommands => mainRequest.parameters.commands \in Seq(Seq(STRING))
    BY <1>2
  <2> QED BY <2>1, <2>2, PluginPlan
<1>11. save.plan # NoPlan => IsSequence(save.plan.commands) /\ save.plan.commands # <<>>
  <2>1. CASE s.save
    <3>1. save = buildPlan(saveRequest)
      BY <2>1
    <3>2. save = BuildPlan(saveRequest) /\ BuildPlan(saveRequest).error = ""
      BY <1>9, <3>1, BuiltPlan
    <3>3. saveRequest.op \in CustomCommands => saveRequest.parameters.commands \in Seq(Seq(STRING))
      BY <1>2, <1>3
    <3> HIDE DEF save
    <3> QED BY <3>2, <3>3, PluginPlan
  <2>2. CASE ~s.save
    BY <1>4, <2>2, Zenon
  <2> QED BY <2>1, <2>2
<1> DEFINE p == main.plan
           r == maxRisk(p.risk, decision.risk)
           q == [p EXCEPT !.risk = r]
<1>12. out = [error |-> "", row |-> d, save |-> save.plan, main |-> q]
  BY <1>9 DEF Outcome
<1> HIDE DEF save, p, d
<1>13. q.commands = p.commands /\ q.risk = r
  BY <1>10, PlanWithRisk DEF p
<1>14. r # "BLOCKED" /\ (r = "HIGH" => s.confirm)
  BY <1>9 DEF enforceRisk, p
<1>15. ASSUME s.op \in CustomCommands
       PROVE  \A i \in DOMAIN p.commands :
                "BLOCKED" \notin MatchedEffects(CustomCommandPolicy(s.op), p.commands[i].words)
  <2> DEFINE commands == s.parameters.commands
  <2>1. \A i \in DOMAIN commands : "BLOCKED" \notin MatchedEffects(CustomCommandPolicy(s.op), commands[i])
    BY <1>9, <1>15, DecisionIsDefaultDeny DEF decision
  <2>2. /\ Len(p.commands) = Len(commands)
        /\ \A i \in DOMAIN commands : p.commands[i].words = commands[i]
    BY <1>9, <1>15 DEF validateCustomCommandPlan, p
  <2>3. DOMAIN commands = 1..Len(commands)
    BY SequenceDomain DEF IsSequence
  <2>4. DOMAIN p.commands = 1..Len(p.commands)
    BY <1>10, SequenceDomain, Zenon DEF p
  <2> HIDE DEF commands
  <2> QED BY <2>1, <2>2, <2>3, <2>4
<1> HIDE DEF q, r
<1>16. out.row = d /\ out.save = save.plan /\ out.main = q
  <2>1. \A e, a, b, c : LET x == [error |-> e, row |-> a, save |-> b, main |-> c]
                        IN x.row = a /\ x.save = b /\ x.main = c
    OBVIOUS
  <2> QED BY <1>12, <2>1, Zenon
<1>17. Planned(q, save.plan, s)
  BY <1>10, <1>11, <1>13, <1>14, <1>15, Zenon DEF Planned, p
<1> QED BY <1>6, <1>7, <1>8, <1>16, <1>17 DEF valid, d

\* The errors of Planner.prepare; that of a cancelled context is not one.
LEMMA PrepareError ==
  ASSUME NEW s, s.parameters.commands \in Seq(Seq(STRING))
  PROVE  prepare(s).error # "context"
<1> DEFINE d == devices[s.device]
           info == [vendor |-> d.vendor, model |-> d.model]
           request(op, class, parameters, save) ==
             [device |-> s.device, info |-> info, op |-> op, class |-> class,
              parameters |-> parameters, save |-> save]
           decision == commandDecision(s, info)
           main == buildPlan(request(s.op, s.class, s.parameters, s.save))
           save == IF s.save THEN buildPlan(request(SaveConfigOperation, "CONFIG", NoParameters, FALSE))
                   ELSE [error |-> "", plan |-> NoPlan]
           found == IF s.device \in Live(devices) THEN "" ELSE "DEVICE_NOT_FOUND"
           valid == validateDeviceForOperation(d, s.class)
           known == IF d.vendor \in DOMAIN Registry THEN "" ELSE "PLUGIN_NOT_FOUND"
           out == preparedOperation(s, decision, main, save)
<1>1. prepare(s) = Unless(found, Unless(valid, Unless(known, out)))
  BY DEF prepare
<1>2. found # "context" /\ known # "context"
  OBVIOUS
<1>3. valid # "context"
  BY DEF validateDeviceForOperation
<1>4. decision.error # "context"
  BY DecisionIsDefaultDeny
<1>5. main.error # "context"
  BY BuildPlanError
<1>6. save.error # "context"
  <2>1. \A e, p : [error |-> e, plan |-> p].error = e
    OBVIOUS
  <2> QED BY <2>1, BuildPlanError, Zenon
<1> HIDE DEF found, valid, known, decision, main, save
<1>7. out.error # "context"
  BY <1>4, <1>5, <1>6, PreparedOperationError
<1> HIDE DEF out
<1>8. Unless(known, out).error # "context"
  BY <1>2, <1>7, UnlessError
<1>9. Unless(valid, Unless(known, out)).error # "context"
  BY <1>3, <1>8, UnlessError
<1> QED BY <1>1, <1>2, <1>9, UnlessError

-----------------------------------------------------------------------------
(* Tasks and answers.                                                      *)

\* A step leaves what a task is about alone.
Keeps(t) ==
    /\ tasks'[t].actor = tasks[t].actor /\ tasks'[t].key = tasks[t].key
    /\ tasks'[t].snap = tasks[t].snap
    /\ tasks'[t].main = tasks[t].main /\ tasks'[t].save = tasks[t].save
    /\ tasks'[t].status = "none" <=> tasks[t].status = "none"

\* What is said of a task holds while the task is kept.
LEMMA TaskKept ==
  ASSUME NEW t, TaskOK(t), Keeps(t), req' = req
  PROVE  TaskOK(t)'
BY DEF TaskOK, Keeps, Accepted, Submits

\* The keys are unique while the tasks are kept.
LEMMA KeysKept ==
  ASSUME UniqueKeys, \A t \in Clients : Keeps(t)
  PROVE  UniqueKeys'
<1> SUFFICES ASSUME NEW t \in Clients, NEW u \in Clients,
                    tasks'[t].status # "none", tasks'[u].status # "none", tasks'[t].key # "",
                    tasks'[t].key = tasks'[u].key, tasks'[t].actor = tasks'[u].actor
             PROVE  t = u
  BY DEF UniqueKeys
<1>1. Keeps(t) /\ Keeps(u)
  OBVIOUS
<1>2. /\ tasks[t].status # "none" /\ tasks[u].status # "none" /\ tasks[t].key # ""
      /\ tasks[t].key = tasks[u].key /\ tasks[t].actor = tasks[u].actor
  BY <1>1 DEF Keeps
<1> QED BY <1>2 DEF UniqueKeys

\* An answer stands while it names the same task and that task is kept.
LEMMA AnswerKept ==
  ASSUME NEW c \in Clients, AnswerOK(c), answer'[c].task = answer[c].task, req' = req,
         \A t \in Clients : tasks[t].status # "none" => Keeps(t)
  PROVE  AnswerOK(c)'
<1> DEFINE t == answer[c].task
<1> SUFFICES ASSUME t # 0
             PROVE  /\ t \in Clients /\ tasks'[t].status # "none"
                    /\ tasks'[t].actor = Access(req[c]).actor
                    /\ tasks'[t].snap = snapshotRequest(req[c])
  BY DEF AnswerOK, Access
<1>1. /\ t \in Clients /\ tasks[t].status # "none"
      /\ tasks[t].actor = Access(req[c]).actor /\ tasks[t].snap = snapshotRequest(req[c])
  BY DEF AnswerOK
<1>2. Keeps(t)
  BY <1>1
<1> HIDE DEF t
<1> QED BY <1>1, <1>2 DEF Keeps

\* Where a submission stands is not disturbed by the others.
LEMMA SubmissionKept ==
  ASSUME NEW c, SubmissionOK(c), pc'[c] = pc[c], row'[c] = row[c], req' = req,
         tasks'[c].status = "none" <=> tasks[c].status = "none"
  PROVE  SubmissionOK(c)'
BY DEF SubmissionOK, Accepted, Submits

\* A client that has its answer.
LEMMA DoneKept ==
  ASSUME NEW c, pc'[c] \in {"done", "lost"} \cup HoldsDevice \cup {"writeCredential"}
  PROVE  SubmissionOK(c)'
BY DEF SubmissionOK, Submitting, HoldsDevice

StatusSet == Terminal \cup {"none", "PENDING", "QUEUED", "RUNNING"}

\* The process while it is alive and no task vanishes.
LEMMA ProcessKept ==
  ASSUME Process, UNCHANGED <<app, recoverable>>, app # "down",
         \A t \in Clients : tasks[t].status # "none" => tasks'[t].status # "none",
         app \in {"up", "stopping"} \/ exec' = exec
  PROVE  Process'
BY DEF Process

\* What every step of a client leaves alone: the other clients, the executor
\* and the process.
ClientAlone(c) ==
    /\ req' = req /\ app' = app /\ recoverable' = recoverable /\ app # "down" /\ exec' = exec
    /\ \E to : Moves(c, to)
    /\ DOMAIN answer' = Clients /\ DOMAIN answer'[c] = AnswerFields
    /\ \A b \in Clients : b # c => answer'[b] = answer[b]
    /\ DOMAIN tasks' = Clients /\ DOMAIN tasks'[c] = TaskFields
    /\ \A b \in Clients : b # c => tasks'[b] = tasks[b]

\* A step of a client that makes no task.
LEMMA ClientKeepsTasks ==
  ASSUME TaskInv, Requests, NEW c \in Clients, ClientAlone(c),
         Keeps(c), tasks'[c].status \in StatusSet,
         exec[c].pc # "idle" => tasks'[c].status = "RUNNING",
         SubmissionOK(c)', AnswerOK(c)'
  PROVE  TaskInv'
<1>1. \A t \in Clients : Keeps(t)
  BY DEF ClientAlone, Keeps
<1>2. PICK to : Moves(c, to)
  BY DEF ClientAlone
<1>3. \A b \in Clients : b # c => pc'[b] = pc[b] /\ row'[b] = row[b]
  BY <1>2 DEF Moves, Requests
<1>4. TaskShape'
  BY DEF TaskShape, TaskInv, ClientAlone
<1>5. \A b \in Clients : SubmissionOK(b)'
  <2> SUFFICES ASSUME NEW b \in Clients, b # c PROVE SubmissionOK(b)'
    OBVIOUS
  <2> QED BY <1>3, SubmissionKept DEF TaskInv, ClientAlone
<1>6. \A b \in Clients : TaskOK(b)'
  BY <1>1, TaskKept DEF TaskInv, ClientAlone
<1>7. \A b \in Clients : AnswerOK(b)'
  <2> SUFFICES ASSUME NEW b \in Clients, b # c PROVE AnswerOK(b)'
    OBVIOUS
  <2>1. answer'[b].task = answer[b].task
    BY DEF ClientAlone
  <2> QED BY <1>1, <2>1, AnswerKept DEF TaskInv, ClientAlone
<1>8. UniqueKeys'
  BY <1>1, KeysKept DEF TaskInv
<1>9. \A t \in Clients : /\ exec'[t].pc # "idle" => tasks'[t].status = "RUNNING"
                         /\ tasks'[t].status \in StatusSet
  BY DEF TaskInv, ClientAlone, StatusSet
<1>10. Process'
  BY <1>1, ProcessKept DEF TaskInv, Keeps, ClientAlone
<1> QED BY <1>4, <1>5, <1>6, <1>7, <1>8, <1>9, <1>10 DEF TaskInv, StatusSet

\* A step of a client that makes its task.
LEMMA ClientMakesTask ==
  ASSUME TaskInv, Requests, NEW c \in Clients, ClientAlone(c),
         tasks[c].status = "none", tasks'[c].status = "PENDING",
         TaskOK(c)', Found(c) = {},
         tasks'[c].key = req[c].key, tasks'[c].actor = Access(req[c]).actor,
         SubmissionOK(c)', answer'[c].task = answer[c].task
  PROVE  TaskInv'
<1>1. \A t \in Clients : t # c => Keeps(t)
  BY DEF ClientAlone, Keeps
<1>2. PICK to : Moves(c, to)
  BY DEF ClientAlone
<1>3. \A b \in Clients : b # c => pc'[b] = pc[b] /\ row'[b] = row[b]
  BY <1>2 DEF Moves, Requests
<1>4. TaskShape'
  BY DEF TaskShape, TaskInv, ClientAlone
<1>5. \A b \in Clients : SubmissionOK(b)'
  <2> SUFFICES ASSUME NEW b \in Clients, b # c PROVE SubmissionOK(b)'
    OBVIOUS
  <2> QED BY <1>3, SubmissionKept DEF TaskInv, ClientAlone
<1>6. \A b \in Clients : TaskOK(b)'
  BY <1>1, TaskKept DEF TaskInv, ClientAlone
<1>7. \A b \in Clients : AnswerOK(b)'
  <2> SUFFICES ASSUME NEW b \in Clients PROVE AnswerOK(b)'
    OBVIOUS
  <2>1. answer'[b].task = answer[b].task
    BY DEF ClientAlone
  <2>2. \A t \in Clients : tasks[t].status # "none" => Keeps(t)
    BY <1>1
  <2> QED BY <2>1, <2>2, AnswerKept DEF TaskInv, ClientAlone
<1>8. UniqueKeys'
  <2> SUFFICES ASSUME NEW t \in Clients, NEW u \in Clients,
                      tasks'[t].status # "none", tasks'[u].status # "none", tasks'[t].key # "",
                      tasks'[t].key = tasks'[u].key, tasks'[t].actor = tasks'[u].actor
               PROVE  t = u
    BY DEF UniqueKeys
  <2>1. ASSUME NEW b \in Clients, b # c, tasks[b].status # "none", tasks[b].key = req[c].key,
               tasks[b].actor = Access(req[c]).actor, req[c].key # ""
        PROVE  FALSE
    BY <2>1 DEF Found
  <2>2. CASE t # c /\ u # c
    <3>1. tasks'[t] = tasks[t] /\ tasks'[u] = tasks[u]
      BY <2>2 DEF ClientAlone
    <3> QED BY <3>1 DEF TaskInv, UniqueKeys
  <2>3. CASE t = c /\ u # c
    <3>1. tasks'[u] = tasks[u]
      BY <2>3 DEF ClientAlone
    <3> QED BY <2>1, <2>3, <3>1
  <2>4. CASE t # c /\ u = c
    <3>1. tasks'[t] = tasks[t]
      BY <2>4 DEF ClientAlone
    <3> QED BY <2>1, <2>4, <3>1
  <2> QED BY <2>2, <2>3, <2>4
<1>9. \A t \in Clients : /\ exec'[t].pc # "idle" => tasks'[t].status = "RUNNING"
                         /\ tasks'[t].status \in StatusSet
  <2>1. exec[c].pc = "idle"
    BY DEF TaskInv
  <2> QED BY <2>1 DEF TaskInv, ClientAlone, StatusSet
<1>10. Process'
  <2>1. \A t \in Clients : tasks[t].status # "none" => tasks'[t].status # "none"
    BY <1>1 DEF Keeps
  <2> QED BY <2>1, ProcessKept DEF TaskInv, ClientAlone
<1> QED BY <1>4, <1>5, <1>6, <1>7, <1>8, <1>9, <1>10 DEF TaskInv, StatusSet

\* A step of client c leaves the rest of the program alone.
Still(c) ==
    /\ req' = req /\ app' = app /\ recoverable' = recoverable /\ app # "down" /\ exec' = exec
    /\ DOMAIN tasks' = Clients /\ DOMAIN tasks'[c] = TaskFields
    /\ \A b \in Clients : b # c => tasks'[b] = tasks[b]

\* The client is answered.
LEMMA AnswerClient ==
  ASSUME TaskInv, Requests, NEW c \in Clients, Still(c), NEW code, Answer(c, code)
  PROVE  ClientAlone(c) /\ SubmissionOK(c)' /\ answer'[c].task = answer[c].task
<1>1. Moves(c, "done") /\ pc'[c] = "done"
  BY DEF Answer, Moves, Requests
<1>2. /\ DOMAIN answer' = Clients /\ DOMAIN answer'[c] = AnswerFields
      /\ answer'[c].task = answer[c].task
      /\ \A b \in Clients : b # c => answer'[b] = answer[b]
  BY DEF Answer, TaskInv, TaskShape, AnswerFields
<1> QED BY <1>1, <1>2, DoneKept DEF ClientAlone, Still

\* The client goes on.
LEMMA ContinueClient ==
  ASSUME TaskInv, Requests, NEW c \in Clients, Still(c), NEW next, NEW value,
         Continue(c, next, value)
  PROVE  /\ ClientAlone(c) /\ answer'[c].task = answer[c].task
         /\ pc'[c] = next /\ row'[c] = value
<1>1. Moves(c, next) /\ pc'[c] = next /\ row'[c] = value
  BY DEF Continue, Moves, Requests
<1>2. answer' = answer /\ DOMAIN answer = Clients /\ DOMAIN answer[c] = AnswerFields
  BY DEF Continue, TaskInv, TaskShape
<1> QED BY <1>1, <1>2 DEF ClientAlone, Still

\* The client is answered with a task.
LEMMA RespondClient ==
  ASSUME TaskInv, Requests, NEW c \in Clients, Still(c), NEW t, Respond(c, t)
  PROVE  ClientAlone(c) /\ SubmissionOK(c)' /\ answer'[c].task = t
<1>1. Moves(c, "done") /\ pc'[c] = "done"
  BY DEF Respond, Moves, Requests
<1>2. /\ DOMAIN answer' = Clients /\ answer'[c] = [code |-> SubmissionCode(req[c].mode, t), task |-> t]
      /\ \A b \in Clients : b # c => answer'[b] = answer[b]
  BY DEF Respond, TaskInv, TaskShape
<1>3. DOMAIN answer'[c] = AnswerFields /\ answer'[c].task = t
  BY <1>2 DEF AnswerFields
<1> QED BY <1>1, <1>2, <1>3, DoneKept DEF ClientAlone, Still

\* The client waits for a task.
LEMMA WaitClient ==
  ASSUME TaskInv, Requests, NEW c \in Clients, Still(c), NEW t, Wait(c, t)
  PROVE  ClientAlone(c) /\ pc'[c] = "wait" /\ answer'[c].task = t
<1>1. Moves(c, "wait") /\ pc'[c] = "wait"
  BY DEF Wait, Moves, Requests
<1>2. /\ DOMAIN answer' = Clients /\ DOMAIN answer'[c] = AnswerFields /\ answer'[c].task = t
      /\ \A b \in Clients : b # c => answer'[b] = answer[b]
  BY DEF Wait, TaskInv, TaskShape, AnswerFields
<1> QED BY <1>1, <1>2 DEF ClientAlone, Still

\* No task changes.
LEMMA TasksUnchanged ==
  ASSUME TaskInv, NEW c \in Clients, UNCHANGED <<req, app, recoverable, exec, tasks>>, app # "down"
  PROVE  /\ Still(c) /\ Keeps(c) /\ tasks'[c].status \in StatusSet
         /\ exec[c].pc # "idle" => tasks'[c].status = "RUNNING"
BY DEF TaskInv, TaskShape, Still, Keeps, StatusSet

\* The client is answered, and no task changes.
LEMMA AnswerKeepsTasks ==
  ASSUME TaskInv, Requests, NEW c \in Clients, NEW code, Answer(c, code),
         UNCHANGED <<req, app, recoverable, exec, tasks>>, app # "down"
  PROVE  TaskInv'
<1>1. /\ Still(c) /\ Keeps(c) /\ tasks'[c].status \in StatusSet
      /\ exec[c].pc # "idle" => tasks'[c].status = "RUNNING"
  BY TasksUnchanged
<1>2. ClientAlone(c) /\ SubmissionOK(c)' /\ answer'[c].task = answer[c].task
  BY <1>1, AnswerClient
<1>3. AnswerOK(c)'
  <2>1. \A t \in Clients : Keeps(t)
    BY DEF Keeps
  <2> QED BY <1>2, <2>1, AnswerKept DEF TaskInv
<1> QED BY <1>1, <1>2, <1>3, ClientKeepsTasks

\* The client goes on, and no task changes.
LEMMA ContinueKeepsTasks ==
  ASSUME TaskInv, Requests, NEW c \in Clients, NEW next, NEW value, Continue(c, next, value),
         UNCHANGED <<req, app, recoverable, exec, tasks>>, app # "down",
         pc'[c] = next /\ row'[c] = value => SubmissionOK(c)'
  PROVE  TaskInv'
<1>1. /\ Still(c) /\ Keeps(c) /\ tasks'[c].status \in StatusSet
      /\ exec[c].pc # "idle" => tasks'[c].status = "RUNNING"
  BY TasksUnchanged
<1>2. ClientAlone(c) /\ SubmissionOK(c)' /\ answer'[c].task = answer[c].task
  BY <1>1, ContinueClient
<1>3. AnswerOK(c)'
  <2>1. \A t \in Clients : Keeps(t)
    BY DEF Keeps
  <2> QED BY <1>2, <2>1, AnswerKept DEF TaskInv
<1> QED BY <1>1, <1>2, <1>3, ClientKeepsTasks

\* A request of the inventory is answered or goes on.
LEMMA InventoryMoves ==
  ASSUME NEW c \in Clients, InventoryStep(c)
  PROVE  \/ \E code : Answer(c, code)
         \/ \E next \in HoldsDevice \cup {"writeCredential"} : \E value : Continue(c, next, value)
<1>1. {"insertDevice", "checkPatch", "loadCredential", "probe", "writeDevice", "writeCredential"}
        \subseteq HoldsDevice \cup {"writeCredential"}
  BY DEF HoldsDevice
<1>2. CASE Denied(c)
  BY <1>2 DEF Denied
<1>3. CASE CreateCredential(c)
  BY <1>3 DEF CreateCredential
<1>4. CASE PatchCredential(c)
  BY <1>1, <1>4 DEF PatchCredential
<1>5. CASE WriteCredential(c)
  BY <1>5 DEF WriteCredential
<1>6. CASE DeleteCredential(c)
  BY <1>6 DEF DeleteCredential
<1>7. CASE CheckCredential(c)
  BY <1>1, <1>7 DEF CheckCredential
<1>8. CASE InsertDevice(c)
  BY <1>8 DEF InsertDevice
<1>9. CASE ReadDevice(c)
  BY <1>1, <1>9 DEF ReadDevice
<1>10. CASE CheckPatchedCredential(c)
  BY <1>1, <1>10 DEF CheckPatchedCredential
<1>11. CASE LoadCredential(c)
  BY <1>1, <1>11 DEF LoadCredential
<1>12. CASE Probe(c)
  BY <1>1, <1>12 DEF Probe
<1>13. CASE ObserveDevice(c)
  BY <1>1, <1>13 DEF ObserveDevice
<1>14. CASE WriteDevice(c)
  BY <1>14 DEF WriteDevice
<1>15. CASE DeleteDevice(c)
  BY <1>15 DEF DeleteDevice
<1> QED BY <1>2, <1>3, <1>4, <1>5, <1>6, <1>7, <1>8, <1>9, <1>10, <1>11, <1>12, <1>13, <1>14,
           <1>15 DEF InventoryStep

\* A request of the inventory touches no task.
LEMMA InventoryStepKeepsTasks ==
  ASSUME TaskInv, Requests, NEW c \in Clients, InventoryStep(c),
         UNCHANGED <<req, app, recoverable, exec, tasks>>, app # "down"
  PROVE  TaskInv'
<1>1. CASE \E code : Answer(c, code)
  BY <1>1, AnswerKeepsTasks
<1>2. CASE \E next \in HoldsDevice \cup {"writeCredential"} : \E value : Continue(c, next, value)
  <2>1. PICK next \in HoldsDevice \cup {"writeCredential"} : \E value : Continue(c, next, value)
    BY <1>2
  <2>2. PICK value : Continue(c, next, value)
    BY <2>1
  <2>3. pc'[c] = next => SubmissionOK(c)'
    BY DoneKept
  <2> QED BY <2>2, <2>3, ContinueKeepsTasks
<1> QED BY <1>1, <1>2, InventoryMoves

\* replay: the client is answered with the task of its actor and key, if the
\* request is the same, and with a conflict otherwise.
LEMMA ReplayKeepsTasks ==
  ASSUME TaskInv, Requests, NEW c \in Clients, NEW t \in Found(c), replay(c, t), Accepted(c),
         UNCHANGED <<req, app, recoverable, exec, tasks>>, app # "down"
  PROVE  TaskInv'
<1>1. t \in Clients /\ tasks[t].status # "none" /\ tasks[t].actor = Access(req[c]).actor
  BY DEF Found
<1>2. CASE Answer(c, "IDEMPOTENCY_CONFLICT")
  BY <1>2, AnswerKeepsTasks
<1>3. ASSUME tasks[t].snap = snapshotRequest(req[c]), answer'[c].task = t
      PROVE  AnswerOK(c)'
  BY <1>1, <1>3 DEF AnswerOK
<1>4. /\ Still(c) /\ Keeps(c) /\ tasks'[c].status \in StatusSet
      /\ exec[c].pc # "idle" => tasks'[c].status = "RUNNING"
  BY TasksUnchanged
<1>5. CASE tasks[t].snap = snapshotRequest(req[c]) /\ Respond(c, t)
  <2>1. ClientAlone(c) /\ SubmissionOK(c)' /\ answer'[c].task = t
    BY <1>4, <1>5, RespondClient
  <2> QED BY <1>3, <1>4, <1>5, <2>1, ClientKeepsTasks
<1>6. CASE tasks[t].snap = snapshotRequest(req[c]) /\ Wait(c, t)
  <2>1. ClientAlone(c) /\ pc'[c] = "wait" /\ answer'[c].task = t
    BY <1>4, <1>6, WaitClient
  <2>2. SubmissionOK(c)'
    BY <2>1 DEF SubmissionOK, Submitting, Accepted, Submits
  <2> QED BY <1>3, <1>4, <1>6, <2>1, <2>2, ClientKeepsTasks
<1> QED BY <1>2, <1>5, <1>6 DEF replay

\* The task of a client changes its status and nothing else it is about.
LEMMA OwnTaskChanges ==
  ASSUME TaskInv, NEW c \in Clients, NEW task, tasks' = [tasks EXCEPT ![c] = task],
         UNCHANGED <<req, app, recoverable, exec>>, app # "down", DOMAIN task = TaskFields,
         task.actor = tasks[c].actor, task.key = tasks[c].key, task.snap = tasks[c].snap,
         task.main = tasks[c].main, task.save = tasks[c].save,
         task.status = "none" <=> tasks[c].status = "none"
  PROVE  /\ Still(c) /\ tasks'[c] = task /\ \A t \in Clients : Keeps(t)
<1>1. /\ DOMAIN tasks' = Clients /\ tasks'[c] = task
      /\ \A b \in Clients : b # c => tasks'[b] = tasks[b]
  BY DEF TaskInv, TaskShape
<1> QED BY <1>1 DEF Still, Keeps

\* A row with another status.
LEMMA TaskWithStatus ==
  ASSUME NEW task, DOMAIN task = TaskFields, NEW status
  PROVE  LET u == [task EXCEPT !.status = status]
         IN /\ DOMAIN u = TaskFields /\ u.status = status
            /\ u.actor = task.actor /\ u.key = task.key /\ u.snap = task.snap
            /\ u.main = task.main /\ u.save = task.save
            /\ u.cancel = task.cancel /\ u.err = task.err
BY DEF TaskFields

\* Submit looks for a task with its key.
LEMMA FindByIdempotencyStep ==
  ASSUME TaskInv, InventoryInv, NEW c \in Clients, FindByIdempotency(c),
         UNCHANGED <<req, app, recoverable, exec, tasks>>, app # "down"
  PROVE  TaskInv'
<1>1. Requests
  BY DEF InventoryInv
<1>2. Accepted(c) /\ tasks[c].status = "none"
  BY DEF FindByIdempotency, Accepted, TaskInv, SubmissionOK
<1>3. CASE Continue(c, "prepare", row[c])
  <2>1. pc'[c] = "prepare" => SubmissionOK(c)'
    BY <1>2 DEF SubmissionOK, Accepted, Submits
  <2> QED BY <1>1, <1>3, <2>1, ContinueKeepsTasks
<1>4. CASE \E t \in Found(c) : replay(c, t)
  BY <1>1, <1>2, <1>4, ReplayKeepsTasks
<1> QED BY <1>3, <1>4 DEF FindByIdempotency

\* The parameters of a submission.
LEMMA SubmittedCommands ==
  ASSUME InventoryInv, NEW c \in Clients, Accepted(c)
  PROVE  snapshotRequest(req[c]).parameters.commands \in Seq(Seq(STRING))
<1>1. snapshotRequest(req[c]).parameters = req[c].parameters
  BY DEF snapshotRequest
<1>2. req[c].parameters.commands \in Seq(Seq(STRING))
  BY SubmitRequestsAssumption DEF InventoryInv, Accepted, Submits
<1> QED BY <1>1, <1>2

\* Submit plans the operation.
LEMMA PreflightStep ==
  ASSUME TaskInv, InventoryInv, NEW c \in Clients, Preflight(c),
         UNCHANGED <<req, app, recoverable, exec, tasks>>, app # "down"
  PROVE  TaskInv'
<1> DEFINE s == snapshotRequest(req[c])
           prepared == prepare(s)
           value == [main |-> prepared.main, save |-> prepared.save,
                     audited |-> Class(req[c].op) # "QUERY"]
<1>1. Requests
  BY DEF InventoryInv
<1>2. Accepted(c) /\ tasks[c].status = "none"
  BY DEF Preflight, TaskInv, SubmissionOK, Submitting
<1>3. CASE \E code : Answer(c, code)
  BY <1>1, <1>3, AnswerKeepsTasks
<1>4. CASE prepared.error = "" /\ Continue(c, "create", value)
  <2>1. Planned(prepared.main, prepared.save, s)
    BY <1>2, <1>4, Prepared, SubmittedCommands
  <2>2. value.main = prepared.main /\ value.save = prepared.save
    OBVIOUS
  <2> HIDE DEF prepared, value
  <2>3. pc'[c] = "create" /\ row'[c] = value => SubmissionOK(c)'
    BY <1>2, <2>1, <2>2 DEF SubmissionOK, Accepted, Submits
  <2> QED BY <1>1, <1>4, <2>3, ContinueKeepsTasks
<1> QED BY <1>3, <1>4 DEF Preflight

\* The row that Create and CreateFails insert.
LEMMA NewTaskFields ==
  ASSUME NEW c
  PROVE  LET task == NewTask(c)
         IN /\ DOMAIN task = TaskFields /\ task.status = "PENDING"
            /\ task.actor = Access(req[c]).actor /\ task.key = req[c].key
            /\ task.snap = snapshotRequest(req[c])
            /\ task.main = row[c].main /\ task.save = row[c].save
            /\ task.cancel = FALSE
<1>1. DOMAIN NoTask = TaskFields /\ NoTask.cancel = FALSE
  BY DEF NoTask, TaskFields
<1> QED BY <1>1 DEF NewTask, TaskFields

\* An insert makes the task of its client, with an unused key.
LEMMA InsertMakesTask ==
  ASSUME TaskInv, InventoryInv, NEW c \in Clients, pc[c] = "create", Insert(c), Found(c) = {},
         UNCHANGED <<req, app, recoverable, exec>>, app # "down"
  PROVE  /\ Still(c) /\ tasks[c].status = "none" /\ tasks'[c].status = "PENDING"
         /\ TaskOK(c)' /\ Accepted(c)
         /\ tasks'[c].key = req[c].key /\ tasks'[c].actor = Access(req[c]).actor
<1>1. Accepted(c) /\ tasks[c].status = "none" /\ Planned(row[c].main, row[c].save, snapshotRequest(req[c]))
  BY DEF TaskInv, SubmissionOK, Submitting
<1> DEFINE task == NewTask(c)
<1>2. /\ DOMAIN task = TaskFields /\ task.status = "PENDING"
      /\ task.actor = Access(req[c]).actor /\ task.key = req[c].key
      /\ task.snap = snapshotRequest(req[c])
      /\ task.main = row[c].main /\ task.save = row[c].save
  BY NewTaskFields
<1> HIDE DEF task
<1>3. /\ DOMAIN tasks' = Clients /\ tasks'[c] = task
      /\ \A b \in Clients : b # c => tasks'[b] = tasks[b]
  BY DEF Insert, TaskInv, TaskShape, task
<1>4. TaskOK(c)'
  BY <1>1, <1>2, <1>3 DEF TaskOK, Accepted, Submits
<1> QED BY <1>1, <1>2, <1>3, <1>4 DEF Still

\* Submit creates the task, or finds that another request with its key has.
LEMMA CreateStep ==
  ASSUME TaskInv, InventoryInv, NEW c \in Clients, Create(c),
         UNCHANGED <<req, app, recoverable, exec>>, app # "down"
  PROVE  TaskInv'
<1>1. Requests
  BY DEF InventoryInv
<1>2. Accepted(c) /\ pc[c] = "create"
  BY DEF Create, TaskInv, SubmissionOK, Submitting
<1>3. CASE (\E t \in Found(c) : replay(c, t)) /\ UNCHANGED tasks
  BY <1>1, <1>2, <1>3, ReplayKeepsTasks
<1>4. CASE Found(c) = {} /\ Insert(c) /\ \E next \in {"createAudit", "queue"} : Continue(c, next, row[c])
  <2>1. PICK next \in {"createAudit", "queue"} : Continue(c, next, row[c])
    BY <1>4
  <2>2. /\ Still(c) /\ tasks[c].status = "none" /\ tasks'[c].status = "PENDING"
        /\ TaskOK(c)' /\ tasks'[c].key = req[c].key /\ tasks'[c].actor = Access(req[c]).actor
    BY <1>2, <1>4, InsertMakesTask
  <2>3. /\ ClientAlone(c) /\ answer'[c].task = answer[c].task /\ pc'[c] = next
    BY <1>1, <2>1, <2>2, ContinueClient
  <2>4. SubmissionOK(c)'
    BY <1>2, <2>1, <2>2, <2>3 DEF SubmissionOK, Accepted, Submits
  <2> QED BY <1>1, <1>4, <2>2, <2>3, <2>4, ClientMakesTask
<1> QED BY <1>3, <1>4 DEF Create

\* The insert fails, or its answer is lost.
LEMMA CreateFailsStep ==
  ASSUME TaskInv, InventoryInv, NEW c \in Clients, CreateFails(c),
         UNCHANGED <<req, app, recoverable, exec>>, app # "down"
  PROVE  TaskInv'
<1>1. Requests
  BY DEF InventoryInv
<1>2. pc[c] = "create" /\ Answer(c, "DATABASE_UNAVAILABLE")
  BY DEF CreateFails
<1>3. CASE UNCHANGED tasks
  BY <1>1, <1>2, <1>3, AnswerKeepsTasks
<1>4. CASE Insert(c) /\ Found(c) = {}
  <2>1. /\ Still(c) /\ tasks[c].status = "none" /\ tasks'[c].status = "PENDING"
        /\ TaskOK(c)' /\ tasks'[c].key = req[c].key /\ tasks'[c].actor = Access(req[c]).actor
    BY <1>2, <1>4, InsertMakesTask
  <2>2. /\ ClientAlone(c) /\ answer'[c].task = answer[c].task /\ SubmissionOK(c)'
    BY <1>1, <1>2, <2>1, AnswerClient
  <2> QED BY <1>1, <1>4, <2>1, <2>2, ClientMakesTask
<1> QED BY <1>3, <1>4 DEF CreateFails

\* The audit row of a query.
LEMMA CreateQueryAuditStep ==
  ASSUME TaskInv, InventoryInv, NEW c \in Clients, CreateQueryAudit(c),
         UNCHANGED <<req, app, recoverable, exec, tasks>>, app # "down"
  PROVE  TaskInv'
<1>1. Requests
  BY DEF InventoryInv
<1>2. Accepted(c) /\ tasks[c].status # "none"
  BY DEF CreateQueryAudit, TaskInv, SubmissionOK, Submitting
<1>3. PICK value : Continue(c, "queue", value)
  BY DEF CreateQueryAudit
<1>4. pc'[c] = "queue" => SubmissionOK(c)'
  BY <1>2 DEF SubmissionOK, Accepted, Submits
<1> QED BY <1>1, <1>3, <1>4, ContinueKeepsTasks

\* A task that is queued or cancelled before it runs is still the same task.
LEMMA StatusChanges ==
  ASSUME TaskInv, NEW c \in Clients, NEW status \in StatusSet \ {"none"},
         tasks' = [tasks EXCEPT ![c].status = status],
         UNCHANGED <<req, app, recoverable, exec>>, app # "down", tasks[c].status \notin {"none", "RUNNING"}
  PROVE  /\ Still(c) /\ (\A t \in Clients : Keeps(t)) /\ tasks'[c].status = status
         /\ exec[c].pc = "idle"
<1> DEFINE task == [tasks[c] EXCEPT !.status = status]
<1>1. tasks' = [tasks EXCEPT ![c] = task]
  OBVIOUS
<1>2. DOMAIN tasks[c] = TaskFields
  BY DEF TaskInv, TaskShape
<1>3. /\ DOMAIN task = TaskFields /\ task.status = status
      /\ task.actor = tasks[c].actor /\ task.key = tasks[c].key /\ task.snap = tasks[c].snap
      /\ task.main = tasks[c].main /\ task.save = tasks[c].save
  BY <1>2, TaskWithStatus
<1> HIDE DEF task
<1>4. Still(c) /\ tasks'[c] = task /\ \A t \in Clients : Keeps(t)
  BY <1>1, <1>3, OwnTaskChanges
<1>5. exec[c].pc = "idle"
  BY DEF TaskInv
<1> QED BY <1>3, <1>4, <1>5

\* Scheduler.Queue.
LEMMA QueueStep ==
  ASSUME TaskInv, InventoryInv, NEW c \in Clients, Queue(c),
         UNCHANGED <<req, app, recoverable, exec>>, app # "down"
  PROVE  TaskInv'
<1>1. Requests
  BY DEF InventoryInv
<1>2. Accepted(c) /\ tasks[c].status \in {"PENDING", "QUEUED"} /\ TaskOK(c)
  BY DEF Queue, QueuePending, Queueable, TaskInv, SubmissionOK, Submitting
<1>3. Still(c) /\ (\A t \in Clients : Keeps(t)) /\ tasks'[c].status = "QUEUED" /\ exec[c].pc = "idle"
  <2>1. "QUEUED" \in StatusSet \ {"none"}
    BY DEF StatusSet
  <2> QED BY <1>2, <2>1, StatusChanges DEF Queue, QueuePending
<1>4. answer'[c].task = c => AnswerOK(c)'
  BY <1>2, <1>3 DEF AnswerOK, TaskOK, Keeps
<1>5. CASE Wait(c, c)
  <2>1. ClientAlone(c) /\ pc'[c] = "wait" /\ answer'[c].task = c
    BY <1>1, <1>3, <1>5, WaitClient
  <2>2. SubmissionOK(c)'
    BY <1>2, <2>1 DEF SubmissionOK, Submitting, Accepted, Submits, ClientAlone
  <2> QED BY <1>1, <1>3, <1>4, <2>1, <2>2, ClientKeepsTasks DEF StatusSet
<1>6. CASE /\ answer' = [answer EXCEPT ![c] = [code |-> "ACCEPTED", task |-> c]]
           /\ pc' = [pc EXCEPT ![c] = "done"] /\ UNCHANGED row
  <2>1. Moves(c, "done") /\ pc'[c] = "done"
    BY <1>1, <1>6 DEF Moves, Requests
  <2>2. /\ DOMAIN answer' = Clients /\ DOMAIN answer'[c] = AnswerFields /\ answer'[c].task = c
        /\ \A b \in Clients : b # c => answer'[b] = answer[b]
    BY <1>6 DEF TaskInv, TaskShape, AnswerFields
  <2>3. ClientAlone(c)
    BY <1>3, <2>1, <2>2 DEF ClientAlone, Still
  <2>4. SubmissionOK(c)'
    BY <2>1, DoneKept
  <2> QED BY <1>1, <1>3, <1>4, <2>2, <2>3, <2>4, ClientKeepsTasks DEF StatusSet
<1> QED BY <1>5, <1>6 DEF Queue

\* A client goes on after its own task has changed.
LEMMA ContinueWithTask ==
  ASSUME TaskInv, Requests, NEW c \in Clients, NEW next \in {"cancel", "cancelAudit"}, NEW value,
         Continue(c, next, value), Still(c), \A t \in Clients : Keeps(t),
         tasks'[c].status \in StatusSet, exec[c].pc # "idle" => tasks'[c].status = "RUNNING",
         Accepted(c)
  PROVE  TaskInv'
<1>1. ClientAlone(c) /\ answer'[c].task = answer[c].task /\ pc'[c] = next
  BY ContinueClient
<1>2. SubmissionOK(c)'
  BY <1>1 DEF SubmissionOK, Accepted, Submits, Still
<1>3. AnswerOK(c)'
  BY <1>1, AnswerKept DEF TaskInv, Still
<1> QED BY <1>1, <1>2, <1>3, ClientKeepsTasks

\* Queue finds the row claimed already.
LEMMA QueueConflictStep ==
  ASSUME TaskInv, InventoryInv, NEW c \in Clients, QueueConflict(c),
         UNCHANGED <<req, app, recoverable, exec, tasks>>, app # "down"
  PROVE  TaskInv'
<1>1. Requests /\ Accepted(c)
  BY DEF InventoryInv, QueueConflict, TaskInv, SubmissionOK, Submitting
<1>2. PICK value : Continue(c, "cancel", value)
  BY DEF QueueConflict, CleanUp
<1>3. pc'[c] = "cancel" => SubmissionOK(c)'
  BY <1>1 DEF SubmissionOK, Accepted, Submits
<1> QED BY <1>1, <1>2, <1>3, ContinueKeepsTasks

\* Queue fails, with its statement committed or not.
LEMMA QueueFailsStep ==
  ASSUME TaskInv, InventoryInv, NEW c \in Clients, QueueFails(c),
         UNCHANGED <<req, app, recoverable, exec>>, app # "down"
  PROVE  TaskInv'
<1>1. Requests /\ Accepted(c)
  BY DEF InventoryInv, QueueFails, TaskInv, SubmissionOK, Submitting
<1>2. PICK value : Continue(c, "cancel", value)
  BY DEF QueueFails, CleanUp
<1>3. CASE UNCHANGED tasks
  <2>1. /\ Still(c) /\ tasks'[c].status \in StatusSet
        /\ exec[c].pc # "idle" => tasks'[c].status = "RUNNING"
    BY <1>3, TasksUnchanged
  <2>2. \A t \in Clients : Keeps(t)
    BY <1>3 DEF Keeps
  <2> QED BY <1>1, <1>2, <2>1, <2>2, ContinueWithTask
<1>4. CASE QueuePending(c)
  <2>1. "QUEUED" \in StatusSet \ {"none"}
    BY DEF StatusSet
  <2>2. Still(c) /\ (\A t \in Clients : Keeps(t)) /\ tasks'[c].status = "QUEUED" /\ exec[c].pc = "idle"
    BY <1>4, <2>1, StatusChanges DEF QueuePending, Queueable
  <2> QED BY <1>1, <1>2, <2>1, <2>2, ContinueWithTask
<1> QED BY <1>3, <1>4 DEF QueueFails

\* What RequestCancel leaves alone.
LEMMA RequestCancelFields ==
  ASSUME NEW task, DOMAIN task = TaskFields
  PROVE  LET u == RequestCancel(task)
         IN /\ DOMAIN u = TaskFields
            /\ u.actor = task.actor /\ u.key = task.key /\ u.snap = task.snap
            /\ u.main = task.main /\ u.save = task.save
            /\ \/ u.status = task.status
               \/ task.status \in {"PENDING", "QUEUED"} /\ u.status = "CANCELLED"
BY DEF RequestCancel, TaskFields

\* The clean-up of Submit asks for the task to be cancelled.
LEMMA CleanUpTaskStep ==
  ASSUME TaskInv, InventoryInv, NEW c \in Clients, CleanUpTask(c),
         UNCHANGED <<req, app, recoverable, exec>>, app # "down"
  PROVE  TaskInv'
<1>1. Requests
  BY DEF InventoryInv
<1>2. Accepted(c) /\ Continue(c, "cancelAudit", row[c])
  BY DEF CleanUpTask, TaskInv, SubmissionOK, Submitting
<1>3. CASE tasks' = tasks
  <2>1. /\ Still(c) /\ tasks'[c].status \in StatusSet
        /\ exec[c].pc # "idle" => tasks'[c].status = "RUNNING"
    BY <1>3, TasksUnchanged
  <2>2. \A t \in Clients : Keeps(t)
    BY <1>3 DEF Keeps
  <2> QED BY <1>1, <1>2, <2>1, <2>2, ContinueWithTask
<1>4. CASE tasks' = [tasks EXCEPT ![c] = RequestCancel(@)]
  <2> DEFINE task == RequestCancel(tasks[c])
  <2>1. tasks' = [tasks EXCEPT ![c] = task]
    BY <1>4
  <2>2. DOMAIN tasks[c] = TaskFields
    BY DEF TaskInv, TaskShape
  <2>3. /\ DOMAIN task = TaskFields
        /\ task.actor = tasks[c].actor /\ task.key = tasks[c].key /\ task.snap = tasks[c].snap
        /\ task.main = tasks[c].main /\ task.save = tasks[c].save
        /\ \/ task.status = tasks[c].status
           \/ tasks[c].status \in {"PENDING", "QUEUED"} /\ task.status = "CANCELLED"
    BY <2>2, RequestCancelFields
  <2> HIDE DEF task
  <2>4. Still(c) /\ tasks'[c] = task /\ \A t \in Clients : Keeps(t)
    BY <2>1, <2>3, OwnTaskChanges
  <2>5. tasks'[c].status \in StatusSet /\ (exec[c].pc # "idle" => tasks'[c].status = "RUNNING")
    BY <2>3, <2>4 DEF TaskInv, StatusSet, Terminal
  <2> QED BY <1>1, <1>2, <2>4, <2>5, ContinueWithTask
<1> QED BY <1>3, <1>4 DEF CleanUpTask

\* The poll of Service.wait finds the task ended.
LEMMA WaitEndedStep ==
  ASSUME TaskInv, InventoryInv, NEW c \in Clients, WaitEnded(c),
         UNCHANGED <<req, app, recoverable, exec, tasks>>, app # "down"
  PROVE  TaskInv'
<1>1. Requests
  BY DEF InventoryInv
<1>2. /\ Still(c) /\ Keeps(c) /\ tasks'[c].status \in StatusSet
      /\ exec[c].pc # "idle" => tasks'[c].status = "RUNNING"
  BY TasksUnchanged
<1>3. ClientAlone(c) /\ SubmissionOK(c)' /\ answer'[c].task = answer[c].task
  BY <1>1, <1>2, RespondClient DEF WaitEnded
<1>4. \A t \in Clients : Keeps(t)
  BY DEF Keeps
<1>5. AnswerOK(c)'
  BY <1>3, <1>4, AnswerKept DEF TaskInv
<1> QED BY <1>1, <1>2, <1>3, <1>5, ClientKeepsTasks

\* Every step of a submission.
LEMMA SubmitStepKeepsTasks ==
  ASSUME TaskInv, InventoryInv, NEW c \in Clients, SubmitStep(c),
         UNCHANGED <<req, app, recoverable>>, app # "down"
  PROVE  TaskInv'
<1>1. exec' = exec
  BY DEF SubmitStep, Reject, FindByIdempotency, Preflight, Create, CreateFails, CreateQueryAudit,
         Queue, QueueConflict, QueueFails, CleanUpTask, CleanUpAudit, WaitEnded, WaitTimesOut,
         operationVars
<1>2. ASSUME Reject(c) \/ CleanUpAudit(c) \/ WaitTimesOut(c) PROVE TaskInv'
  <2>1. tasks' = tasks /\ \E code : Answer(c, code)
    BY <1>2 DEF Reject, CleanUpAudit, WaitTimesOut, operationVars
  <2> QED BY <1>1, <2>1, AnswerKeepsTasks DEF InventoryInv
<1>3. ASSUME FindByIdempotency(c) PROVE TaskInv'
  BY <1>1, <1>3, FindByIdempotencyStep DEF FindByIdempotency, operationVars
<1>4. ASSUME Preflight(c) PROVE TaskInv'
  BY <1>1, <1>4, PreflightStep DEF Preflight, operationVars
<1>5. ASSUME CreateQueryAudit(c) PROVE TaskInv'
  BY <1>1, <1>5, CreateQueryAuditStep DEF CreateQueryAudit
<1>6. ASSUME WaitEnded(c) PROVE TaskInv'
  BY <1>1, <1>6, WaitEndedStep DEF WaitEnded, operationVars
<1>7. ASSUME QueueConflict(c) PROVE TaskInv'
  BY <1>1, <1>7, QueueConflictStep DEF QueueConflict, operationVars
<1> QED BY <1>1, <1>2, <1>3, <1>4, <1>5, <1>6, <1>7, CreateStep, CreateFailsStep, QueueStep,
           QueueFailsStep, CleanUpTaskStep DEF SubmitStep

-----------------------------------------------------------------------------
(* What the steps of the executor do to its state.                         *)

\* Only the execution of task t changes.
ExecutionOf(t) ==
    /\ DOMAIN exec' = Clients /\ DOMAIN exec'[t] = ExecFields
    /\ \A u \in Clients : u # t => exec'[u] = exec[u]

\* The record of an execution is replaced.
LEMMA ExecReplaced ==
  ASSUME TaskShape, NEW t \in Clients, NEW e, DOMAIN e = ExecFields, exec' = [exec EXCEPT ![t] = e]
  PROVE  ExecutionOf(t) /\ exec'[t] = e
BY DEF TaskShape, ExecutionOf

\* The fields of an execution but its place.
SameExecution(t) ==
    /\ exec'[t].row = exec[t].row /\ exec'[t].main = exec[t].main /\ exec'[t].save = exec[t].save
    /\ exec'[t].records = exec[t].records /\ exec'[t].status = exec[t].status
    /\ exec'[t].err = exec[t].err /\ exec'[t].cancelled = exec[t].cancelled

\* The execution moves on.
LEMMA GotoEffect ==
  ASSUME TaskShape, NEW t \in Clients, NEW at, Goto(t, at)
  PROVE  ExecutionOf(t) /\ exec'[t].pc = at /\ SameExecution(t)
<1> DEFINE e == [exec[t] EXCEPT !.pc = at]
<1>1. exec' = [exec EXCEPT ![t] = e]
  BY DEF Goto
<1>2. DOMAIN exec[t] = ExecFields
  BY DEF TaskShape
<1>3. /\ DOMAIN e = ExecFields /\ e.pc = at /\ e.row = exec[t].row /\ e.main = exec[t].main
      /\ e.save = exec[t].save /\ e.records = exec[t].records /\ e.status = exec[t].status
      /\ e.err = exec[t].err /\ e.cancelled = exec[t].cancelled
  BY <1>2 DEF ExecFields
<1> HIDE DEF e
<1>4. ExecutionOf(t) /\ exec'[t] = e
  BY <1>1, <1>3, ExecReplaced
<1> QED BY <1>3, <1>4 DEF SameExecution

\* The record of an idle execution.
LEMMA IdleFields ==
  /\ DOMAIN Idle = ExecFields /\ Idle.pc = "idle" /\ Idle.records = <<>>
  /\ Idle.status = "" /\ Idle.err = "" /\ Idle.cancelled = FALSE
BY DEF Idle, ExecFields

\* Execute returns an error: what the execution has is gone, and so is its
\* hold on a device.
Failing(t, code) ==
    /\ ExecutionOf(t) /\ exec'[t].pc = "auditFailure" /\ exec'[t].err = code
    /\ exec'[t].status = "" /\ exec'[t].records = <<>> /\ exec'[t].cancelled = exec[t].cancelled
    /\ guard' = [d \in DevIds |-> IF guard[d] = t THEN 0 ELSE guard[d]]

\* Fail does that.
LEMMA FailEffect ==
  ASSUME TaskShape, NEW t \in Clients, NEW code, Fail(t, code)
  PROVE  Failing(t, code)
<1> DEFINE e == [Idle EXCEPT !.pc = "auditFailure", !.err = code, !.cancelled = exec[t].cancelled]
<1>1. exec' = [exec EXCEPT ![t] = e]
  BY DEF Fail
<1>2. /\ DOMAIN e = ExecFields /\ e.pc = "auditFailure" /\ e.err = code
      /\ e.cancelled = exec[t].cancelled /\ e.records = <<>> /\ e.status = ""
  BY IdleFields DEF ExecFields
<1> HIDE DEF e
<1>3. ExecutionOf(t) /\ exec'[t] = e
  BY <1>1, <1>2, ExecReplaced
<1> QED BY <1>2, <1>3 DEF Failing, Fail

\* The commands have run: the device is given back.
Leaving(t, status) ==
    /\ ExecutionOf(t) /\ exec'[t].pc = "audit" /\ exec'[t].status = status
    /\ exec'[t].records = <<>> /\ exec'[t].cancelled = exec[t].cancelled
    /\ guard' = [d \in DevIds |-> IF guard[d] = t THEN 0 ELSE guard[d]]

\* Leave does that.
LEMMA LeaveEffect ==
  ASSUME TaskShape, NEW t \in Clients, NEW status, NEW code, Leave(t, status, code)
  PROVE  Leaving(t, status)
<1> DEFINE e == [exec[t] EXCEPT !.pc = "audit", !.records = <<>>, !.status = status, !.err = code]
<1>1. DOMAIN exec[t] = ExecFields /\ DOMAIN exec = Clients
  BY DEF TaskShape
<1>2. exec' = [exec EXCEPT ![t] = e]
  BY <1>1 DEF Leave
<1>3. /\ DOMAIN e = ExecFields /\ e.pc = "audit" /\ e.status = status /\ e.records = <<>>
      /\ e.cancelled = exec[t].cancelled
  BY <1>1 DEF ExecFields
<1> HIDE DEF e
<1>4. ExecutionOf(t) /\ exec'[t] = e
  BY <1>2, <1>3, ExecReplaced
<1> QED BY <1>3, <1>4 DEF Leaving, Leave

\* Claim.
LEMMA ClaimEffect ==
  ASSUME TaskShape, NEW t \in Clients, Claim(t)
  PROVE  /\ ExecutionOf(t) /\ exec'[t].pc = "reload" /\ SameExecution(t)
         /\ DOMAIN tasks' = Clients /\ DOMAIN tasks'[t] = TaskFields
         /\ \A u \in Clients : u # t => tasks'[u] = tasks[u]
         /\ Keeps(t) /\ tasks[t].status = "QUEUED" /\ tasks'[t].status = "RUNNING"
         /\ tasks'[t].cancel = tasks[t].cancel
<1>1. ExecutionOf(t) /\ exec'[t].pc = "reload" /\ SameExecution(t)
  BY GotoEffect DEF Claim
<1> DEFINE task == [tasks[t] EXCEPT !.status = "RUNNING"]
<1>2. DOMAIN tasks[t] = TaskFields /\ DOMAIN tasks = Clients
  BY DEF TaskShape
<1>3. /\ DOMAIN task = TaskFields /\ task.status = "RUNNING"
      /\ task.actor = tasks[t].actor /\ task.key = tasks[t].key /\ task.snap = tasks[t].snap
      /\ task.main = tasks[t].main /\ task.save = tasks[t].save /\ task.cancel = tasks[t].cancel
  BY <1>2, TaskWithStatus
<1>4. tasks' = [tasks EXCEPT ![t] = task] /\ tasks[t].status = "QUEUED"
  BY DEF Claim
<1> HIDE DEF task
<1>5. /\ DOMAIN tasks' = Clients /\ tasks'[t] = task
      /\ \A u \in Clients : u # t => tasks'[u] = tasks[u]
  BY <1>2, <1>4
<1> QED BY <1>1, <1>3, <1>4, <1>5 DEF Keeps

\* Reload.
LEMMA ReloadEffect ==
  ASSUME TaskShape, NEW t \in Clients, Reload(t)
  PROVE  /\ ExecutionOf(t) /\ exec[t].pc = "reload"
         /\ exec'[t].status = exec[t].status /\ exec'[t].records = exec[t].records
         /\ \/ /\ exec'[t].pc = "finalize" /\ app = "stopping"
               /\ exec'[t].cancelled = exec[t].cancelled
            \/ /\ exec'[t].pc = "prepare" /\ exec'[t].cancelled = tasks[t].cancel
<1>1. DOMAIN exec[t] = ExecFields
  BY DEF TaskShape
<1> DEFINE stopped == [exec[t] EXCEPT !.pc = "finalize", !.err = "context"]
           going == [exec[t] EXCEPT !.pc = "prepare", !.cancelled = tasks[t].cancel]
<1>2. CASE app = "stopping"
  <2>1. exec' = [exec EXCEPT ![t] = stopped]
    BY <1>2 DEF Reload
  <2>2. /\ DOMAIN stopped = ExecFields /\ stopped.pc = "finalize" /\ stopped.status = exec[t].status
        /\ stopped.records = exec[t].records /\ stopped.cancelled = exec[t].cancelled
    BY <1>1 DEF ExecFields
  <2> HIDE DEF stopped
  <2>3. ExecutionOf(t) /\ exec'[t] = stopped
    BY <2>1, <2>2, ExecReplaced
  <2> QED BY <1>2, <2>2, <2>3 DEF Reload, Executing
<1>3. CASE app # "stopping"
  <2>1. exec' = [exec EXCEPT ![t] = going]
    BY <1>3 DEF Reload
  <2>2. /\ DOMAIN going = ExecFields /\ going.pc = "prepare" /\ going.status = exec[t].status
        /\ going.records = exec[t].records /\ going.cancelled = tasks[t].cancel
    BY <1>1 DEF ExecFields
  <2> HIDE DEF going
  <2>3. ExecutionOf(t) /\ exec'[t] = going
    BY <2>1, <2>2, ExecReplaced
  <2> QED BY <1>3, <2>2, <2>3 DEF Reload, Executing
<1> QED BY <1>2, <1>3

\* The plan made at the execution is the one that was stored.
LEMMA ExecutePrepareEffect ==
  ASSUME TaskShape, NEW t \in Clients, ExecutePrepare(t)
  PROVE  /\ exec[t].pc = "prepare"
         /\ \/ ContextDone(t) /\ Failing(t, "context")
            \/ ~ContextDone(t) /\ prepare(tasks[t].snap).error # "" /\ Failing(t, prepare(tasks[t].snap).error)
            \/ ~ContextDone(t) /\ Failing(t, "STATE_CONFLICT")
            \/ /\ prepare(tasks[t].snap).error = "" /\ ExecutionOf(t) /\ guard' = guard
               /\ exec'[t].pc = IF tasks[t].snap.dry THEN "audit" ELSE "guard"
               /\ exec'[t].row = prepare(tasks[t].snap).row
               /\ exec'[t].main = tasks[t].main /\ exec'[t].save = tasks[t].save
               /\ exec'[t].status = "SUCCESS" /\ exec'[t].records = <<>>
               /\ ~exec'[t].cancelled
<1> DEFINE prepared == prepare(tasks[t].snap)
           at == IF tasks[t].snap.dry THEN "audit" ELSE "guard"
           e == [Idle EXCEPT !.pc = at, !.row = prepared.row, !.main = prepared.main,
                             !.save = prepared.save, !.status = "SUCCESS"]
<1>1. exec[t].pc = "prepare"
  BY DEF ExecutePrepare, Executing
<1>2. CASE ContextDone(t) /\ Fail(t, "context")
  BY <1>1, <1>2, FailEffect
<1>4. CASE ~ContextDone(t) /\ prepared.error # "" /\ Fail(t, prepared.error)
  <2>1. Failing(t, prepared.error)
    BY <1>4, FailEffect
  <2> QED BY <1>1, <1>4, <2>1
<1>5. CASE ~ContextDone(t) /\ Fail(t, "STATE_CONFLICT")
  BY <1>1, <1>5, FailEffect
<1>3. CASE prepared.error = "" /\ SamePlan(prepared, t) /\ exec' = [exec EXCEPT ![t] = e] /\ guard' = guard
  <2> HIDE DEF prepared, at
  <2>1. /\ DOMAIN e = ExecFields /\ e.pc = at /\ e.row = prepared.row /\ e.main = prepared.main
        /\ e.save = prepared.save /\ e.status = "SUCCESS" /\ e.records = <<>> /\ e.cancelled = FALSE
    BY IdleFields DEF ExecFields
  <2> HIDE DEF e
  <2>2. ExecutionOf(t) /\ exec'[t] = e
    BY <1>3, <2>1, ExecReplaced
  <2>3. prepared.main = tasks[t].main /\ prepared.save = tasks[t].save
    BY <1>3 DEF SamePlan
  <2> QED BY <1>1, <1>3, <2>1, <2>2, <2>3 DEF prepared, at
<1> QED BY <1>2, <1>3, <1>4, <1>5 DEF ExecutePrepare

\* The device is this task's alone.
LEMMA AcquireEffect ==
  ASSUME TaskShape, NEW t \in Clients, Acquire(t)
  PROVE  /\ exec[t].pc = "guard"
         /\ UNCHANGED faults \/ Fault
         /\ \/ ContextDone(t) /\ Failing(t, "context")
            \/ Failing(t, "DEVICE_UNREACHABLE")
            \/ /\ ExecutionOf(t) /\ exec'[t].pc = "main" /\ SameExecution(t)
               /\ guard[tasks[t].snap.device] = 0
               /\ guard' = [guard EXCEPT ![tasks[t].snap.device] = t]
<1>1. exec[t].pc = "guard" /\ (UNCHANGED faults \/ Fault)
  BY DEF Acquire, Executing
<1>2. CASE ContextDone(t) /\ Fail(t, "context")
  BY <1>1, <1>2, FailEffect
<1>3. CASE /\ guard[tasks[t].snap.device] = 0 /\ Goto(t, "main")
           /\ guard' = [guard EXCEPT ![tasks[t].snap.device] = t]
  BY <1>1, <1>3, GotoEffect
<1>4. CASE Fail(t, "DEVICE_UNREACHABLE")
  BY <1>1, <1>4, FailEffect
<1> QED BY <1>2, <1>3, <1>4 DEF Acquire

\* A change whose audit could not be completed is only partly a success.
UnauditedStatus(t) ==
    IF tasks[t].snap.class # "QUERY" /\ exec[t].status = "SUCCESS" THEN "PARTIAL_SUCCESS"
    ELSE exec[t].status

\* The audit of a result.
LEMMA AuditResultEffect ==
  ASSUME TaskShape, NEW t \in Clients, AuditResult(t)
  PROVE  /\ exec[t].pc = "audit" /\ ExecutionOf(t) /\ exec'[t].pc = "finalize"
         /\ exec'[t].cancelled = exec[t].cancelled
         /\ \/ /\ ContextDone(t) \/ audits[t] = "none"
               /\ exec'[t].status = UnauditedStatus(t) /\ UNCHANGED <<audits, auditWrites, faults>>
            \/ /\ exec'[t].status = exec[t].status /\ audits[t] # "none"
               /\ CompleteAudit(t, exec[t].status) /\ UNCHANGED faults
            \/ /\ exec'[t].status = UnauditedStatus(t) /\ Fault
               /\ CompleteAudit(t, exec[t].status) \/ UNCHANGED <<audits, auditWrites>>
<1> DEFINE partly == [exec[t] EXCEPT !.pc = "finalize", !.status = "PARTIAL_SUCCESS",
                                     !.err = "AUDIT_UNAVAILABLE"]
           as == [exec[t] EXCEPT !.pc = "finalize"]
           change == tasks[t].snap.class # "QUERY" /\ exec[t].status = "SUCCESS"
           unaudited == IF change
                        THEN [exec EXCEPT ![t].pc = "finalize", ![t].status = "PARTIAL_SUCCESS",
                                          ![t].err = "AUDIT_UNAVAILABLE"]
                        ELSE [exec EXCEPT ![t].pc = "finalize"]
<1>1. DOMAIN exec[t] = ExecFields /\ DOMAIN exec = Clients
  BY DEF TaskShape
<1>2. unaudited = [exec EXCEPT ![t] = IF change THEN partly ELSE as]
  BY <1>1
<1>3. /\ DOMAIN partly = ExecFields /\ partly.pc = "finalize" /\ partly.status = "PARTIAL_SUCCESS"
      /\ partly.cancelled = exec[t].cancelled
  BY <1>1 DEF ExecFields
<1>4. /\ DOMAIN as = ExecFields /\ as.pc = "finalize" /\ as.status = exec[t].status
      /\ as.cancelled = exec[t].cancelled
  BY <1>1 DEF ExecFields
<1>5. exec[t].pc = "audit"
  BY DEF AuditResult, Executing
<1>6. ASSUME exec' = unaudited
      PROVE  /\ ExecutionOf(t) /\ exec'[t].pc = "finalize" /\ exec'[t].status = UnauditedStatus(t)
             /\ exec'[t].cancelled = exec[t].cancelled
  <2> DEFINE e == IF change THEN partly ELSE as
  <2>1. exec' = [exec EXCEPT ![t] = e]
    BY <1>2, <1>6
  <2> HIDE DEF partly, as
  <2>2. /\ DOMAIN e = ExecFields /\ e.pc = "finalize" /\ e.status = UnauditedStatus(t)
        /\ e.cancelled = exec[t].cancelled
    BY <1>3, <1>4 DEF UnauditedStatus
  <2> HIDE DEF e
  <2>3. ExecutionOf(t) /\ exec'[t] = e
    BY <2>1, <2>2, ExecReplaced
  <2> QED BY <2>2, <2>3
<1>7. CASE /\ ContextDone(t) \/ audits[t] = "none"
           /\ exec' = unaudited /\ UNCHANGED <<audits, auditWrites, faults>>
  BY <1>5, <1>6, <1>7
<1>8. CASE /\ audits[t] # "none" /\ Goto(t, "finalize") /\ CompleteAudit(t, exec[t].status)
           /\ UNCHANGED faults
  <2>1. ExecutionOf(t) /\ exec'[t].pc = "finalize" /\ SameExecution(t)
    BY <1>8, GotoEffect
  <2> QED BY <1>5, <1>8, <2>1 DEF SameExecution
<1>9. CASE /\ exec' = unaudited /\ Fault
           /\ CompleteAudit(t, exec[t].status) \/ UNCHANGED <<audits, auditWrites>>
  BY <1>5, <1>6, <1>9
<1> QED BY <1>7, <1>8, <1>9 DEF AuditResult

\* The audit of an error.
LEMMA AuditFailureEffect ==
  ASSUME TaskShape, NEW t \in Clients, AuditFailure(t)
  PROVE  /\ exec[t].pc = "auditFailure"
         /\ ExecutionOf(t) /\ exec'[t].pc = "finalize" /\ SameExecution(t)
         /\ \/ CompleteAudit(t, auditFailureStatus(t)) /\ UNCHANGED faults
            \/ UNCHANGED <<audits, auditWrites>> /\ Fault
<1>1. ExecutionOf(t) /\ exec'[t].pc = "finalize" /\ SameExecution(t)
  BY GotoEffect DEF AuditFailure
<1> QED BY <1>1 DEF AuditFailure, Executing

\* The status that Scheduler.execute writes.
FinalStatus(t) ==
    IF exec[t].status # "" THEN exec[t].status
    ELSE IF exec[t].cancelled THEN "CANCELLED"
    ELSE IF app = "stopping" THEN "INTERRUPTED" ELSE "FAILED"

\* The final write.
LEMMA FinalizeEffect ==
  ASSUME TaskShape, NEW t \in Clients, Finalize(t)
  PROVE  /\ exec[t].pc = "finalize" /\ ExecutionOf(t) /\ exec'[t] = Idle
         /\ DOMAIN tasks' = Clients /\ DOMAIN tasks'[t] = TaskFields
         /\ \A u \in Clients : u # t => tasks'[u] = tasks[u]
         /\ tasks'[t].status = FinalStatus(t) /\ tasks'[t].cancel = tasks[t].cancel
         /\ tasks'[t].actor = tasks[t].actor /\ tasks'[t].key = tasks[t].key
         /\ tasks'[t].snap = tasks[t].snap
         /\ tasks'[t].main = tasks[t].main /\ tasks'[t].save = tasks[t].save
<1>1. exec' = [exec EXCEPT ![t] = Idle] /\ exec[t].pc = "finalize"
  BY DEF Finalize, Executing
<1>2. ExecutionOf(t) /\ exec'[t] = Idle
  BY <1>1, IdleFields, ExecReplaced
<1> DEFINE err == IF FinalStatus(t) \in {"CANCELLED", "INTERRUPTED"} THEN "" ELSE exec[t].err
           task == [tasks[t] EXCEPT !.status = FinalStatus(t), !.err = err]
<1>3. DOMAIN tasks[t] = TaskFields /\ DOMAIN tasks = Clients
  BY DEF TaskShape
<1>4. tasks' = [tasks EXCEPT ![t].status = FinalStatus(t), ![t].err = err]
  BY DEF Finalize, FinalStatus
<1> HIDE DEF err
<1>5. tasks' = [tasks EXCEPT ![t] = task]
  BY <1>3, <1>4
<1>6. /\ DOMAIN task = TaskFields /\ task.status = FinalStatus(t)
      /\ task.actor = tasks[t].actor /\ task.key = tasks[t].key /\ task.snap = tasks[t].snap
      /\ task.main = tasks[t].main /\ task.save = tasks[t].save /\ task.cancel = tasks[t].cancel
  BY <1>3 DEF TaskFields
<1> HIDE DEF task
<1>7. /\ DOMAIN tasks' = Clients /\ tasks'[t] = task
      /\ \A u \in Clients : u # t => tasks'[u] = tasks[u]
  BY <1>3, <1>5
<1> QED BY <1>1, <1>2, <1>6, <1>7

\* A sequence with one more element.
LEMMA AppendSequence ==
  ASSUME NEW s, IsSequence(s), NEW x
  PROVE  /\ IsSequence(Append(s, x)) /\ Len(s) \in Nat /\ Len(Append(s, x)) = Len(s) + 1
         /\ Append(s, x)[Len(s) + 1] = x
         /\ \A i \in 1..Len(s) : Append(s, x)[i] = s[i]
<1>1. PICK S : s \in Seq(S)
  BY DEF IsSequence
<1>2. s \in Seq(S \cup {x}) /\ x \in S \cup {x}
  BY <1>1
<1>3. Append(s, x) \in Seq(S \cup {x})
  BY <1>2
<1> QED BY <1>2, <1>3 DEF IsSequence

\* The plan a command is sent for, the command and its record.
SendPlan(t) == IF exec[t].pc = "save" THEN exec[t].save ELSE exec[t].main
NextCommand(t) == SendPlan(t).commands[Len(exec[t].records) + 1]
Recorded(t, error, size) ==
    Append(exec[t].records, [text |-> NextCommand(t), error |-> error, size |-> size])

\* What follows a command.
After(t, error, size) ==
    IF error = "" /\ Len(Recorded(t, error, size)) < Len(SendPlan(t).commands)
    THEN exec' = [exec EXCEPT ![t].records = Recorded(t, error, size)] /\ UNCHANGED guard
    ELSE IF exec[t].pc = "save" THEN AfterSave(t, Result(SendPlan(t), Recorded(t, error, size)))
    ELSE AfterMain(t, Result(SendPlan(t), Recorded(t, error, size)))

\* Send in these words.
LEMMA SendUnfolds ==
  ASSUME NEW t, Send(t)
  PROVE  /\ exec[t].pc \in {"main", "save"} /\ UNCHANGED <<tasks, audits, auditWrites>>
         /\ \/ ContextDone(t) /\ Fail(t, "context") /\ UNCHANGED <<sent, faults>>
            \/ /\ ~ContextDone(t) /\ sent' = [sent EXCEPT ![t] = Append(@, NextCommand(t))]
               /\ UNCHANGED faults \/ Fault
               /\ \E error, size : After(t, error, size)
BY DEF Send, SendPlan, NextCommand, Recorded, After

\* The result of a plan.  A success means that no command failed.
LEMMA ResultStatus ==
  ASSUME NEW plan, NEW records
  PROVE  LET result == Result(plan, records)
         IN /\ result.status \in {"SUCCESS", "FAILED", "UNPARSABLE"}
            /\ result.status = "UNPARSABLE" => result.error = "COMMAND_OUTPUT_UNPARSABLE"
            /\ result.status = "SUCCESS" => \A i \in DOMAIN records : records[i].error = ""
<1> DEFINE failed == {i \in DOMAIN records : records[i].error # ""}
           good == [status |-> "SUCCESS", error |-> ""]
           bad == [status |-> "FAILED", error |-> records[Min(failed)].error]
           large == [status |-> "FAILED", error |-> "RESULT_TOO_LARGE"]
           odd == [status |-> "UNPARSABLE", error |-> "COMMAND_OUTPUT_UNPARSABLE"]
<1>1. \/ Result(plan, records) = large \/ Result(plan, records) = odd
      \/ Result(plan, records) = bad
      \/ Result(plan, records) = good /\ failed = {}
  <2> DEFINE parsed == ParseResult(plan, records)
  <2>1. parsed = odd \/ parsed = bad \/ (parsed = good /\ failed = {})
    <3> DEFINE result == IF failed = {} THEN good ELSE bad
    <3>1. parsed = IF ValidTranscript(records, plan) /\ ValidResult(result) THEN result ELSE odd
      BY Zenon DEF ParseResult
    <3> HIDE DEF parsed, odd, bad, good, failed
    <3> QED BY <3>1
  <2> HIDE DEF parsed, odd, bad, good, failed, large
  <2>2. Result(plan, records) = large \/ Result(plan, records) = parsed
    BY DEF Result, large, parsed
  <2> QED BY <2>1, <2>2
<1>2. /\ large.status = "FAILED" /\ odd.status = "UNPARSABLE" /\ odd.error = "COMMAND_OUTPUT_UNPARSABLE"
      /\ good.status = "SUCCESS"
  OBVIOUS
<1>3. bad.status = "FAILED"
  <2> DEFINE x == records[Min(failed)].error
  <2> HIDE DEF x
  <2>1. [status |-> "FAILED", error |-> x].status = "FAILED"
    OBVIOUS
  <2> QED BY <2>1 DEF x
<1>4. failed = {} => \A i \in DOMAIN records : records[i].error = ""
  OBVIOUS
<1> HIDE DEF failed, good, bad, large, odd
<1> QED BY <1>1, <1>2, <1>3, <1>4

\* The last of m.
LEMMA LastOne ==
  ASSUME NEW n \in Nat, NEW m \in Nat, n < m, ~(n + 1 < m)
  PROVE  n + 1 = m
OBVIOUS

\* Where a plan stands before a command.
SendReady(t) ==
    /\ IsSequence(exec[t].records) /\ Len(SendPlan(t).commands) \in Nat
    /\ Len(exec[t].records) < Len(SendPlan(t).commands)

\* What a command leads to: the next one, the saving of the configuration
\* after all of the main plan's, the end, or an error.
SendLeads(t) ==
    \/ /\ ExecutionOf(t) /\ guard' = guard /\ exec'[t].pc = exec[t].pc
       /\ exec'[t].row = exec[t].row /\ exec'[t].main = exec[t].main /\ exec'[t].save = exec[t].save
       /\ exec'[t].status = exec[t].status /\ exec'[t].cancelled = exec[t].cancelled
       /\ IsSequence(exec'[t].records) /\ Len(exec'[t].records) = Len(exec[t].records) + 1
       /\ Len(exec'[t].records) < Len(SendPlan(t).commands)
    \/ /\ ExecutionOf(t) /\ guard' = guard /\ exec[t].pc = "main" /\ exec'[t].pc = "save"
       /\ exec'[t].row = exec[t].row /\ exec'[t].main = exec[t].main /\ exec'[t].save = exec[t].save
       /\ exec'[t].status = exec[t].status /\ exec'[t].cancelled = exec[t].cancelled
       /\ exec[t].save # NoPlan /\ exec'[t].records = <<>>
       /\ Len(exec[t].records) + 1 = Len(SendPlan(t).commands)
    \/ \E status \in Ended : Leaving(t, status)
    \/ Failing(t, "COMMAND_OUTPUT_UNPARSABLE")

\* A command has been sent.
LEMMA AfterEffect ==
  ASSUME TaskShape, NEW t \in Clients, SendReady(t), exec[t].pc \in {"main", "save"},
         NEW error, NEW size, After(t, error, size)
  PROVE  SendLeads(t)
<1> DEFINE records == Recorded(t, error, size)
           result == Result(SendPlan(t), records)
<1>1. DOMAIN exec[t] = ExecFields /\ DOMAIN exec = Clients
  BY DEF TaskShape
<1>2. /\ IsSequence(records) /\ Len(exec[t].records) \in Nat
      /\ Len(records) = Len(exec[t].records) + 1 /\ records[Len(records)].error = error
      /\ Len(records) \in DOMAIN records
  <2> DEFINE x == [text |-> NextCommand(t), error |-> error, size |-> size]
  <2>1. x.error = error
    OBVIOUS
  <2> HIDE DEF x
  <2>2. records = Append(exec[t].records, x)
    BY DEF Recorded, x
  <2> HIDE DEF records
  <2>3. /\ IsSequence(records) /\ Len(exec[t].records) \in Nat
        /\ Len(records) = Len(exec[t].records) + 1 /\ records[Len(records)] = x
    BY <2>2, AppendSequence DEF SendReady
  <2>4. DOMAIN records = 1..Len(records)
    BY <2>3, SequenceDomain
  <2> QED BY <2>1, <2>3, <2>4
<1> HIDE DEF records
<1>3. /\ result.status \in {"SUCCESS", "FAILED", "UNPARSABLE"}
      /\ result.status = "UNPARSABLE" => result.error = "COMMAND_OUTPUT_UNPARSABLE"
      /\ result.status = "SUCCESS" => \A i \in DOMAIN records : records[i].error = ""
  BY ResultStatus
<1>4. {"SUCCESS", "PARTIAL_SUCCESS", "FAILED"} = Ended
  BY DEF Ended
<1> HIDE DEF result
<1>5. CASE /\ Len(records) < Len(SendPlan(t).commands)
           /\ exec' = [exec EXCEPT ![t].records = records] /\ UNCHANGED guard
  <2> DEFINE e == [exec[t] EXCEPT !.records = records]
  <2>1. exec' = [exec EXCEPT ![t] = e]
    BY <1>5
  <2>2. /\ DOMAIN e = ExecFields /\ e.pc = exec[t].pc /\ e.row = exec[t].row /\ e.main = exec[t].main
        /\ e.save = exec[t].save /\ e.records = records /\ e.status = exec[t].status
        /\ e.cancelled = exec[t].cancelled
    BY <1>1 DEF ExecFields
  <2> HIDE DEF e
  <2>3. ExecutionOf(t) /\ exec'[t] = e
    BY <2>1, <2>2, ExecReplaced
  <2> QED BY <1>2, <1>5, <2>2, <2>3 DEF SendLeads
<1>6. ASSUME NEW status \in Ended, NEW code, Leave(t, status, code) PROVE SendLeads(t)
  BY <1>6, LeaveEffect DEF SendLeads
<1>7. CASE exec[t].pc = "save" /\ AfterSave(t, result)
  BY <1>4, <1>6, <1>7 DEF AfterSave
<1>8. CASE /\ exec[t].pc = "main" /\ AfterMain(t, result)
           /\ ~(error = "" /\ Len(records) < Len(SendPlan(t).commands))
  <2>1. CASE result.status = "UNPARSABLE" /\ Fail(t, result.error)
    BY <1>3, <2>1, FailEffect DEF SendLeads
  <2>2. CASE result.status # "UNPARSABLE" /\ Leave(t, result.status, result.error)
    BY <1>3, <1>4, <1>6, <2>2
  <2>3. CASE /\ exec[t].save # NoPlan /\ result.status = "SUCCESS"
             /\ exec' = [exec EXCEPT ![t].pc = "save", ![t].records = <<>>] /\ UNCHANGED guard
    <3> DEFINE e == [exec[t] EXCEPT !.pc = "save", !.records = <<>>]
    <3>1. exec' = [exec EXCEPT ![t] = e]
      BY <1>1, <2>3
    <3>2. /\ DOMAIN e = ExecFields /\ e.pc = "save" /\ e.row = exec[t].row /\ e.main = exec[t].main
          /\ e.save = exec[t].save /\ e.records = <<>> /\ e.status = exec[t].status
          /\ e.cancelled = exec[t].cancelled
      BY <1>1 DEF ExecFields
    <3> HIDE DEF e
    <3>3. ExecutionOf(t) /\ exec'[t] = e
      BY <3>1, <3>2, ExecReplaced
    <3>4. error = ""
      BY <1>2, <1>3, <2>3
    <3>5. Len(exec[t].records) + 1 = Len(SendPlan(t).commands)
      <4>1. Len(exec[t].records) \in Nat /\ Len(records) = Len(exec[t].records) + 1
        BY <1>2
      <4>2. /\ Len(SendPlan(t).commands) \in Nat
            /\ Len(exec[t].records) < Len(SendPlan(t).commands)
        BY DEF SendReady
      <4>3. ~(Len(exec[t].records) + 1 < Len(SendPlan(t).commands))
        BY <1>8, <3>4, <4>1
      <4> QED BY <4>1, <4>2, <4>3, LastOne
    <3> QED BY <1>8, <2>3, <3>2, <3>3, <3>5 DEF SendLeads
  <2> QED BY <1>8, <2>1, <2>2, <2>3 DEF AfterMain
<1>9. \/ /\ Len(records) < Len(SendPlan(t).commands)
         /\ exec' = [exec EXCEPT ![t].records = records] /\ UNCHANGED guard
      \/ exec[t].pc = "save" /\ AfterSave(t, result)
      \/ /\ exec[t].pc = "main" /\ AfterMain(t, result)
         /\ ~(error = "" /\ Len(records) < Len(SendPlan(t).commands))
  BY Zenon DEF After, records, result
<1> QED BY <1>5, <1>7, <1>8, <1>9

\* A plan that is being executed has a command left.
LEMMA SendIsReady ==
  ASSUME TaskInv, ExecInv, NEW t \in Clients, exec[t].pc \in {"main", "save"}
  PROVE  SendReady(t)
<1>1. tasks[t].status = "RUNNING" /\ TaskOK(t)
  BY DEF TaskInv
<1>2. Planned(tasks[t].main, tasks[t].save, tasks[t].snap)
  BY <1>1 DEF TaskOK
<1>3. exec[t].main = tasks[t].main /\ exec[t].save = tasks[t].save
  BY DEF ExecInv, ExecOK
<1>4. /\ IsSequence(exec[t].records)
      /\ exec[t].pc = "main" => /\ Len(sent[t]) = Len(exec[t].records)
                                /\ Len(sent[t]) < Len(exec[t].main.commands)
      /\ exec[t].pc = "save" => /\ exec[t].save # NoPlan
                                /\ Len(exec[t].records) < Len(exec[t].save.commands)
  BY DEF ExecInv, SentOK
<1>5. IsSequence(SendPlan(t).commands)
  BY <1>2, <1>3, <1>4 DEF Planned, SendPlan
<1>6. Len(SendPlan(t).commands) \in Nat
  BY <1>5, SequenceDomain
<1>7. Len(exec[t].records) < Len(SendPlan(t).commands)
  BY <1>4 DEF SendPlan
<1> QED BY <1>4, <1>6, <1>7 DEF SendReady

\* One command.
LEMMA SendEffect ==
  ASSUME TaskInv, ExecInv, NEW t \in Clients, Send(t)
  PROVE  /\ exec[t].pc \in {"main", "save"} /\ UNCHANGED <<tasks, audits, auditWrites>>
         /\ \/ ContextDone(t) /\ Failing(t, "context") /\ UNCHANGED <<sent, faults>>
            \/ /\ ~ContextDone(t) /\ sent' = [sent EXCEPT ![t] = Append(@, NextCommand(t))]
               /\ UNCHANGED faults \/ Fault
               /\ SendLeads(t)
<1>1. TaskShape
  BY DEF TaskInv
<1>2. exec[t].pc \in {"main", "save"} /\ UNCHANGED <<tasks, audits, auditWrites>>
  BY SendUnfolds
<1>3. CASE ContextDone(t) /\ Fail(t, "context") /\ UNCHANGED <<sent, faults>>
  BY <1>1, <1>2, <1>3, FailEffect
<1>4. CASE /\ ~ContextDone(t) /\ sent' = [sent EXCEPT ![t] = Append(@, NextCommand(t))]
           /\ UNCHANGED faults \/ Fault
           /\ \E error, size : After(t, error, size)
  <2>1. PICK error, size : After(t, error, size)
    BY <1>4
  <2>2. SendLeads(t)
    BY <1>1, <1>2, <2>1, SendIsReady, AfterEffect
  <2> QED BY <1>2, <1>4, <2>2
<1> QED BY <1>3, <1>4, SendUnfolds

-----------------------------------------------------------------------------
(* Tasks and answers: the executor and the process.                        *)

\* A step of the executor that touches one task.
LEMMA ExecutionKeepsTasks ==
  ASSUME TaskInv, NEW t \in Clients, ExecutionOf(t), UNCHANGED <<req, clientVars, app, recoverable>>,
         app \in {"up", "stopping"}, DOMAIN tasks' = Clients, DOMAIN tasks'[t] = TaskFields,
         \A u \in Clients : u # t => tasks'[u] = tasks[u],
         Keeps(t), tasks'[t].status \in StatusSet,
         exec'[t].pc # "idle" => tasks'[t].status = "RUNNING"
  PROVE  TaskInv'
<1>1. \A u \in Clients : Keeps(u)
  BY DEF Keeps
<1>2. pc' = pc /\ row' = row /\ answer' = answer
  BY DEF clientVars
<1>3. TaskShape'
  BY <1>2 DEF TaskShape, TaskInv, ExecutionOf
<1>4. \A u \in Clients : SubmissionOK(u)'
  BY <1>1, <1>2, SubmissionKept DEF TaskInv, Keeps
<1>5. \A u \in Clients : TaskOK(u)'
  BY <1>1, TaskKept DEF TaskInv
<1>6. \A u \in Clients : AnswerOK(u)'
  BY <1>1, <1>2, AnswerKept DEF TaskInv
<1>7. UniqueKeys'
  BY <1>1, KeysKept DEF TaskInv
<1>8. \A u \in Clients : /\ exec'[u].pc # "idle" => tasks'[u].status = "RUNNING"
                         /\ tasks'[u].status \in StatusSet
  BY DEF TaskInv, ExecutionOf, StatusSet
<1>9. Process'
  <2>1. \A u \in Clients : tasks[u].status # "none" => tasks'[u].status # "none"
    BY <1>1 DEF Keeps
  <2> QED BY <2>1, ProcessKept DEF TaskInv
<1> QED BY <1>3, <1>4, <1>5, <1>6, <1>7, <1>8, <1>9 DEF TaskInv, StatusSet

\* The steps of an execution between its claim and its final write.
Working(t) ==
    Reload(t) \/ ExecutePrepare(t) \/ Acquire(t) \/ Send(t) \/ AuditResult(t) \/ AuditFailure(t)

\* They touch no row of the tasks.
LEMMA WorkingEffect ==
  ASSUME TaskInv, ExecInv, NEW t \in Clients, Working(t)
  PROVE  ExecutionOf(t) /\ tasks' = tasks /\ exec[t].pc # "idle"
<1>1. TaskShape
  BY DEF TaskInv
<1>2. ASSUME Reload(t) PROVE ExecutionOf(t) /\ tasks' = tasks /\ exec[t].pc # "idle"
  <2>1. ExecutionOf(t) /\ exec[t].pc = "reload"
    BY <1>1, <1>2, ReloadEffect
  <2> QED BY <1>2, <2>1 DEF Reload
<1>3. ASSUME ExecutePrepare(t) PROVE ExecutionOf(t) /\ tasks' = tasks /\ exec[t].pc # "idle"
  <2>1. ExecutionOf(t) /\ exec[t].pc = "prepare"
    BY <1>1, <1>3, ExecutePrepareEffect DEF Failing
  <2> QED BY <1>3, <2>1 DEF ExecutePrepare
<1>4. ASSUME Acquire(t) PROVE ExecutionOf(t) /\ tasks' = tasks /\ exec[t].pc # "idle"
  <2>1. ExecutionOf(t) /\ exec[t].pc = "guard"
    BY <1>1, <1>4, AcquireEffect DEF Failing
  <2> QED BY <1>4, <2>1 DEF Acquire
<1>5. ASSUME Send(t) PROVE ExecutionOf(t) /\ tasks' = tasks /\ exec[t].pc # "idle"
  <2>1. exec[t].pc \in {"main", "save"} /\ tasks' = tasks
    BY <1>5, SendUnfolds
  <2>2. ExecutionOf(t)
    BY <1>5, SendEffect DEF Failing, Leaving, SendLeads
  <2> QED BY <2>1, <2>2
<1>6. ASSUME AuditResult(t) PROVE ExecutionOf(t) /\ tasks' = tasks /\ exec[t].pc # "idle"
  <2>1. ExecutionOf(t) /\ exec[t].pc = "audit"
    BY <1>1, <1>6, AuditResultEffect
  <2> QED BY <1>6, <2>1 DEF AuditResult
<1>7. ASSUME AuditFailure(t) PROVE ExecutionOf(t) /\ tasks' = tasks /\ exec[t].pc # "idle"
  <2>1. ExecutionOf(t) /\ exec[t].pc = "auditFailure"
    BY <1>1, <1>7, AuditFailureEffect
  <2> QED BY <1>7, <2>1 DEF AuditFailure
<1> QED BY <1>2, <1>3, <1>4, <1>5, <1>6, <1>7 DEF Working

\* A status that Scheduler.execute may write.
LEMMA FinalStatusSet ==
  ASSUME NEW t, exec[t].status \in Ended \cup {""}
  PROVE  FinalStatus(t) \in Terminal
BY DEF FinalStatus, Ended, Terminal

\* Every step of the executor.
LEMMA ExecuteStepKeepsTasks ==
  ASSUME TaskInv, ExecInv, NEW t \in Clients, ExecuteStep(t), UNCHANGED <<req, clientVars, app, recoverable>>
  PROVE  TaskInv'
<1>1. TaskShape /\ tasks[t].status \in StatusSet
  BY DEF TaskInv, StatusSet
<1>2. ASSUME exec[t].pc # "idle" PROVE app \in {"up", "stopping"} /\ tasks[t].status = "RUNNING"
  BY <1>2 DEF TaskInv, Process
<1>3. CASE Claim(t)
  <2>1. /\ ExecutionOf(t) /\ DOMAIN tasks' = Clients /\ DOMAIN tasks'[t] = TaskFields
        /\ \A u \in Clients : u # t => tasks'[u] = tasks[u]
        /\ Keeps(t) /\ tasks[t].status = "QUEUED" /\ tasks'[t].status = "RUNNING"
    BY <1>1, <1>3, ClaimEffect
  <2>2. app \in {"up", "stopping"}
    BY <1>3 DEF Claim
  <2>3. "RUNNING" \in StatusSet
    BY DEF StatusSet
  <2> QED BY <2>1, <2>2, <2>3, ExecutionKeepsTasks
<1>4. CASE Working(t)
  <2>1. ExecutionOf(t) /\ tasks' = tasks /\ exec[t].pc # "idle"
    BY <1>4, WorkingEffect
  <2>2. DOMAIN tasks = Clients /\ DOMAIN tasks[t] = TaskFields
    BY <1>1 DEF TaskShape
  <2>3. Keeps(t)
    BY <2>1 DEF Keeps
  <2> QED BY <1>1, <1>2, <2>1, <2>2, <2>3, ExecutionKeepsTasks
<1>5. CASE Finalize(t)
  <2>1. /\ exec[t].pc = "finalize" /\ ExecutionOf(t) /\ exec'[t] = Idle
        /\ DOMAIN tasks' = Clients /\ DOMAIN tasks'[t] = TaskFields
        /\ \A u \in Clients : u # t => tasks'[u] = tasks[u]
        /\ tasks'[t].status = FinalStatus(t)
        /\ tasks'[t].actor = tasks[t].actor /\ tasks'[t].key = tasks[t].key
        /\ tasks'[t].snap = tasks[t].snap
        /\ tasks'[t].main = tasks[t].main /\ tasks'[t].save = tasks[t].save
    BY <1>1, <1>5, FinalizeEffect
  <2>2. FinalStatus(t) \in Terminal
    BY <2>1, FinalStatusSet DEF ExecInv, ExecOK
  <2>3. FinalStatus(t) \in StatusSet /\ FinalStatus(t) # "none"
    BY <2>2 DEF StatusSet, Terminal
  <2>4. app \in {"up", "stopping"} /\ tasks[t].status = "RUNNING"
    BY <1>2, <2>1
  <2>5. Keeps(t)
    BY <2>1, <2>3, <2>4 DEF Keeps
  <2>6. exec'[t].pc = "idle"
    BY <2>1, IdleFields
  <2> QED BY <2>1, <2>3, <2>4, <2>5, <2>6, ExecutionKeepsTasks
<1> QED BY <1>3, <1>4, <1>5 DEF ExecuteStep, Working

\* The process is gone.
LEMMA VanishKeepsTasks ==
  ASSUME TaskInv, Vanish
  PROVE  TaskInv'
<1>1. /\ app' = "down" /\ recoverable' = {}
      /\ req' = req /\ row' = row /\ answer' = answer /\ tasks' = tasks
      /\ exec' = [t \in Clients |-> Idle]
      /\ \A c \in Clients : pc'[c] \in {"start", "done", "lost"}
      /\ \A c \in Clients : pc'[c] \notin {"done", "lost"} => pc'[c] = pc[c]
  BY DEF Vanish, InFlight
<1>2. \A t \in Clients : Keeps(t) /\ DOMAIN exec'[t] = ExecFields /\ exec'[t].pc = "idle"
  BY <1>1, IdleFields DEF Keeps
<1>3. TaskShape'
  BY <1>1, <1>2 DEF TaskInv, TaskShape
<1>4. \A c \in Clients : SubmissionOK(c)'
  <2> SUFFICES ASSUME NEW c \in Clients PROVE SubmissionOK(c)'
    OBVIOUS
  <2>1. CASE pc'[c] \in {"done", "lost"}
    BY <2>1, DoneKept
  <2>2. CASE pc'[c] = pc[c]
    BY <1>1, <2>2, SubmissionKept DEF TaskInv
  <2> QED BY <1>1, <2>1, <2>2
<1>5. \A c \in Clients : TaskOK(c)' /\ AnswerOK(c)'
  BY <1>1, <1>2, TaskKept, AnswerKept DEF TaskInv
<1>6. UniqueKeys'
  BY <1>2, KeysKept DEF TaskInv
<1>7. Process'
  BY <1>1, <1>2 DEF Process
<1> QED BY <1>1, <1>2, <1>3, <1>4, <1>5, <1>6, <1>7 DEF TaskInv

\* A step of the process that leaves the clients and the executions alone.
LEMMA ProcessKeepsTasks ==
  ASSUME TaskInv, UNCHANGED <<req, clientVars, exec>>, Process', DOMAIN tasks' = Clients,
         \A t \in Clients : /\ Keeps(t) /\ DOMAIN tasks'[t] = TaskFields
                            /\ tasks'[t].status \in StatusSet
                            /\ exec[t].pc # "idle" => tasks'[t].status = "RUNNING"
  PROVE  TaskInv'
<1>1. pc' = pc /\ row' = row /\ answer' = answer
  BY DEF clientVars
<1>2. \A c \in Clients : SubmissionOK(c)'
  BY <1>1, SubmissionKept DEF TaskInv, Keeps
<1>3. \A c \in Clients : TaskOK(c)' /\ AnswerOK(c)'
  BY <1>1, TaskKept, AnswerKept DEF TaskInv
<1>4. UniqueKeys'
  BY KeysKept DEF TaskInv
<1>5. TaskShape'
  BY <1>1 DEF TaskInv, TaskShape
<1> QED BY <1>2, <1>3, <1>4, <1>5 DEF TaskInv, StatusSet

\* The application's context is cancelled, it starts again, or nothing happens.
LEMMA NoTaskChanges ==
  ASSUME TaskInv, UNCHANGED <<req, clientVars, tasks, exec>>, Process'
  PROVE  TaskInv'
<1>1. \A t \in Clients : /\ Keeps(t) /\ DOMAIN tasks'[t] = TaskFields
                         /\ tasks'[t].status \in StatusSet
                         /\ exec[t].pc # "idle" => tasks'[t].status = "RUNNING"
  BY DEF Keeps, TaskInv, TaskShape, StatusSet
<1>2. DOMAIN tasks' = Clients
  BY DEF TaskInv, TaskShape
<1> QED BY <1>1, <1>2, ProcessKeepsTasks

\* What InterruptRunning does to a row.
LEMMA InterruptedFields ==
  ASSUME NEW task, DOMAIN task = TaskFields
  PROVE  LET u == Interrupted(task)
         IN /\ DOMAIN u = TaskFields
            /\ u.actor = task.actor /\ u.key = task.key /\ u.snap = task.snap
            /\ u.main = task.main /\ u.save = task.save /\ u.cancel = task.cancel
            /\ u.status = IF task.status = "RUNNING" THEN "INTERRUPTED" ELSE task.status
BY DEF Interrupted, TaskFields

\* What RecoverList does to the task rows.
LEMMA RecoverListEffect ==
  ASSUME TaskInv, RecoverList
  PROVE  /\ DOMAIN tasks' = Clients
         /\ \A t \in Clients :
              /\ Keeps(t) /\ DOMAIN tasks'[t] = TaskFields /\ tasks'[t].cancel = tasks[t].cancel
              /\ tasks'[t].status = IF tasks[t].status = "RUNNING" THEN "INTERRUPTED"
                                    ELSE tasks[t].status
<1>1. tasks' = [t \in Clients |-> Interrupted(tasks[t])]
  BY DEF RecoverList
<1>2. \A t \in Clients : DOMAIN tasks[t] = TaskFields
  BY DEF TaskInv, TaskShape
<1>3. \A t \in Clients : tasks'[t] = Interrupted(tasks[t])
  BY <1>1
<1> QED BY <1>1, <1>2, <1>3, InterruptedFields DEF Keeps

\* Recovery interrupts what ran and lists what waits to be queued.
LEMMA RecoverListKeepsTasks ==
  ASSUME TaskInv, RecoverList, UNCHANGED <<req, clientVars>>
  PROVE  TaskInv'
<1>1. /\ app = "starting" /\ exec' = exec
      /\ recoverable' = {t \in Clients : tasks[t].status = "PENDING"}
      /\ app' = IF recoverable' = {} THEN "up" ELSE "recovering"
  BY DEF RecoverList
<1>2. /\ DOMAIN tasks' = Clients
      /\ \A t \in Clients :
           /\ Keeps(t) /\ DOMAIN tasks'[t] = TaskFields
           /\ tasks'[t].status = IF tasks[t].status = "RUNNING" THEN "INTERRUPTED"
                                 ELSE tasks[t].status
  BY RecoverListEffect
<1>3. \A t \in Clients : exec[t].pc = "idle"
  BY <1>1 DEF TaskInv, Process
<1>4. \A t \in Clients : tasks'[t].status \in StatusSet
  BY <1>2 DEF TaskInv, StatusSet, Terminal
<1>5. Process'
  BY <1>1, <1>2, <1>3 DEF Process
<1> QED BY <1>1, <1>2, <1>3, <1>4, <1>5, ProcessKeepsTasks

\* What the queueing of a row does to the rows.
LEMMA QueuePendingEffect ==
  ASSUME TaskInv, NEW t \in Clients, QueuePending(t)
  PROVE  /\ DOMAIN tasks' = Clients /\ DOMAIN tasks'[t] = TaskFields
         /\ \A u \in Clients : u # t => tasks'[u] = tasks[u]
         /\ Keeps(t) /\ tasks[t].status \in {"PENDING", "QUEUED"} /\ tasks'[t].status = "QUEUED"
         /\ tasks'[t].cancel = tasks[t].cancel
<1> DEFINE task == [tasks[t] EXCEPT !.status = "QUEUED"]
<1>1. DOMAIN tasks[t] = TaskFields /\ DOMAIN tasks = Clients
  BY DEF TaskInv, TaskShape
<1>2. /\ DOMAIN task = TaskFields /\ task.status = "QUEUED"
      /\ task.actor = tasks[t].actor /\ task.key = tasks[t].key /\ task.snap = tasks[t].snap
      /\ task.main = tasks[t].main /\ task.save = tasks[t].save /\ task.cancel = tasks[t].cancel
  BY <1>1, TaskWithStatus
<1>3. tasks' = [tasks EXCEPT ![t] = task] /\ tasks[t].status \in {"PENDING", "QUEUED"}
  BY DEF QueuePending, Queueable
<1> HIDE DEF task
<1>4. /\ DOMAIN tasks' = Clients /\ tasks'[t] = task
      /\ \A u \in Clients : u # t => tasks'[u] = tasks[u]
  BY <1>1, <1>3
<1> QED BY <1>2, <1>3, <1>4 DEF Keeps

\* Recovery queues a row, or ends at a conflict.
LEMMA RecoverQueueKeepsTasks ==
  ASSUME TaskInv, NEW t \in Clients, RecoverQueue(t), UNCHANGED <<req, clientVars>>
  PROVE  TaskInv'
<1>1. app = "recovering" /\ exec' = exec /\ \A u \in Clients : exec[u].pc = "idle"
  BY DEF RecoverQueue, TaskInv, Process
<1>2. CASE QueuePending(t) /\ recoverable' = recoverable \ {t}
           /\ app' = IF recoverable' = {} THEN "up" ELSE "recovering"
  <2>1. /\ DOMAIN tasks' = Clients /\ DOMAIN tasks'[t] = TaskFields
        /\ \A u \in Clients : u # t => tasks'[u] = tasks[u]
        /\ Keeps(t) /\ tasks'[t].status = "QUEUED"
    BY <1>2, QueuePendingEffect
  <2>2. \A u \in Clients : /\ Keeps(u) /\ DOMAIN tasks'[u] = TaskFields
                           /\ tasks'[u].status \in StatusSet
    BY <2>1 DEF Keeps, TaskInv, TaskShape, StatusSet
  <2>3. Process'
    BY <1>1, <1>2, <2>2 DEF TaskInv, Process, Keeps
  <2> QED BY <1>1, <2>1, <2>2, <2>3, ProcessKeepsTasks
<1>3. CASE tasks' = tasks /\ recoverable' = {} /\ app' = "stopping"
  <2>1. Process'
    BY <1>3 DEF Process
  <2> QED BY <1>1, <1>3, <2>1, NoTaskChanges
<1> QED BY <1>2, <1>3 DEF RecoverQueue

\* At first there is no task.
LEMMA InitTaskInv ==
  ASSUME Init
  PROVE  TaskInv
<1>1. /\ tasks = [t \in Clients |-> NoTask] /\ exec = [t \in Clients |-> Idle]
      /\ app = "starting" /\ recoverable = {}
      /\ pc = [c \in Clients |-> "start"] /\ answer = [c \in Clients |-> [code |-> "", task |-> 0]]
  BY DEF Init, InitClients
<1>2. DOMAIN NoTask = TaskFields /\ NoTask.status = "none"
  BY DEF NoTask, TaskFields
<1>3. \A c \in Clients : DOMAIN answer[c] = AnswerFields /\ answer[c].task = 0
  BY <1>1 DEF AnswerFields
<1>4. \A t \in Clients : tasks[t] = NoTask /\ exec[t] = Idle /\ pc[t] = "start"
  BY <1>1
<1>5. DOMAIN tasks = Clients /\ DOMAIN exec = Clients /\ DOMAIN answer = Clients
  BY <1>1
<1>6. TaskShape
  BY <1>2, <1>3, <1>4, <1>5, IdleFields DEF TaskShape
<1>7. \A c \in Clients : SubmissionOK(c) /\ TaskOK(c) /\ AnswerOK(c)
  BY <1>2, <1>3, <1>4 DEF SubmissionOK, Submitting, TaskOK, AnswerOK
<1>8. UniqueKeys /\ Process
  BY <1>1, <1>2, <1>4, IdleFields DEF UniqueKeys, Process
<1> QED BY <1>1, <1>2, <1>4, <1>6, <1>7, <1>8, IdleFields DEF TaskInv

\* Every step keeps what is said of the tasks and the answers.
LEMMA TaskInvStep ==
  ASSUME InventoryInv, TaskInv, ExecInv, [Next]_vars
  PROVE  TaskInv'
<1>1. ASSUME NEW c \in Clients, InventoryStep(c), UNCHANGED operationVars,
             UNCHANGED <<req, app, recoverable>>, app # "down"
      PROVE  TaskInv'
  BY <1>1, InventoryStepKeepsTasks DEF InventoryInv, operationVars
<1>2. ASSUME NEW c \in Clients, SubmitStep(c), UNCHANGED <<req, app, recoverable>>, app # "down"
      PROVE  TaskInv'
  BY <1>2, SubmitStepKeepsTasks
<1>3. ASSUME NEW t \in Clients, ExecuteStep(t), UNCHANGED <<req, clientVars, inventoryVars, app, recoverable>>
      PROVE  TaskInv'
  BY <1>3, ExecuteStepKeepsTasks
<1>4. ASSUME Crash \/ Stopped PROVE TaskInv'
  BY <1>4, VanishKeepsTasks DEF Crash, Stopped
<1>5. ASSUME Stop PROVE TaskInv'
  <2>1. Process'
    BY <1>5 DEF Stop, TaskInv, Process
  <2> QED BY <1>5, <2>1, NoTaskChanges DEF Stop, operationVars
<1>6. ASSUME Restart PROVE TaskInv'
  <2>1. Process'
    BY <1>6 DEF Restart, TaskInv, Process, clientVars, operationVars
  <2> QED BY <1>6, <2>1, NoTaskChanges DEF Restart, operationVars
<1>7. ASSUME RecoverList, UNCHANGED <<req, clientVars, inventoryVars>> PROVE TaskInv'
  BY <1>7, RecoverListKeepsTasks
<1>8. ASSUME NEW t \in Clients, RecoverQueue(t), UNCHANGED <<req, clientVars, inventoryVars>>
      PROVE  TaskInv'
  BY <1>8, RecoverQueueKeepsTasks
<1>9. ASSUME UNCHANGED vars PROVE TaskInv'
  <2>1. Process'
    BY <1>9 DEF vars, TaskInv, Process, clientVars, operationVars
  <2> QED BY <1>9, <2>1, NoTaskChanges DEF vars, operationVars
<1> QED BY <1>1, <1>2, <1>3, <1>4, <1>5, <1>6, <1>7, <1>8, <1>9 DEF Next, Quiet

-----------------------------------------------------------------------------
(* Executions: what the clients and the process leave alone.               *)

\* Detections are never forgotten.
LEMMA ObservedGrows ==
  ASSUME NEW c \in Clients, InventoryStep(c)
  PROVE  observed \subseteq observed'
BY DEF InventoryStep, Denied, CreateCredential, PatchCredential, WriteCredential, DeleteCredential,
       CheckCredential, InsertDevice, ReadDevice, CheckPatchedCredential, LoadCredential, Probe,
       ObserveDevice, WriteDevice, DeleteDevice, Answer, Continue, clientVars, inventoryVars

\* What a step may do to a task row: it makes one, or leaves what it is
\* about alone; and no task waits again.
TaskMoves(t) ==
    /\ Keeps(t) \/ tasks[t].status = "none"
    /\ tasks'[t].status \in Waiting => tasks[t].status \in Waiting

\* A task that is not touched.
LEMMA SameTaskMoves ==
  ASSUME NEW t, tasks'[t] = tasks[t]
  PROVE  TaskMoves(t)
BY DEF TaskMoves, Keeps

\* The task rows under the steps of a submission.
LEMMA SubmitTaskMoves ==
  ASSUME TaskInv, NEW c \in Clients, SubmitStep(c), UNCHANGED <<req, app, recoverable>>, app # "down"
  PROVE  (\A t \in Clients : TaskMoves(t)) /\ UNCHANGED <<exec, guard, sent>>
<1>1. UNCHANGED <<exec, guard, sent>>
  BY DEF SubmitStep, Reject, FindByIdempotency, Preflight, Create, CreateFails, CreateQueryAudit,
         Queue, QueueConflict, QueueFails, CleanUpTask, CleanUpAudit, WaitEnded, WaitTimesOut,
         operationVars
<1>2. CASE tasks' = tasks
  BY <1>1, <1>2, SameTaskMoves
<1>3. CASE pc[c] = "create" /\ Insert(c)
  <2>1. tasks[c].status = "none"
    BY <1>3 DEF TaskInv, SubmissionOK
  <2>2. \A t \in Clients : t # c => tasks'[t] = tasks[t]
    BY <1>3 DEF Insert, TaskInv, TaskShape
  <2>3. TaskMoves(c)
    BY <2>1 DEF TaskMoves, Waiting
  <2> QED BY <1>1, <2>2, <2>3, SameTaskMoves
<1>4. CASE QueuePending(c)
  <2>1. /\ \A t \in Clients : t # c => tasks'[t] = tasks[t]
        /\ Keeps(c) /\ tasks[c].status \in {"PENDING", "QUEUED"}
    BY <1>4, QueuePendingEffect
  <2>2. TaskMoves(c)
    BY <2>1 DEF TaskMoves, Waiting
  <2> QED BY <1>1, <2>1, <2>2, SameTaskMoves
<1>5. CASE tasks' = [tasks EXCEPT ![c] = RequestCancel(@)]
  <2>1. tasks'[c] = RequestCancel(tasks[c]) /\ \A t \in Clients : t # c => tasks'[t] = tasks[t]
    BY <1>5 DEF TaskInv, TaskShape
  <2>2. DOMAIN tasks[c] = TaskFields
    BY DEF TaskInv, TaskShape
  <2>3. TaskMoves(c)
    BY <2>1, <2>2, RequestCancelFields DEF TaskMoves, Keeps, Waiting
  <2> QED BY <1>1, <2>1, <2>3, SameTaskMoves
<1> QED BY <1>1, <1>2, <1>3, <1>4, <1>5
        DEF SubmitStep, Reject, FindByIdempotency, Preflight, Create, CreateFails, CreateQueryAudit,
            Queue, QueueConflict, QueueFails, CleanUpTask, CleanUpAudit, WaitEnded,
            WaitTimesOut, operationVars

\* Two sequences, one after the other.
LEMMA ConcatSequences ==
  ASSUME NEW a, NEW b, IsSequence(a), IsSequence(b)
  PROVE  /\ Len(a) \in Nat /\ Len(b) \in Nat /\ Len(a \o b) = Len(a) + Len(b)
         /\ \A i \in 1..Len(a) : (a \o b)[i] = a[i]
         /\ \A i \in 1..Len(b) : (a \o b)[Len(a) + i] = b[i]
<1>1. PICK S : a \in Seq(S)
  BY DEF IsSequence
<1>2. PICK T : b \in Seq(T)
  BY DEF IsSequence
<1>3. a \in Seq(S \cup T) /\ b \in Seq(S \cup T)
  BY <1>1, <1>2
<1> QED BY <1>3

\* A sequence that is not empty.
LEMMA NotEmpty ==
  ASSUME NEW q, IsSequence(q), q # <<>>
  PROVE  0 < Len(q)
<1>1. PICK S : q \in Seq(S)
  BY DEF IsSequence
<1> QED BY <1>1

\* The empty one.
LEMMA EmptySequence == IsSequence(<<>>) /\ Len(<<>>) = 0
BY DEF IsSequence

\* The commands of a plan and of its save plan, one after the other.
ApprovedOf(main, save) == main.commands \o (IF save = NoPlan THEN <<>> ELSE save.commands)

\* Where each of them is.
LEMMA ApprovedPlans ==
  ASSUME NEW main, NEW save, NEW s, Planned(main, save, s)
  PROVE  /\ Len(main.commands) \in Nat /\ 0 < Len(main.commands) /\ Len(ApprovedOf(main, save)) \in Nat
         /\ Len(main.commands) <= Len(ApprovedOf(main, save))
         /\ \A i \in 1..Len(main.commands) : ApprovedOf(main, save)[i] = main.commands[i]
         /\ save # NoPlan =>
              /\ Len(save.commands) \in Nat /\ 0 < Len(save.commands)
              /\ Len(ApprovedOf(main, save)) = Len(main.commands) + Len(save.commands)
<1> DEFINE m == main.commands
           v == IF save = NoPlan THEN <<>> ELSE save.commands
           a == m \o v
<1>1. IsSequence(m) /\ m # <<>> /\ IsSequence(v)
  BY EmptySequence DEF Planned
<1>2. save # NoPlan => v = save.commands /\ v # <<>>
  BY DEF Planned
<1>3. ApprovedOf(main, save) = a
  BY DEF ApprovedOf
<1>4. /\ Len(m) \in Nat /\ Len(v) \in Nat /\ Len(a) = Len(m) + Len(v)
      /\ \A i \in 1..Len(m) : a[i] = m[i]
      /\ \A i \in 1..Len(v) : a[Len(m) + i] = v[i]
  <2> HIDE DEF m, v
  <2> QED BY <1>1, ConcatSequences
<1>5. 0 < Len(m)
  <2> HIDE DEF m
  <2> QED BY <1>1, NotEmpty
<1>6. save # NoPlan => 0 < Len(v)
  <2> HIDE DEF v
  <2> QED BY <1>1, <1>2, NotEmpty
<1> HIDE DEF m, v, a
<1>7. Len(m) <= Len(a) /\ Len(a) \in Nat
  BY <1>4
<1>8. m = main.commands
  BY DEF m
<1> QED BY <1>2, <1>3, <1>4, <1>5, <1>6, <1>7, <1>8

\* The commands of the save plan follow.
LEMMA SavedPlan ==
  ASSUME NEW main, NEW save, NEW s, Planned(main, save, s), save # NoPlan
  PROVE  \A i \in 1..Len(save.commands) :
           ApprovedOf(main, save)[Len(main.commands) + i] = save.commands[i]
<1> DEFINE p == main.commands
           q == save.commands
<1>1. IsSequence(p) /\ IsSequence(q) /\ ApprovedOf(main, save) = p \o q
  BY DEF Planned, ApprovedOf
<1> HIDE DEF p, q
<1>2. \A i \in 1..Len(q) : (p \o q)[Len(p) + i] = q[i]
  BY <1>1, ConcatSequences
<1>3. \A i \in 1..Len(q) : ApprovedOf(main, save)[Len(p) + i] = q[i]
  BY <1>1, <1>2
<1> QED BY <1>3 DEF p, q

\* The plans of a task.
LEMMA ApprovedTask ==
  ASSUME NEW t
  PROVE  Approved(t) = ApprovedOf(tasks[t].main, tasks[t].save)
BY DEF Approved, ApprovedOf

\* What has been sent for a task stays what was approved, while nothing is sent.
LEMMA SentKept ==
  ASSUME NEW t, SentOK(t), TaskMoves(t), TaskOK(t)', sent'[t] = sent[t], exec'[t] = exec[t]
  PROVE  SentOK(t)'
<1>1. Keeps(t) => Approved(t)' = Approved(t)
  BY DEF Keeps, Approved
<1>2. tasks'[t].status # "none" => Len(Approved(t)') \in Nat
  <2> SUFFICES ASSUME tasks'[t].status # "none" PROVE Len(Approved(t)') \in Nat
    OBVIOUS
  <2>1. Planned(tasks'[t].main, tasks'[t].save, tasks'[t].snap)
    BY DEF TaskOK
  <2>2. Approved(t)' = ApprovedOf(tasks'[t].main, tasks'[t].save)
    BY DEF Approved, ApprovedOf
  <2> QED BY <2>1, <2>2, ApprovedPlans
<1> DEFINE n == Len(sent[t])
<1>3. n \in Nat
  BY SequenceDomain DEF SentOK
<1>4. CASE Keeps(t)
  BY <1>1, <1>4 DEF SentOK, Keeps, TaskMoves, Waiting
<1>5. CASE tasks[t].status = "none"
  <2>1. n = 0
    BY <1>5 DEF SentOK
  <2>2. tasks'[t].status # "none" =>
          n <= Len(Approved(t)') /\ \A i \in 1..n : sent[t][i] = (Approved(t)')[i]
    BY <1>2, <2>1
  <2> QED BY <2>1, <2>2 DEF SentOK
<1> QED BY <1>4, <1>5 DEF TaskMoves

\* What is said of an execution stays.
LEMMA ExecKept ==
  ASSUME NEW t, ExecOK(t), exec'[t] = exec[t], observed \subseteq observed',
         exec[t].pc # "idle" => Keeps(t)
  PROVE  ExecOK(t)'
BY DEF ExecOK, Keeps, Detected, SeenIn

\* The executor stands still.
LEMMA ExecInvKept ==
  ASSUME TaskInv, TaskInv', ExecInv, UNCHANGED <<exec, guard, sent>>, observed \subseteq observed',
         \A t \in Clients : TaskMoves(t)
  PROVE  ExecInv'
<1>1. \A t \in Clients : exec[t].pc # "idle" => Keeps(t)
  BY DEF TaskInv, TaskMoves
<1>2. \A t \in Clients : ExecOK(t)'
  BY <1>1, ExecKept DEF ExecInv
<1>3. \A t \in Clients : SentOK(t)'
  BY SentKept DEF ExecInv, TaskInv
<1>4. GuardInv'
  BY <1>1 DEF ExecInv, GuardInv, Keeps
<1>5. Cardinality(Running') <= Workers
  BY DEF ExecInv, Running
<1> QED BY <1>2, <1>3, <1>4, <1>5 DEF ExecInv

-----------------------------------------------------------------------------
(* Executions: the executor's steps.                                       *)

Using == {"main", "save"}

\* The guards stay as they are.
LEMMA GuardSame ==
  ASSUME GuardInv, NEW t \in Clients, ExecutionOf(t), guard' = guard,
         exec'[t].pc \in Using <=> exec[t].pc \in Using,
         \A u \in Clients : tasks'[u].snap = tasks[u].snap
  PROVE  GuardInv'
<1>1. \A u \in Clients : exec'[u].pc \in Using <=> exec[u].pc \in Using
  BY DEF ExecutionOf
<1> QED BY <1>1 DEF GuardInv, Using

\* What a task holds is given back.
LEMMA GuardReleased ==
  ASSUME GuardInv, \A u \in Clients : ExecOK(u), NEW t \in Clients, ExecutionOf(t),
         guard' = [d \in DevIds |-> IF guard[d] = t THEN 0 ELSE guard[d]],
         exec'[t].pc \notin Using, \A u \in Clients : tasks'[u].snap = tasks[u].snap
  PROVE  GuardInv'
<1>1. ASSUME NEW d \in DevIds, guard'[d] # 0
      PROVE  guard'[d] \in Clients /\ exec'[guard'[d]].pc \in Using
  <2>1. guard'[d] = guard[d] /\ guard[d] # t
    BY <1>1
  <2> QED BY <1>1, <2>1 DEF GuardInv, Using, ExecutionOf
<1>2. ASSUME NEW u \in Clients, exec'[u].pc \in Using
      PROVE  guard'[tasks'[u].snap.device] = u
  <2>1. u # t /\ exec[u].pc \in Using
    BY <1>2 DEF ExecutionOf
  <2>2. tasks[u].snap.device \in DevIds
    BY <2>1 DEF ExecOK, Using
  <2>3. guard[tasks[u].snap.device] = u
    BY <2>1 DEF GuardInv, Using
  <2> QED BY <2>1, <2>2, <2>3
<1>3. DOMAIN guard' = DevIds
  OBVIOUS
<1> QED BY <1>1, <1>2, <1>3 DEF GuardInv, Using

\* A free device is taken.
LEMMA GuardTaken ==
  ASSUME GuardInv, NEW t \in Clients, ExecutionOf(t), exec[t].pc \notin Using, exec'[t].pc \in Using,
         tasks[t].snap.device \in DevIds, guard[tasks[t].snap.device] = 0,
         guard' = [guard EXCEPT ![tasks[t].snap.device] = t],
         \A u \in Clients : tasks'[u].snap = tasks[u].snap
  PROVE  GuardInv'
<1>1. DOMAIN guard = DevIds /\ 0 \notin Clients
  BY ClientsAssumption DEF GuardInv
<1>2. ASSUME NEW d \in DevIds, guard'[d] # 0
      PROVE  guard'[d] \in Clients /\ exec'[guard'[d]].pc \in Using
  <2>1. CASE d = tasks[t].snap.device
    BY <1>1, <2>1
  <2>2. CASE d # tasks[t].snap.device
    <3>1. guard'[d] = guard[d]
      BY <1>1, <2>2
    <3>2. guard[d] \in Clients /\ exec[guard[d]].pc \in Using
      BY <1>2, <3>1 DEF GuardInv, Using
    <3> QED BY <3>1, <3>2 DEF ExecutionOf
  <2> QED BY <2>1, <2>2
<1>3. ASSUME NEW u \in Clients, exec'[u].pc \in Using
      PROVE  guard'[tasks'[u].snap.device] = u
  <2>1. CASE u = t
    BY <1>1, <2>1
  <2>2. CASE u # t
    <3>1. exec[u].pc \in Using
      BY <1>3, <2>2 DEF ExecutionOf
    <3>2. guard[tasks[u].snap.device] = u
      BY <3>1 DEF GuardInv, Using
    <3>3. tasks[u].snap.device # tasks[t].snap.device
      BY <1>1, <3>2
    <3> QED BY <1>1, <3>2, <3>3
  <2> QED BY <2>1, <2>2
<1>4. DOMAIN guard' = DevIds
  BY <1>1
<1> QED BY <1>2, <1>3, <1>4 DEF GuardInv, Using

\* No more tasks run than before.
LEMMA RunningShrinks ==
  ASSUME \A u \in Clients : exec'[u].pc # "idle" => exec[u].pc # "idle",
         Cardinality(Running) <= Workers
  PROVE  Cardinality(Running') <= Workers
<1>1. Running' \subseteq Running /\ Running \subseteq Clients
  BY DEF Running
<1>2. IsFiniteSet(Running)
  BY <1>1, ClientsAssumption, FS_Subset
<1>3. Cardinality(Running') <= Cardinality(Running)
  BY <1>1, <1>2, FS_Subset
<1>4. Cardinality(Running) \in Nat /\ Cardinality(Running') \in Nat
  BY <1>1, <1>2, FS_Subset, FS_CardinalityType
<1> QED BY <1>3, <1>4, BoundsAssumption

\* One more task runs.
LEMMA RunningGrows ==
  ASSUME NEW t \in Clients, \A u \in Clients : u # t => exec'[u] = exec[u],
         Cardinality(Running) < Workers
  PROVE  Cardinality(Running') <= Workers
<1>1. Running' \subseteq Running \cup {t} /\ Running \subseteq Clients
  BY DEF Running
<1>2. IsFiniteSet(Running)
  BY <1>1, ClientsAssumption, FS_Subset
<1>3. /\ IsFiniteSet(Running \cup {t})
      /\ Cardinality(Running \cup {t}) = IF t \in Running THEN Cardinality(Running)
                                         ELSE Cardinality(Running) + 1
  BY <1>2, FS_AddElement
<1>4. Cardinality(Running') <= Cardinality(Running \cup {t}) /\ IsFiniteSet(Running')
  BY <1>1, <1>3, FS_Subset
<1>5. Cardinality(Running) \in Nat /\ Cardinality(Running') \in Nat
  BY <1>2, <1>4, FS_CardinalityType
<1> QED BY <1>3, <1>4, <1>5, BoundsAssumption

\* A step of the executor that touches one task.
LEMMA ExecutionKeepsExec ==
  ASSUME TaskInv, TaskInv', ExecInv, NEW t \in Clients, ExecutionOf(t), observed' = observed,
         \A u \in Clients : u # t => tasks'[u] = tasks[u] /\ sent'[u] = sent[u],
         DOMAIN sent' = Clients, ExecOK(t)', SentOK(t)', GuardInv', Cardinality(Running') <= Workers
  PROVE  ExecInv'
<1>1. ASSUME NEW u \in Clients, u # t PROVE ExecOK(u)' /\ SentOK(u)'
  <2>1. exec'[u] = exec[u] /\ sent'[u] = sent[u] /\ tasks'[u] = tasks[u]
    BY <1>1 DEF ExecutionOf
  <2>2. Keeps(u) /\ TaskMoves(u)
    BY <2>1, SameTaskMoves DEF Keeps
  <2>3. ExecOK(u)'
    BY <2>1, <2>2, ExecKept DEF ExecInv
  <2>4. SentOK(u)'
    BY <2>1, <2>2, SentKept DEF ExecInv, TaskInv
  <2> QED BY <2>3, <2>4
<1> QED BY <1>1 DEF ExecInv

\* What has been sent for a task, when its execution sends nothing now.
LEMMA SentIdle ==
  ASSUME NEW t, SentOK(t), Keeps(t), sent'[t] = sent[t], exec'[t].pc \notin Using,
         exec'[t].pc \in {"idle", "reload", "prepare", "guard"} => exec'[t].records = <<>>,
         exec'[t].pc \in {"reload", "prepare", "guard"} => Len(sent[t]) = 0,
         tasks'[t].status \in Waiting => tasks[t].status \in Waiting
  PROVE  SentOK(t)'
<1>1. Approved(t)' = Approved(t)
  BY DEF Keeps, Approved
<1>2. tasks'[t].status # "none" => tasks[t].status # "none"
  BY DEF Keeps
<1> DEFINE n == Len(sent[t])
<1>3. IsSequence(sent'[t]) /\ Len(sent'[t]) = n
  BY DEF SentOK
<1>4. tasks'[t].status # "none" =>
        n <= Len(Approved(t)') /\ \A i \in 1..n : sent'[t][i] = (Approved(t)')[i]
  BY <1>1, <1>2 DEF SentOK
<1>5. tasks'[t].status \in {"none", "PENDING", "QUEUED"} => n = 0
  BY DEF SentOK, Waiting
<1> HIDE DEF n
<1> QED BY <1>3, <1>4, <1>5 DEF SentOK, Using

\* Execute returns an error.
LEMMA FailingKeepsExec ==
  ASSUME TaskInv, TaskInv', ExecInv, NEW t \in Clients, NEW code, Failing(t, code),
         exec[t].pc # "idle", UNCHANGED <<tasks, sent, observed>>
  PROVE  ExecInv'
<1>1. /\ ExecutionOf(t) /\ exec'[t].pc = "auditFailure" /\ exec'[t].status = ""
      /\ guard' = [d \in DevIds |-> IF guard[d] = t THEN 0 ELSE guard[d]]
  BY DEF Failing
<1>2. Keeps(t) /\ SentOK(t) /\ \A u \in Clients : ExecOK(u)
  BY DEF Keeps, ExecInv
<1>3. ExecOK(t)'
  BY <1>1 DEF ExecOK
<1>4. SentOK(t)'
  BY <1>1, <1>2, SentIdle DEF Using
<1>5. GuardInv'
  BY <1>1, <1>2, GuardReleased DEF ExecInv, Using
<1>6. Cardinality(Running') <= Workers
  BY <1>1, RunningShrinks DEF ExecInv, ExecutionOf
<1> QED BY <1>1, <1>3, <1>4, <1>5, <1>6, ExecutionKeepsExec DEF ExecInv

\* The scheduler claims a task.
LEMMA ClaimKeepsExec ==
  ASSUME TaskInv, TaskInv', ExecInv, NEW t \in Clients, Claim(t), observed' = observed
  PROVE  ExecInv'
<1>1. /\ ExecutionOf(t) /\ exec'[t].pc = "reload" /\ SameExecution(t)
      /\ \A u \in Clients : u # t => tasks'[u] = tasks[u]
      /\ Keeps(t) /\ tasks[t].status = "QUEUED" /\ tasks'[t].status = "RUNNING"
  BY ClaimEffect DEF TaskInv
<1>2. sent' = sent /\ guard' = guard /\ Cardinality(Running) < Workers
  BY DEF Claim, Running
<1>3. exec[t].pc = "idle"
  BY <1>1 DEF TaskInv
<1>4. exec[t].status = "" /\ exec[t].records = <<>> /\ Len(sent[t]) = 0 /\ SentOK(t)
  BY <1>1, <1>3 DEF ExecInv, ExecOK, SentOK
<1>5. ExecOK(t)'
  BY <1>1, <1>4 DEF ExecOK, SameExecution
<1>6. SentOK(t)'
  BY <1>1, <1>2, <1>4, SentIdle DEF Using, Waiting, SameExecution
<1>7. \A u \in Clients : tasks'[u].snap = tasks[u].snap
  BY <1>1 DEF Keeps
<1>8. GuardInv'
  BY <1>1, <1>2, <1>3, <1>7, GuardSame DEF ExecInv, Using
<1>9. Cardinality(Running') <= Workers
  BY <1>1, <1>2, RunningGrows DEF ExecutionOf
<1> QED BY <1>1, <1>2, <1>5, <1>6, <1>8, <1>9, ExecutionKeepsExec DEF ExecInv

\* A step that holds no device and sends nothing.
LEMMA QuietStepKeepsExec ==
  ASSUME TaskInv, TaskInv', ExecInv, NEW t \in Clients, ExecutionOf(t), exec[t].pc # "idle",
         exec[t].pc \notin Using, exec'[t].pc \notin Using, UNCHANGED <<tasks, sent, observed, guard>>,
         ExecOK(t)',
         exec'[t].pc \in {"idle", "reload", "prepare", "guard"} => exec'[t].records = <<>>,
         exec'[t].pc \in {"reload", "prepare", "guard"} => Len(sent[t]) = 0
  PROVE  ExecInv'
<1>1. Keeps(t) /\ SentOK(t)
  BY DEF Keeps, ExecInv
<1>2. SentOK(t)'
  BY <1>1, SentIdle
<1>3. GuardInv'
  BY GuardSame DEF ExecInv
<1>4. Cardinality(Running') <= Workers
  BY RunningShrinks DEF ExecInv, ExecutionOf
<1> QED BY <1>2, <1>3, <1>4, ExecutionKeepsExec DEF ExecInv

\* The row is read again.
LEMMA ReloadKeepsExec ==
  ASSUME TaskInv, TaskInv', ExecInv, NEW t \in Clients, Reload(t), observed' = observed
  PROVE  ExecInv'
<1>1. UNCHANGED <<tasks, sent, guard>>
  BY DEF Reload
<1>2. /\ ExecutionOf(t) /\ exec[t].pc = "reload" /\ exec'[t].pc \in {"finalize", "prepare"}
      /\ exec'[t].status = exec[t].status /\ exec'[t].records = exec[t].records
  BY ReloadEffect DEF TaskInv
<1>3. exec[t].status = "" /\ exec[t].records = <<>> /\ Len(sent[t]) = 0
  BY <1>2 DEF ExecInv, ExecOK, SentOK
<1>4. ExecOK(t)'
  BY <1>2, <1>3 DEF ExecOK
<1> QED BY <1>1, <1>2, <1>3, <1>4, QuietStepKeepsExec DEF Using

\* The plan is made again: for a change the device was detected.
LEMMA ExecutePrepareKeepsExec ==
  ASSUME InventoryInv, TaskInv, TaskInv', ExecInv, NEW t \in Clients, ExecutePrepare(t),
         observed' = observed
  PROVE  ExecInv'
<1> DEFINE s == tasks[t].snap
           p == prepare(s)
<1>1. UNCHANGED <<tasks, sent>> /\ TaskShape
  BY DEF ExecutePrepare, TaskInv
<1>2. exec[t].pc = "prepare"
  BY DEF ExecutePrepare, Executing
<1>3. CASE \E code : Failing(t, code)
  BY <1>1, <1>2, <1>3, FailingKeepsExec
<1>4. CASE /\ p.error = "" /\ ExecutionOf(t) /\ guard' = guard
           /\ exec'[t].pc = IF s.dry THEN "audit" ELSE "guard"
           /\ exec'[t].row = p.row
           /\ exec'[t].main = tasks[t].main /\ exec'[t].save = tasks[t].save
           /\ exec'[t].status = "SUCCESS" /\ exec'[t].records = <<>>
  <2>1. tasks[t].status = "RUNNING"
    BY <1>2 DEF TaskInv
  <2>2. Accepted(t) /\ s = snapshotRequest(req[t])
    BY <2>1 DEF TaskInv, TaskOK
  <2>3. s.parameters.commands \in Seq(Seq(STRING))
    BY <2>2, SubmittedCommands
  <2>4. s.device \in Live(devices) /\ p.row = devices[s.device]
        /\ validateDeviceForOperation(devices[s.device], s.class) = ""
    BY <1>4, <2>3, Prepared
  <2> HIDE DEF p, s
  <2>5. s.device \in DevIds /\ SeenIn(devices[s.device], observed)
    BY <2>4 DEF InventoryInv, Rows, Live
  <2>6. s.class # "QUERY" => Detected(p.row)
    BY <2>4, <2>5 DEF validateDeviceForOperation, ValidDevice, Statuses, Detected
  <2>7. Len(sent[t]) = 0
    BY <1>2 DEF ExecInv, SentOK
  <2>8. ExecOK(t)'
    <3>1. exec'[t].pc = "guard" => ~s.dry
      BY <1>4
    <3>2. exec'[t].pc \in {"audit", "guard"} /\ exec'[t].status \in Ended
      BY <1>4 DEF Ended
    <3>3. s.class # "QUERY" =>
            /\ exec'[t].row.status = "ACTIVE" /\ exec'[t].row.identity = "VERIFIED"
            /\ SeenIn(exec'[t].row, observed')
      BY <1>4, <2>6 DEF Detected
    <3>4. s = tasks'[t].snap
      BY <1>1 DEF s
    <3>5. exec'[t].main = tasks'[t].main /\ exec'[t].save = tasks'[t].save
      BY <1>1, <1>4
    <3> QED BY <2>5, <3>1, <3>2, <3>3, <3>4, <3>5 DEF ExecOK, Detected
  <2>9. exec'[t].pc \in {"audit", "guard"}
    BY <1>4
  <2> QED BY <1>1, <1>2, <1>4, <2>7, <2>8, <2>9, QuietStepKeepsExec DEF Using
<1> QED BY <1>1, <1>3, <1>4, ExecutePrepareEffect

\* The device is acquired.
LEMMA AcquireKeepsExec ==
  ASSUME TaskInv, TaskInv', ExecInv, NEW t \in Clients, Acquire(t), observed' = observed
  PROVE  ExecInv'
<1>1. UNCHANGED <<tasks, sent>> /\ TaskShape
  BY DEF Acquire, TaskInv
<1>2. exec[t].pc = "guard"
  BY DEF Acquire, Executing
<1>3. CASE \E code : Failing(t, code)
  BY <1>1, <1>2, <1>3, FailingKeepsExec
<1>4. CASE /\ ExecutionOf(t) /\ exec'[t].pc = "main" /\ SameExecution(t)
           /\ guard[tasks[t].snap.device] = 0
           /\ guard' = [guard EXCEPT ![tasks[t].snap.device] = t]
  <2>1. ExecOK(t)'
    BY <1>1, <1>2, <1>4 DEF ExecInv, ExecOK, SameExecution, Detected
  <2>2. tasks[t].snap.device \in DevIds /\ exec[t].main = tasks[t].main
    BY <1>2 DEF ExecInv, ExecOK
  <2>3. Planned(tasks[t].main, tasks[t].save, tasks[t].snap)
    BY <1>2 DEF TaskInv, TaskOK
  <2>4. 0 < Len(tasks[t].main.commands)
    BY <2>3, ApprovedPlans
  <2>5. exec[t].records = <<>> /\ Len(sent[t]) = 0 /\ SentOK(t)
    BY <1>2 DEF ExecInv, SentOK
  <2>6. exec'[t].records = <<>> /\ exec'[t].main = tasks[t].main
    BY <1>4, <2>2, <2>5 DEF SameExecution
  <2>7. IsSequence(exec'[t].records) /\ Len(exec'[t].records) = 0
    BY <2>6, EmptySequence
  <2>8. SentOK(t)'
    BY <1>1, <1>4, <2>4, <2>5, <2>6, <2>7 DEF SentOK, Approved
  <2>9. GuardInv'
    BY <1>1, <1>2, <1>4, <2>2, GuardTaken DEF ExecInv, Using
  <2>10. Cardinality(Running') <= Workers
    BY <1>2, <1>4, RunningShrinks DEF ExecInv, ExecutionOf
  <2> QED BY <1>1, <1>4, <2>1, <2>8, <2>9, <2>10, ExecutionKeepsExec DEF ExecInv
<1> QED BY <1>1, <1>3, <1>4, AcquireEffect

\* The command that is sent next is the next of the approved ones.
LEMMA NextIsApproved ==
  ASSUME TaskInv, ExecInv, NEW t \in Clients, exec[t].pc \in Using
  PROVE  /\ Len(sent[t]) \in Nat /\ Len(Approved(t)) \in Nat /\ Len(sent[t]) < Len(Approved(t))
         /\ Approved(t)[Len(sent[t]) + 1] = NextCommand(t)
<1> DEFINE n == Len(sent[t])
           r == Len(exec[t].records)
           m == Len(tasks[t].main.commands)
           v == Len(tasks[t].save.commands)
           a == ApprovedOf(tasks[t].main, tasks[t].save)
<1>1. tasks[t].status = "RUNNING"
  BY DEF TaskInv, Using
<1>2. Planned(tasks[t].main, tasks[t].save, tasks[t].snap) /\ a = Approved(t)
  BY <1>1, ApprovedTask DEF TaskInv, TaskOK
<1>3. exec[t].main = tasks[t].main /\ exec[t].save = tasks[t].save
  BY DEF ExecInv, ExecOK, Using
<1>4. n \in Nat /\ r \in Nat
  BY SequenceDomain DEF ExecInv, SentOK, Using
<1>5. /\ exec[t].pc = "main" => n = r /\ n < m
      /\ exec[t].pc = "save" => tasks[t].save # NoPlan /\ n = m + r /\ r < v
  BY <1>3 DEF ExecInv, SentOK
<1>6. /\ m \in Nat /\ Len(a) \in Nat /\ m <= Len(a) /\ \A i \in 1..m : a[i] = tasks[t].main.commands[i]
      /\ tasks[t].save # NoPlan =>
           v \in Nat /\ Len(a) = m + v
  <2>1. /\ m \in Nat /\ Len(a) \in Nat /\ m <= Len(a)
        /\ tasks[t].save # NoPlan => v \in Nat /\ Len(a) = m + v
    BY <1>2, ApprovedPlans
  <2>2. \A i \in 1..m : a[i] = tasks[t].main.commands[i]
    BY <1>2, ApprovedPlans
  <2> QED BY <2>1, <2>2, Zenon
<1> HIDE DEF a, n, r, m, v
<1>7. CASE exec[t].pc = "main"
  <2>1. NextCommand(t) = tasks[t].main.commands[r + 1]
    BY <1>3, <1>7 DEF NextCommand, SendPlan, r
  <2>2. n < Len(a) /\ n + 1 \in 1..m
    BY <1>4, <1>5, <1>6, <1>7
  <2>3. a[n + 1] = tasks[t].main.commands[n + 1]
    BY <1>6, <2>2
  <2>4. a[n + 1] = NextCommand(t)
    BY <1>5, <1>7, <2>1, <2>3
  <2> QED BY <1>2, <1>4, <1>6, <2>2, <2>4 DEF n
<1>8. CASE exec[t].pc = "save"
  <2>1. NextCommand(t) = tasks[t].save.commands[r + 1]
    BY <1>3, <1>8 DEF NextCommand, SendPlan, r
  <2>2. n < Len(a) /\ r + 1 \in 1..v /\ n + 1 = m + (r + 1)
    BY <1>4, <1>5, <1>6, <1>8
  <2>3. a[m + (r + 1)] = tasks[t].save.commands[r + 1]
    <3>1. tasks[t].save # NoPlan
      BY <1>5, <1>8
    <3>2. \A i \in 1..v : a[m + i] = tasks[t].save.commands[i]
      BY <1>2, <3>1, SavedPlan, Zenon DEF a, m, v
    <3> QED BY <2>2, <3>2
  <2>4. a[n + 1] = NextCommand(t)
    BY <2>1, <2>2, <2>3
  <2> QED BY <1>2, <1>4, <1>6, <2>2, <2>4 DEF n
<1> QED BY <1>7, <1>8 DEF Using

\* One more.
LEMMA PrefixGrows ==
  ASSUME NEW s, IsSequence(s), NEW a, NEW x, Len(a) \in Nat, Len(s) < Len(a), a[Len(s) + 1] = x,
         \A i \in 1..Len(s) : s[i] = a[i]
  PROVE  /\ IsSequence(Append(s, x)) /\ Len(Append(s, x)) = Len(s) + 1 /\ Len(s) \in Nat
         /\ Len(s) + 1 <= Len(a)
         /\ \A i \in 1..(Len(s) + 1) : Append(s, x)[i] = a[i]
<1> DEFINE q == Append(s, x)
           n == Len(s)
<1>1. /\ IsSequence(q) /\ n \in Nat /\ Len(q) = n + 1 /\ q[n + 1] = x
      /\ \A i \in 1..n : q[i] = s[i]
  BY AppendSequence
<1> HIDE DEF q, n
<1>2. n < Len(a) /\ a[n + 1] = x /\ \A i \in 1..n : s[i] = a[i]
  BY DEF n
<1>3. n + 1 <= Len(a)
  BY <1>1, <1>2
<1>4. \A i \in 1..(n + 1) : i = n + 1 \/ i \in 1..n
  BY <1>1
<1>5. \A i \in 1..(n + 1) : q[i] = a[i]
  BY <1>1, <1>2, <1>4
<1> QED BY <1>1, <1>3, <1>5 DEF q, n

\* After a command what has been sent is still a beginning of what was approved.
LEMMA SentGrows ==
  ASSUME TaskInv, ExecInv, NEW t \in Clients, exec[t].pc \in Using, tasks' = tasks,
         sent' = [sent EXCEPT ![t] = Append(@, NextCommand(t))]
  PROVE  /\ DOMAIN sent' = Clients /\ \A u \in Clients : u # t => sent'[u] = sent[u]
         /\ IsSequence(sent'[t]) /\ Len(sent[t]) \in Nat /\ Len(sent'[t]) = Len(sent[t]) + 1
         /\ tasks[t].status = "RUNNING" /\ Len(sent'[t]) <= Len(Approved(t)')
         /\ \A i \in 1..Len(sent'[t]) : sent'[t][i] = (Approved(t)')[i]
<1>1. /\ Len(sent[t]) \in Nat /\ Len(Approved(t)) \in Nat /\ Len(sent[t]) < Len(Approved(t))
      /\ Approved(t)[Len(sent[t]) + 1] = NextCommand(t)
  BY NextIsApproved
<1>2. tasks[t].status = "RUNNING"
  BY DEF TaskInv, Using
<1>3. IsSequence(sent[t]) /\ \A i \in 1..Len(sent[t]) : sent[t][i] = Approved(t)[i]
  BY <1>2 DEF ExecInv, SentOK
<1>4. /\ DOMAIN sent' = Clients /\ \A u \in Clients : u # t => sent'[u] = sent[u]
      /\ sent'[t] = Append(sent[t], NextCommand(t))
  BY DEF ExecInv
<1>5. Approved(t)' = Approved(t)
  BY DEF Approved
<1> DEFINE a == Approved(t)
<1> HIDE DEF a
<1>6. /\ IsSequence(sent'[t]) /\ Len(sent'[t]) = Len(sent[t]) + 1
      /\ Len(sent[t]) + 1 <= Len(a)
      /\ \A i \in 1..(Len(sent[t]) + 1) : sent'[t][i] = a[i]
  BY <1>1, <1>3, <1>4, PrefixGrows DEF a
<1> QED BY <1>1, <1>2, <1>4, <1>5, <1>6 DEF a

\* A command is sent.
LEMMA SendKeepsExec ==
  ASSUME TaskInv, TaskInv', ExecInv, NEW t \in Clients, Send(t), observed' = observed
  PROVE  ExecInv'
<1>1. exec[t].pc \in Using /\ tasks' = tasks
  BY SendEffect DEF Using
<1>2. CASE Failing(t, "context") /\ sent' = sent
  BY <1>1, <1>2, FailingKeepsExec DEF Using
<1>3. CASE sent' = [sent EXCEPT ![t] = Append(@, NextCommand(t))] /\ SendLeads(t)
  <2> DEFINE n == Len(sent[t])
  <2>1. /\ DOMAIN sent' = Clients /\ \A u \in Clients : u # t => sent'[u] = sent[u]
        /\ IsSequence(sent'[t]) /\ n \in Nat /\ Len(sent'[t]) = n + 1
        /\ tasks[t].status = "RUNNING" /\ Len(sent'[t]) <= Len(Approved(t)')
        /\ \A i \in 1..Len(sent'[t]) : sent'[t][i] = (Approved(t)')[i]
    BY <1>1, <1>3, SentGrows
  <2>2. \A u \in Clients : tasks'[u].snap = tasks[u].snap
    BY <1>1
  <2>3. ASSUME ExecutionOf(t), ExecOK(t)', SentOK(t)', GuardInv' PROVE ExecInv'
    <3>1. Cardinality(Running') <= Workers
      BY <1>1, <2>3, RunningShrinks DEF ExecInv, ExecutionOf, Using
    <3> QED BY <1>1, <2>1, <2>3, <3>1, ExecutionKeepsExec
  <2>4. ASSUME exec'[t].pc \in {"audit", "auditFailure"} PROVE SentOK(t)'
    BY <1>1, <2>1, <2>4 DEF SentOK
  <2>5. CASE \E status \in Ended : Leaving(t, status)
    <3>1. PICK status \in Ended : Leaving(t, status)
      BY <2>5
    <3>2. ExecOK(t)'
      BY <3>1 DEF ExecOK, Leaving
    <3>3. GuardInv'
      BY <2>2, <3>1, GuardReleased DEF ExecInv, Leaving, Using
    <3> QED BY <2>3, <2>4, <3>1, <3>2, <3>3 DEF Leaving
  <2>6. CASE Failing(t, "COMMAND_OUTPUT_UNPARSABLE")
    <3>1. ExecOK(t)'
      BY <2>6 DEF ExecOK, Failing
    <3>2. GuardInv'
      BY <2>2, <2>6, GuardReleased DEF ExecInv, Failing, Using
    <3> QED BY <2>3, <2>4, <2>6, <3>1, <3>2 DEF Failing
  <2>7. /\ exec[t].main = tasks[t].main /\ exec[t].save = tasks[t].save
        /\ exec[t].status \in Ended /\ ~tasks[t].snap.dry /\ tasks[t].snap.device \in DevIds
        /\ tasks[t].snap.class # "QUERY" => Detected(exec[t].row)
    BY <1>1 DEF ExecInv, ExecOK, Using
  <2>8. ASSUME exec'[t].pc \in Using, exec'[t].row = exec[t].row, exec'[t].main = exec[t].main,
               exec'[t].save = exec[t].save, exec'[t].status = exec[t].status
        PROVE  ExecOK(t)'
    BY <1>1, <2>7, <2>8 DEF ExecOK, Detected, Using
  <2> DEFINE r == Len(exec[t].records)
             m == Len(exec[t].main.commands)
             v == Len(exec[t].save.commands)
  <2>9. r \in Nat
    BY <1>1, SequenceDomain DEF ExecInv, SentOK, Using
  <2>10. /\ exec[t].pc = "main" => n = r
         /\ exec[t].pc = "save" => exec[t].save # NoPlan /\ n = m + r
    BY DEF ExecInv, SentOK
  <2>11. m \in Nat /\ (exec[t].save # NoPlan => v \in Nat /\ 0 < v)
    <3>1. Planned(tasks[t].main, tasks[t].save, tasks[t].snap)
      BY <2>1 DEF TaskInv, TaskOK
    <3> QED BY <2>7, <3>1, ApprovedPlans
  <2>12. CASE /\ ExecutionOf(t) /\ guard' = guard /\ exec'[t].pc = exec[t].pc
              /\ exec'[t].row = exec[t].row /\ exec'[t].main = exec[t].main
              /\ exec'[t].save = exec[t].save /\ exec'[t].status = exec[t].status
              /\ IsSequence(exec'[t].records) /\ Len(exec'[t].records) = r + 1
              /\ Len(exec'[t].records) < Len(SendPlan(t).commands)
    <3>1. GuardInv'
      BY <2>2, <2>12, GuardSame DEF ExecInv
    <3>2. exec[t].pc = "main" => Len(sent'[t]) = r + 1 /\ r + 1 < m
      BY <2>1, <2>10, <2>12 DEF SendPlan
    <3>3. exec[t].pc = "save" => /\ exec[t].save # NoPlan /\ r + 1 < v
                                 /\ Len(sent'[t]) = m + (r + 1)
      <4> SUFFICES ASSUME exec[t].pc = "save"
                   PROVE  exec[t].save # NoPlan /\ r + 1 < v /\ Len(sent'[t]) = m + (r + 1)
        OBVIOUS
      <4>1. exec[t].save # NoPlan /\ r + 1 < v
        BY <2>10, <2>12 DEF SendPlan
      <4>2. Len(sent'[t]) = (m + r) + 1
        BY <2>1, <2>10
      <4>3. (m + r) + 1 = m + (r + 1)
        <5> HIDE DEF m, r
        <5> QED BY <2>9, <2>11
      <4> QED BY <4>1, <4>2, <4>3
    <3>4. SentOK(t)'
      <4> HIDE DEF n
      <4>1. Len(exec'[t].main.commands) = m /\ Len(exec'[t].save.commands) = v
        BY <2>12
      <4> HIDE DEF m, v, r
      <4> QED BY <1>1, <2>1, <2>12, <3>2, <3>3, <4>1 DEF SentOK, Using
    <3> QED BY <1>1, <2>3, <2>8, <2>12, <3>1, <3>4
  <2>13. CASE /\ ExecutionOf(t) /\ guard' = guard /\ exec[t].pc = "main" /\ exec'[t].pc = "save"
              /\ exec'[t].row = exec[t].row /\ exec'[t].main = exec[t].main
              /\ exec'[t].save = exec[t].save /\ exec'[t].status = exec[t].status
              /\ exec[t].save # NoPlan /\ exec'[t].records = <<>>
              /\ r + 1 = Len(SendPlan(t).commands)
    <3>1. GuardInv'
      BY <1>1, <2>2, <2>13, GuardSame DEF ExecInv, Using
    <3>2. Len(sent'[t]) = m + 0
      <4>1. r + 1 = m
        BY <2>13 DEF SendPlan
      <4>2. Len(sent'[t]) = m
        BY <2>1, <2>10, <2>13, <4>1
      <4> HIDE DEF m
      <4> QED BY <2>11, <4>2
    <3>3. IsSequence(exec'[t].records) /\ Len(exec'[t].records) = 0
      BY <2>13, EmptySequence
    <3>4. SentOK(t)'
      <4>1. Len(exec'[t].main.commands) = m /\ Len(exec'[t].save.commands) = v
        BY <2>13
      <4>2. exec'[t].save # NoPlan /\ 0 < v
        BY <2>11, <2>13
      <4> HIDE DEF n, m, v, r
      <4> QED BY <1>1, <2>1, <2>13, <3>2, <3>3, <4>1, <4>2 DEF SentOK
    <3>5. exec'[t].pc \in Using
      BY <2>13 DEF Using
    <3> QED BY <2>3, <2>8, <2>13, <3>1, <3>4, <3>5
  <2> QED BY <1>3, <2>5, <2>6, <2>12, <2>13 DEF SendLeads
<1> QED BY <1>2, <1>3, SendEffect

\* The audit of a result.
LEMMA AuditResultKeepsExec ==
  ASSUME TaskInv, TaskInv', ExecInv, NEW t \in Clients, AuditResult(t), observed' = observed
  PROVE  ExecInv'
<1>1. UNCHANGED <<tasks, sent, guard>>
  BY DEF AuditResult
<1>2. /\ exec[t].pc = "audit" /\ ExecutionOf(t) /\ exec'[t].pc = "finalize"
      /\ exec'[t].status \in {exec[t].status, UnauditedStatus(t)}
  BY AuditResultEffect DEF TaskInv
<1>3. exec[t].status \in Ended
  BY <1>2 DEF ExecInv, ExecOK
<1>4. exec'[t].status \in Ended
  BY <1>2, <1>3 DEF UnauditedStatus, Ended
<1>5. ExecOK(t)'
  BY <1>2, <1>4 DEF ExecOK
<1> QED BY <1>1, <1>2, <1>5, QuietStepKeepsExec DEF Using

\* The audit of an error.
LEMMA AuditFailureKeepsExec ==
  ASSUME TaskInv, TaskInv', ExecInv, NEW t \in Clients, AuditFailure(t), observed' = observed
  PROVE  ExecInv'
<1>1. UNCHANGED <<tasks, sent, guard>>
  BY DEF AuditFailure
<1>2. /\ exec[t].pc = "auditFailure" /\ ExecutionOf(t) /\ exec'[t].pc = "finalize"
      /\ exec'[t].status = exec[t].status
  BY AuditFailureEffect DEF TaskInv, SameExecution
<1>3. exec[t].status = ""
  BY <1>2 DEF ExecInv, ExecOK
<1>4. ExecOK(t)'
  BY <1>2, <1>3 DEF ExecOK
<1> QED BY <1>1, <1>2, <1>4, QuietStepKeepsExec DEF Using

\* What is said of an idle execution.
LEMMA IdleExecOK ==
  ASSUME NEW t, exec'[t] = Idle
  PROVE  ExecOK(t)'
BY IdleFields DEF ExecOK

\* The final write.
LEMMA FinalizeKeepsExec ==
  ASSUME TaskInv, TaskInv', ExecInv, NEW t \in Clients, Finalize(t), observed' = observed
  PROVE  ExecInv'
<1>1. /\ exec[t].pc = "finalize" /\ ExecutionOf(t) /\ exec'[t] = Idle
      /\ \A u \in Clients : u # t => tasks'[u] = tasks[u]
      /\ tasks'[t].status = FinalStatus(t)
      /\ tasks'[t].actor = tasks[t].actor /\ tasks'[t].key = tasks[t].key
      /\ tasks'[t].snap = tasks[t].snap
      /\ tasks'[t].main = tasks[t].main /\ tasks'[t].save = tasks[t].save
  BY FinalizeEffect DEF TaskInv
<1>2. sent' = sent /\ guard' = guard
  BY DEF Finalize
<1>3. FinalStatus(t) \in Terminal
  BY <1>1, FinalStatusSet DEF ExecInv, ExecOK
<1>4. FinalStatus(t) \notin Waiting
  BY <1>3 DEF Waiting, Terminal
<1>5. tasks[t].status = "RUNNING"
  BY <1>1 DEF TaskInv
<1>6. Keeps(t) /\ SentOK(t)
  BY <1>1, <1>4, <1>5 DEF Keeps, Waiting, ExecInv
<1>7. exec'[t].pc = "idle" /\ exec'[t].records = <<>>
  BY <1>1, IdleFields
<1>8. ExecOK(t)'
  BY <1>1, IdleExecOK
<1>9. SentOK(t)'
  BY <1>1, <1>2, <1>4, <1>6, <1>7, SentIdle DEF Using
<1>10. \A u \in Clients : tasks'[u].snap = tasks[u].snap
  BY <1>1
<1>11. GuardInv'
  BY <1>1, <1>2, <1>7, <1>10, GuardSame DEF ExecInv, Using
<1>12. Cardinality(Running') <= Workers
  BY <1>1, RunningShrinks DEF ExecInv, ExecutionOf
<1> QED BY <1>1, <1>2, <1>8, <1>9, <1>11, <1>12, ExecutionKeepsExec DEF ExecInv

\* Every step of the executor.
LEMMA ExecuteStepKeepsExec ==
  ASSUME InventoryInv, TaskInv, TaskInv', ExecInv, NEW t \in Clients, ExecuteStep(t),
         observed' = observed
  PROVE  ExecInv'
BY ClaimKeepsExec, ReloadKeepsExec, ExecutePrepareKeepsExec, AcquireKeepsExec, SendKeepsExec,
   AuditResultKeepsExec, AuditFailureKeepsExec, FinalizeKeepsExec DEF ExecuteStep

\* The process is gone, and every execution with it.
LEMMA VanishKeepsExec ==
  ASSUME TaskInv, TaskInv', ExecInv, Vanish
  PROVE  ExecInv'
<1>1. /\ tasks' = tasks /\ sent' = sent /\ guard' = [d \in DevIds |-> 0]
      /\ exec' = [t \in Clients |-> Idle]
  BY DEF Vanish
<1>2. \A t \in Clients : exec'[t] = Idle /\ exec'[t].pc = "idle" /\ exec'[t].records = <<>>
  BY <1>1, IdleFields
<1>3. \A t \in Clients : ExecOK(t)'
  BY <1>2, IdleExecOK
<1>4. \A t \in Clients : SentOK(t)'
  <2> SUFFICES ASSUME NEW t \in Clients PROVE SentOK(t)'
    OBVIOUS
  <2>1. Keeps(t) /\ SentOK(t)
    BY <1>1 DEF Keeps, ExecInv
  <2> QED BY <1>1, <1>2, <2>1, SentIdle DEF Using
<1>5. GuardInv'
  BY <1>1, <1>2 DEF GuardInv
<1>6. Cardinality(Running') <= Workers
  BY <1>2, RunningShrinks DEF ExecInv
<1> QED BY <1>1, <1>3, <1>4, <1>5, <1>6 DEF ExecInv

\* At first nothing is executed.
LEMMA InitExecInv ==
  ASSUME Init
  PROVE  ExecInv
<1>1. /\ tasks = [t \in Clients |-> NoTask] /\ exec = [t \in Clients |-> Idle]
      /\ guard = [d \in DevIds |-> 0] /\ sent = [t \in Clients |-> <<>>]
  BY DEF Init
<1>2. \A t \in Clients : /\ exec[t].pc = "idle" /\ exec[t].records = <<>> /\ exec[t].status = ""
                         /\ tasks[t].status = "none" /\ sent[t] = <<>>
  BY <1>1, IdleFields DEF NoTask
<1>3. \A t \in Clients : ExecOK(t)
  BY <1>2 DEF ExecOK
<1>4. \A t \in Clients : SentOK(t)
  BY <1>2, EmptySequence DEF SentOK
<1>5. GuardInv
  BY <1>1, <1>2 DEF GuardInv
<1>6. Running = {}
  BY <1>2 DEF Running
<1>7. Cardinality(Running) <= Workers
  BY <1>6, FS_EmptySet, BoundsAssumption
<1> QED BY <1>1, <1>3, <1>4, <1>5, <1>7 DEF ExecInv

\* Every step keeps what is said of the executions.
LEMMA ExecInvStep ==
  ASSUME InventoryInv, TaskInv, TaskInv', ExecInv, [Next]_vars
  PROVE  ExecInv'
<1>1. ASSUME NEW c \in Clients, InventoryStep(c), UNCHANGED operationVars
      PROVE  ExecInv'
  <2>1. UNCHANGED <<exec, guard, sent, tasks>>
    BY <1>1 DEF operationVars
  <2>2. \A t \in Clients : TaskMoves(t)
    BY <2>1, SameTaskMoves
  <2> QED BY <1>1, <2>1, <2>2, ObservedGrows, ExecInvKept
<1>2. ASSUME NEW c \in Clients, SubmitStep(c), UNCHANGED inventoryVars, UNCHANGED <<req, app, recoverable>>,
             app # "down"
      PROVE  ExecInv'
  <2>1. observed' = observed
    BY <1>2 DEF inventoryVars
  <2> QED BY <1>2, <2>1, SubmitTaskMoves, ExecInvKept
<1>3. ASSUME NEW t \in Clients, ExecuteStep(t), UNCHANGED inventoryVars
      PROVE  ExecInv'
  BY <1>3, ExecuteStepKeepsExec DEF inventoryVars
<1>4. ASSUME Crash \/ Stopped PROVE ExecInv'
  BY <1>4, VanishKeepsExec DEF Crash, Stopped
<1>5. ASSUME UNCHANGED <<inventoryVars, operationVars>> PROVE ExecInv'
  <2>1. UNCHANGED <<exec, guard, sent, tasks, observed>>
    BY <1>5 DEF operationVars, inventoryVars
  <2>2. \A t \in Clients : TaskMoves(t)
    BY <2>1, SameTaskMoves
  <2> QED BY <2>1, <2>2, ExecInvKept
<1>6. ASSUME Restart PROVE ExecInv'
  <2>1. UNCHANGED <<exec, guard, sent, tasks, observed>>
    BY <1>6 DEF Restart, operationVars
  <2>2. \A t \in Clients : TaskMoves(t)
    BY <2>1, SameTaskMoves
  <2> QED BY <2>1, <2>2, ExecInvKept
<1>7. ASSUME RecoverList, UNCHANGED inventoryVars PROVE ExecInv'
  <2>1. UNCHANGED <<exec, guard, sent, observed>>
    BY <1>7 DEF RecoverList, inventoryVars
  <2>2. \A t \in Clients : TaskMoves(t)
    BY <1>7, RecoverListEffect DEF TaskMoves, Waiting
  <2> QED BY <2>1, <2>2, ExecInvKept
<1>8. ASSUME NEW t \in Clients, RecoverQueue(t), UNCHANGED inventoryVars PROVE ExecInv'
  <2>1. UNCHANGED <<exec, guard, sent, observed>>
    BY <1>8 DEF RecoverQueue, inventoryVars
  <2>2. CASE QueuePending(t)
    <3>1. \A u \in Clients : TaskMoves(u)
      BY <2>2, QueuePendingEffect, SameTaskMoves DEF TaskMoves, Waiting
    <3> QED BY <2>1, <3>1, ExecInvKept
  <2>3. CASE tasks' = tasks
    <3>1. \A u \in Clients : TaskMoves(u)
      BY <2>3, SameTaskMoves
    <3> QED BY <2>1, <3>1, ExecInvKept
  <2> QED BY <1>8, <2>2, <2>3 DEF RecoverQueue
<1>9. UNCHANGED vars => UNCHANGED <<inventoryVars, operationVars>>
  BY DEF vars
<1> QED BY <1>1, <1>2, <1>3, <1>4, <1>5, <1>6, <1>7, <1>8, <1>9 DEF Next, Stop, Quiet

-----------------------------------------------------------------------------
(* The audit records.                                                      *)

\* A failure counts.
LEMMA FaultCounts ==
  ASSUME faults \in 0..MaxFaults, UNCHANGED faults \/ Fault
  PROVE  faults' \in 0..MaxFaults /\ (faults' = 0 => faults = 0 /\ faults' = faults)
BY BoundsAssumption DEF Fault

\* A step that concerns one task.
AuditFrame(t) ==
    /\ DOMAIN audits' = Clients /\ DOMAIN auditWrites' = Clients
    /\ \A u \in Clients : u # t =>
         /\ tasks'[u] = tasks[u] /\ exec'[u] = exec[u]
         /\ pc'[u] = pc[u] /\ answer'[u] = answer[u]
         /\ audits'[u] = audits[u] /\ auditWrites'[u] = auditWrites[u]
    /\ app' = app
    /\ UNCHANGED faults \/ Fault

\* What is to be shown of it.
LEMMA AuditStep ==
  ASSUME AuditInv, NEW t \in Clients, AuditFrame(t), AuditOK(t)',
         faults' = faults /\ app \notin {"stopping", "down"} /\ CalmOK(t) => CalmOK(t)'
  PROVE  AuditInv'
<1>1. faults' \in 0..MaxFaults /\ (faults' = 0 => faults = 0 /\ faults' = faults)
  BY FaultCounts DEF AuditInv, AuditFrame
<1>2. \A u \in Clients : AuditOK(u)'
  BY DEF AuditInv, AuditFrame, AuditOK
<1>3. ASSUME faults' = 0 PROVE app' \notin {"stopping", "down"} /\ \A u \in Clients : CalmOK(u)'
  <2>1. app \notin {"stopping", "down"} /\ faults' = faults /\ \A u \in Clients : CalmOK(u)
    BY <1>1, <1>3 DEF AuditInv
  <2>2. ASSUME NEW u \in Clients, u # t PROVE CalmOK(u)'
    <3>1. /\ tasks'[u] = tasks[u] /\ exec'[u] = exec[u] /\ pc'[u] = pc[u] /\ audits'[u] = audits[u]
          /\ answer'[u] = answer[u] /\ app' = app
      BY <2>2 DEF AuditFrame
    <3> QED BY <2>1, <3>1 DEF CalmOK
  <2> QED BY <2>1, <2>2 DEF AuditFrame
<1> QED BY <1>1, <1>2, <1>3 DEF AuditInv, AuditFrame

\* A client is not told here that its task is queued.
NotQueued(c) ==
    /\ \A b \in Clients : b # c => answer'[b] = answer[b]
    /\ answer'[c].task = c => answer[c].task = c

\* An answer that names no task, and none at all.
LEMMA AnswerNotQueued ==
  ASSUME TaskInv, NEW c \in Clients,
         (\E code : Answer(c, code)) \/ (\E next, value : Continue(c, next, value))
  PROVE  NotQueued(c)
<1>1. ASSUME NEW code, Answer(c, code) PROVE NotQueued(c)
  BY <1>1 DEF Answer, NotQueued, TaskInv, TaskShape, AnswerFields
<1>2. ASSUME NEW next, NEW value, Continue(c, next, value) PROVE NotQueued(c)
  BY <1>2 DEF Continue, NotQueued
<1> QED BY <1>1, <1>2

\* A replay answers with the task of another client.
LEMMA ReplayNotQueued ==
  ASSUME TaskInv, NEW c \in Clients, tasks[c].status = "none", NEW t \in Found(c), replay(c, t)
  PROVE  NotQueued(c)
<1>1. t \in Clients /\ t # c
  BY DEF Found
<1>2. CASE Answer(c, "IDEMPOTENCY_CONFLICT")
  BY <1>2, AnswerNotQueued
<1>3. CASE Respond(c, t) \/ Wait(c, t)
  BY <1>1, <1>3 DEF Respond, Wait, NotQueued, TaskInv, TaskShape, AnswerFields
<1> QED BY <1>2, <1>3 DEF replay

\* audits.Complete.
LEMMA CompleteEffect ==
  ASSUME DOMAIN audits = Clients, DOMAIN auditWrites = Clients, NEW t \in Clients, NEW status,
         CompleteAudit(t, status)
  PROVE  /\ DOMAIN audits' = Clients /\ DOMAIN auditWrites' = Clients
         /\ \A u \in Clients : u # t => audits'[u] = audits[u] /\ auditWrites'[u] = auditWrites[u]
         /\ audits'[t] = IF audits[t] = "none" THEN "none" ELSE status
         /\ \A s \in auditWrites[t] : s \in auditWrites'[t]
         /\ audits[t] # "none" => status \in auditWrites'[t]
BY DEF CompleteAudit

\* A client moves on, and no task and no audit record changes.
LEMMA ClientKeepsAudit ==
  ASSUME AuditInv, Requests, NEW c \in Clients, NEW to, Moves(c, to), NotQueued(c),
         to \notin {"createAudit", "queue"}, to \in Unsettled => pc[c] \in Unsettled,
         to \in {"cancel", "cancelAudit"} /\ CalmOK(c) => app = "up" \/ Fault,
         UNCHANGED <<tasks, exec, audits, auditWrites, app>>, UNCHANGED faults \/ Fault
  PROVE  AuditInv'
<1>1. pc'[c] = to /\ \A b \in Clients : b # c => pc'[b] = pc[b]
  BY DEF Moves, Requests
<1>2. AuditFrame(c)
  BY <1>1 DEF AuditFrame, AuditInv, NotQueued
<1>3. AuditOK(c)'
  BY DEF AuditInv, AuditOK
<1>4. Fault => faults' # faults
  BY BoundsAssumption DEF Fault, AuditInv
<1>5. faults' = faults /\ CalmOK(c) => CalmOK(c)'
  BY <1>1, <1>4 DEF CalmOK, NotQueued
<1> QED BY <1>2, <1>3, <1>5, AuditStep

\* A request of the inventory concerns no audit record of an operation.
LEMMA InventoryStepKeepsAudit ==
  ASSUME TaskInv, AuditInv, Requests, NEW c \in Clients, InventoryStep(c),
         UNCHANGED operationVars, UNCHANGED <<app, faults>>
  PROVE  AuditInv'
<1>1. UNCHANGED <<tasks, exec, audits, auditWrites, app>>
  BY DEF operationVars
<1>2. NotQueued(c) /\ \E to \in HoldsDevice \cup {"writeCredential", "done"} : Moves(c, to)
  <2>1. CASE \E code : Answer(c, code)
    BY <2>1, AnswerNotQueued DEF Answer, Moves, Requests
  <2>2. CASE \E next \in HoldsDevice \cup {"writeCredential"} : \E value : Continue(c, next, value)
    BY <2>2, AnswerNotQueued DEF Continue, Moves, Requests
  <2> QED BY <2>1, <2>2, InventoryMoves
<1>3. PICK to \in HoldsDevice \cup {"writeCredential", "done"} : Moves(c, to)
  BY <1>2
<1>4. to \notin Unsettled
  BY DEF HoldsDevice, Unsettled
<1>5. to \notin {"createAudit", "queue", "cancel", "cancelAudit"}
  BY <1>4 DEF Unsettled
<1> QED BY <1>1, <1>2, <1>3, <1>4, <1>5, ClientKeepsAudit

\* A failed step is not calm.
LEMMA NotCalm ==
  ASSUME AuditInv, Fault
  PROVE  faults' # faults
BY BoundsAssumption DEF Fault, AuditInv

\* The task is created, for a change with its audit record.
LEMMA InsertKeepsAudit ==
  ASSUME TaskInv, InventoryInv, AuditInv, NEW c \in Clients, pc[c] = "create", Insert(c),
         UNCHANGED <<exec, auditWrites, app>>, UNCHANGED faults \/ Fault, NEW to, Moves(c, to),
         to = (IF Class(req[c].op) = "QUERY" THEN "createAudit" ELSE "queue") \/ Fault,
         NotQueued(c)
  PROVE  AuditInv'
<1>1. DOMAIN tasks = Clients /\ DOMAIN audits = Clients
  BY DEF TaskInv, TaskShape, AuditInv
<1> DEFINE task == NewTask(c)
           query == Class(req[c].op) = "QUERY"
<1>2. task.status = "PENDING" /\ task.cancel = FALSE /\ task.snap.class = Class(req[c].op)
  <2>1. snapshotRequest(req[c]).class = Class(req[c].op)
    BY DEF snapshotRequest
  <2>2. task.status = "PENDING" /\ task.cancel = FALSE /\ task.snap = snapshotRequest(req[c])
    BY NewTaskFields
  <2> QED BY <2>1, <2>2
<1>3. tasks' = [tasks EXCEPT ![c] = task]
  BY DEF Insert
<1> HIDE DEF task
<1>4. tasks'[c] = task /\ \A u \in Clients : u # c => tasks'[u] = tasks[u]
  BY <1>1, <1>3
<1>5. /\ audits'[c] = IF query THEN audits[c] ELSE "PENDING"
      /\ DOMAIN audits' = Clients /\ \A u \in Clients : u # c => audits'[u] = audits[u]
  BY <1>1 DEF Insert
<1>6. pc'[c] = to /\ \A b \in Clients : b # c => pc'[b] = pc[b]
  BY DEF Moves, Requests, InventoryInv
<1>7. exec[c].pc = "idle"
  BY DEF TaskInv, SubmissionOK
<1>8. AuditFrame(c)
  BY <1>4, <1>5, <1>6 DEF AuditFrame, AuditInv, NotQueued
<1>9. AuditOK(c)'
  BY <1>2, <1>4, <1>5, <1>7 DEF AuditOK, AuditInv, Terminal
<1>10. faults' = faults /\ CalmOK(c) => CalmOK(c)'
  <2> SUFFICES ASSUME faults' = faults, CalmOK(c) PROVE CalmOK(c)'
    OBVIOUS
  <2>1. to = IF query THEN "createAudit" ELSE "queue"
    BY NotCalm
  <2>2. answer'[c].task # c
    BY DEF CalmOK, Unsettled, NotQueued
  <2> QED BY <1>2, <1>4, <1>5, <1>6, <2>1, <2>2 DEF CalmOK, Waiting
<1> QED BY <1>8, <1>9, <1>10, AuditStep

\* Submit creates the task.
LEMMA CreateKeepsAudit ==
  ASSUME TaskInv, InventoryInv, AuditInv, NEW c \in Clients, Create(c) \/ CreateFails(c), app' = app
  PROVE  AuditInv'
<1>1. /\ pc[c] = "create" /\ Requests /\ UNCHANGED <<exec, auditWrites>>
      /\ tasks[c].status = "none"
  BY DEF Create, CreateFails, InventoryInv, TaskInv, SubmissionOK
<1>2. CASE /\ UNCHANGED <<tasks, audits>>
           /\ UNCHANGED faults \/ Fault
           /\ NotQueued(c) /\ \E to \in {"done", "wait"} : Moves(c, to)
  <2>1. PICK to \in {"done", "wait"} : Moves(c, to)
    BY <1>2
  <2>2. to \notin {"createAudit", "queue", "cancel", "cancelAudit"} /\ to \notin Unsettled
    BY DEF Unsettled
  <2> QED BY <1>1, <1>2, <2>1, <2>2, ClientKeepsAudit
<1>3. CASE /\ Insert(c) /\ UNCHANGED faults /\ NotQueued(c)
           /\ Moves(c, IF Class(req[c].op) = "QUERY" THEN "createAudit" ELSE "queue")
  BY <1>1, <1>3, InsertKeepsAudit
<1>4. CASE Insert(c) /\ Fault /\ NotQueued(c) /\ Moves(c, "done")
  BY <1>1, <1>4, InsertKeepsAudit
<1>5. ASSUME NEW t \in Found(c), replay(c, t)
      PROVE  NotQueued(c) /\ \E to \in {"done", "wait"} : Moves(c, to)
  <2>1. NotQueued(c)
    BY <1>1, <1>5, ReplayNotQueued
  <2> QED BY <1>1, <1>5, <2>1 DEF replay, Answer, Respond, Wait, Moves, Requests
<1>6. ASSUME NEW code, Answer(c, code) PROVE NotQueued(c) /\ Moves(c, "done")
  BY <1>1, <1>6, AnswerNotQueued DEF Answer, Moves, Requests
<1>7. ASSUME NEW next, Continue(c, next, row[c]) PROVE NotQueued(c) /\ Moves(c, next)
  BY <1>1, <1>7, AnswerNotQueued DEF Continue, Moves, Requests
<1>8. CASE Create(c)
  BY <1>2, <1>3, <1>5, <1>7, <1>8 DEF Create
<1>9. CASE CreateFails(c)
  <2>1. NotQueued(c) /\ Moves(c, "done") /\ Fault
    BY <1>6, <1>9 DEF CreateFails
  <2> QED BY <1>2, <1>4, <1>9, <2>1 DEF CreateFails
<1> QED BY <1>8, <1>9

\* A query's audit record.
LEMMA QueryAuditKeepsAudit ==
  ASSUME TaskInv, InventoryInv, AuditInv, NEW c \in Clients, CreateQueryAudit(c), app' = app
  PROVE  AuditInv'
<1>1. /\ pc[c] = "createAudit" /\ UNCHANGED <<tasks, exec, auditWrites>>
      /\ UNCHANGED faults \/ Fault
      /\ \E value : Continue(c, "queue", value)
      /\ audits' = audits \/ audits' = [audits EXCEPT ![c] = "PENDING"]
      /\ audits' = [audits EXCEPT ![c] = "PENDING"] \/ Fault
  BY DEF CreateQueryAudit
<1>2. pc'[c] = "queue" /\ \A b \in Clients : b # c => pc'[b] = pc[b]
  BY <1>1 DEF Continue, InventoryInv, Requests
<1>3. /\ DOMAIN audits' = Clients /\ audits'[c] \in {audits[c], "PENDING"}
      /\ \A b \in Clients : b # c => audits'[b] = audits[b]
      /\ audits'[c] = "PENDING" \/ Fault
  BY <1>1 DEF AuditInv
<1>4. answer' = answer
  BY <1>1 DEF Continue
<1>5. AuditFrame(c)
  BY <1>1, <1>2, <1>3, <1>4 DEF AuditFrame, AuditInv
<1>6. AuditOK(c)'
  BY <1>1, <1>3 DEF AuditOK, AuditInv
<1>7. faults' = faults /\ CalmOK(c) => CalmOK(c)'
  <2> SUFFICES ASSUME faults' = faults, CalmOK(c) PROVE CalmOK(c)'
    OBVIOUS
  <2>1. audits'[c] = "PENDING"
    BY <1>3, NotCalm
  <2>2. answer[c].task # c
    BY <1>1 DEF CalmOK, Unsettled
  <2> QED BY <1>1, <1>2, <1>4, <2>1, <2>2 DEF CalmOK
<1> QED BY <1>5, <1>6, <1>7, AuditStep

\* Submit puts the task into the queue, or tries to.
LEMMA QueueKeepsAudit ==
  ASSUME TaskInv, InventoryInv, AuditInv, NEW c \in Clients, Queue(c) \/ QueueFails(c),
         UNCHANGED <<req, app, recoverable>>, app # "down"
  PROVE  AuditInv'
<1>1. /\ pc[c] = "queue" /\ UNCHANGED <<exec, audits, auditWrites>>
      /\ UNCHANGED faults \/ Fault
      /\ QueuePending(c) \/ (tasks' = tasks /\ Fault)
  BY DEF Queue, QueueFails
<1>2. /\ \A b \in Clients : b # c => pc'[b] = pc[b] /\ answer'[b] = answer[b]
      /\ pc'[c] \in {"done", "wait"} \/ Fault
  BY DEF Queue, QueueFails, CleanUp, Continue, Wait, InventoryInv, Requests, TaskInv, TaskShape
<1>3. /\ \A u \in Clients : u # c => tasks'[u] = tasks[u]
      /\ tasks'[c].snap = tasks[c].snap /\ tasks'[c].cancel = tasks[c].cancel
      /\ tasks'[c].status = tasks[c].status \/ tasks'[c].status = "QUEUED"
      /\ tasks'[c].status = "none" <=> tasks[c].status = "none"
      /\ (tasks'[c].status = "QUEUED" /\ exec[c].pc = "idle") \/ Fault
  <2>1. CASE tasks' = tasks /\ Fault
    BY <2>1
  <2>2. CASE QueuePending(c)
    <3>1. /\ \A u \in Clients : u # c => tasks'[u] = tasks[u]
          /\ Keeps(c) /\ tasks[c].status \in {"PENDING", "QUEUED"} /\ tasks'[c].status = "QUEUED"
          /\ tasks'[c].cancel = tasks[c].cancel
      BY <2>2, QueuePendingEffect
    <3>2. exec[c].pc = "idle"
      BY <3>1 DEF TaskInv
    <3> QED BY <3>1, <3>2 DEF Keeps
  <2> QED BY <1>1, <2>1, <2>2
<1>4. AuditFrame(c)
  BY <1>1, <1>2, <1>3 DEF AuditFrame, AuditInv
<1>5. AuditOK(c)'
  BY <1>1, <1>3 DEF AuditOK, AuditInv
<1>6. faults' = faults /\ CalmOK(c) => CalmOK(c)'
  <2> SUFFICES ASSUME faults' = faults, CalmOK(c) PROVE CalmOK(c)'
    OBVIOUS
  <2>1. pc'[c] \in {"done", "wait"} /\ tasks'[c].status = "QUEUED" /\ exec[c].pc = "idle"
    BY <1>2, <1>3, NotCalm
  <2>2. ~tasks'[c].cancel /\ audits'[c] # "none" /\ ~exec'[c].cancelled
    BY <1>1, <1>3, <2>1 DEF CalmOK, AuditInv, AuditOK
  <2>3. pc'[c] \notin Unsettled /\ tasks'[c].status \in Waiting /\ tasks'[c].status \notin Terminal
    BY <2>1 DEF Unsettled, Waiting, Terminal
  <2> QED BY <1>1, <2>1, <2>2, <2>3 DEF CalmOK, Unsettled
<1> QED BY <1>4, <1>5, <1>6, AuditStep

\* Queue finds the task claimed: there are workers.
LEMMA QueueConflictKeepsAudit ==
  ASSUME TaskInv, InventoryInv, AuditInv, NEW c \in Clients, QueueConflict(c), app' = app
  PROVE  AuditInv'
<1>1. /\ pc[c] = "queue" /\ tasks[c].status \notin {"PENDING", "QUEUED"} /\ Requests
      /\ UNCHANGED <<tasks, exec, audits, auditWrites, faults>>
      /\ \E value : Continue(c, "cancel", value)
  BY DEF QueueConflict, Queueable, CleanUp, operationVars, InventoryInv
<1>2. NotQueued(c) /\ Moves(c, "cancel")
  BY <1>1, AnswerNotQueued DEF Continue, Moves, Requests
<1>3. CalmOK(c) => app = "up"
  BY <1>1 DEF CalmOK, Waiting, TaskInv, SubmissionOK
<1>4. "cancel" \in Unsettled /\ "queue" \in Unsettled
  BY DEF Unsettled
<1> QED BY <1>1, <1>2, <1>3, <1>4, ClientKeepsAudit

\* The clean-up after a failed Queue.
LEMMA CleanUpKeepsAudit ==
  ASSUME TaskInv, InventoryInv, AuditInv, NEW c \in Clients, CleanUpTask(c) \/ CleanUpAudit(c),
         app' = app
  PROVE  AuditInv'
<1>1. /\ pc[c] \in {"cancel", "cancelAudit"} /\ exec' = exec
      /\ UNCHANGED faults \/ Fault
  BY DEF CleanUpTask, CleanUpAudit, CleanUpFails
<1>2. /\ NotQueued(c) /\ pc'[c] \in {"cancelAudit", "done"}
      /\ \A b \in Clients : b # c => pc'[b] = pc[b]
  <2>1. NotQueued(c)
    BY AnswerNotQueued DEF CleanUpTask, CleanUpAudit
  <2> QED BY <2>1 DEF CleanUpTask, CleanUpAudit, Continue, Answer, InventoryInv, Requests
<1>3. CalmOK(c) => CalmOK(c)' \/ app' # app
  <2>1. CalmOK(c) => app = "up" /\ answer'[c].task # c
    BY <1>1, <1>2 DEF CalmOK, Unsettled, NotQueued
  <2> QED BY <1>2, <2>1 DEF CalmOK
<1>4. CASE CleanUpTask(c)
  <2>1. UNCHANGED <<audits, auditWrites>>
    BY <1>4 DEF CleanUpTask
  <2>2. DOMAIN tasks[c] = TaskFields /\ DOMAIN tasks = Clients
    BY DEF TaskInv, TaskShape
  <2>3. /\ \A u \in Clients : u # c => tasks'[u] = tasks[u]
        /\ tasks'[c].snap = tasks[c].snap
        /\ \/ tasks'[c].status = tasks[c].status
           \/ tasks[c].status \in {"PENDING", "QUEUED"} /\ tasks'[c].status = "CANCELLED"
    <3>1. CASE tasks' = tasks
      BY <3>1
    <3>2. CASE tasks' = [tasks EXCEPT ![c] = RequestCancel(@)]
      <4> DEFINE task == RequestCancel(tasks[c])
      <4>1. tasks' = [tasks EXCEPT ![c] = task]
        BY <3>2
      <4>2. /\ task.snap = tasks[c].snap
            /\ \/ task.status = tasks[c].status
               \/ tasks[c].status \in {"PENDING", "QUEUED"} /\ task.status = "CANCELLED"
        BY <2>2, RequestCancelFields
      <4> HIDE DEF task
      <4> QED BY <2>2, <4>1, <4>2
    <3> QED BY <1>4, <3>1, <3>2 DEF CleanUpTask
  <2>4. AuditFrame(c)
    BY <1>1, <1>2, <2>1, <2>3 DEF AuditFrame, AuditInv, NotQueued
  <2>5. AuditOK(c)'
    BY <1>1, <2>1, <2>3 DEF AuditOK, AuditInv
  <2> QED BY <1>3, <2>4, <2>5, AuditStep
<1>5. CASE CleanUpAudit(c)
  <2>1. UNCHANGED tasks
    BY <1>5 DEF CleanUpAudit
  <2>2. /\ DOMAIN audits' = Clients /\ DOMAIN auditWrites' = Clients
        /\ \A u \in Clients : u # c => audits'[u] = audits[u] /\ auditWrites'[u] = auditWrites[u]
        /\ audits'[c] = audits[c] \/ (audits[c] # "none" /\ audits'[c] = "CANCELLED")
        /\ \A s \in auditWrites[c] : s \in auditWrites'[c]
    <3>1. CASE UNCHANGED <<audits, auditWrites>>
      BY <3>1 DEF AuditInv
    <3>2. CASE CompleteAudit(c, "CANCELLED")
      BY <3>2, CompleteEffect DEF AuditInv
    <3> QED BY <1>5, <3>1, <3>2 DEF CleanUpAudit
  <2>3. AuditFrame(c)
    BY <1>1, <1>2, <2>1, <2>2 DEF AuditFrame, NotQueued
  <2>4. AuditOK(c)'
    BY <1>1, <2>1, <2>2 DEF AuditOK, AuditInv, Terminal
  <2> QED BY <1>3, <2>3, <2>4, AuditStep
<1> QED BY <1>4, <1>5

\* Every step of a submission.
LEMMA SubmitStepKeepsAudit ==
  ASSUME TaskInv, InventoryInv, AuditInv, NEW c \in Clients, SubmitStep(c),
         UNCHANGED <<req, app, recoverable>>, app # "down"
  PROVE  AuditInv'
<1>1. Requests
  BY DEF InventoryInv
<1>2. ASSUME Reject(c) \/ FindByIdempotency(c) \/ Preflight(c) \/ WaitEnded(c) \/ WaitTimesOut(c)
      PROVE  AuditInv'
  <2>1. /\ UNCHANGED <<tasks, exec, audits, auditWrites, faults>>
        /\ pc[c] = "start" => tasks[c].status = "none"
    BY <1>2 DEF Reject, FindByIdempotency, Preflight, WaitEnded, WaitTimesOut, operationVars,
                TaskInv, SubmissionOK
  <2>2. \/ \E to \in {"done", "wait"} : Moves(c, to)
        \/ \E to \in {"prepare", "create"} : Moves(c, to) /\ pc[c] \in Unsettled
    BY <1>1, <1>2 DEF Reject, FindByIdempotency, Preflight, WaitEnded, WaitTimesOut, replay, Answer,
                      Continue, Respond, Wait, Moves, Requests, Unsettled
  <2>3. PICK to \in {"done", "wait", "prepare", "create"} :
               Moves(c, to) /\ (to \in Unsettled => pc[c] \in Unsettled)
    BY <2>2 DEF Unsettled
  <2>4. to \notin {"createAudit", "queue", "cancel", "cancelAudit"}
    OBVIOUS
  <2>5. NotQueued(c)
    <3>1. CASE WaitEnded(c)
      BY <3>1 DEF WaitEnded, Respond, NotQueued, TaskInv, TaskShape
    <3>2. CASE FindByIdempotency(c)
      BY <2>1, <3>2, ReplayNotQueued, AnswerNotQueued DEF FindByIdempotency
    <3>3. CASE Reject(c) \/ Preflight(c) \/ WaitTimesOut(c)
      BY <3>3, AnswerNotQueued DEF Reject, Preflight, WaitTimesOut
    <3> QED BY <1>2, <3>1, <3>2, <3>3
  <2> QED BY <1>1, <2>1, <2>3, <2>4, <2>5, ClientKeepsAudit
<1> QED BY <1>2, CreateKeepsAudit, QueryAuditKeepsAudit, QueueKeepsAudit, QueueConflictKeepsAudit,
           CleanUpKeepsAudit DEF SubmitStep

\* A step of the executor that touches no audit record.
LEMMA ExecutionKeepsAudit ==
  ASSUME AuditInv, NEW t \in Clients, ExecutionOf(t), UNCHANGED <<clientVars, app, audits, auditWrites>>,
         UNCHANGED faults \/ Fault, \A u \in Clients : u # t => tasks'[u] = tasks[u],
         app \in {"up", "stopping"},
         AuditOK(t)', faults' = faults /\ app = "up" /\ CalmOK(t) => CalmOK(t)'
  PROVE  AuditInv'
<1>1. pc' = pc /\ answer' = answer
  BY DEF clientVars
<1>2. AuditFrame(t)
  BY <1>1 DEF AuditFrame, AuditInv, ExecutionOf
<1> QED BY <1>2, AuditStep

\* The scheduler claims a task.
LEMMA ClaimKeepsAudit ==
  ASSUME TaskInv, AuditInv, NEW t \in Clients, Claim(t), UNCHANGED <<clientVars, app>>
  PROVE  AuditInv'
<1>1. /\ ExecutionOf(t) /\ exec'[t].pc = "reload" /\ SameExecution(t)
      /\ \A u \in Clients : u # t => tasks'[u] = tasks[u]
      /\ tasks[t].status = "QUEUED" /\ tasks'[t].status = "RUNNING"
      /\ tasks'[t].snap = tasks[t].snap /\ tasks'[t].cancel = tasks[t].cancel
  BY ClaimEffect DEF TaskInv, Keeps
<1>2. UNCHANGED <<audits, auditWrites, faults>> /\ pc' = pc /\ answer' = answer /\ app = "up"
  BY DEF Claim, clientVars
<1>3. AuditOK(t)' /\ ~exec'[t].cancelled
  <2>1. ~exec[t].cancelled
    BY <1>1 DEF AuditInv, AuditOK, TaskInv
  <2> QED BY <1>1, <1>2, <2>1 DEF AuditInv, AuditOK, SameExecution
<1>4. CalmOK(t) => CalmOK(t)'
  BY <1>1, <1>2, <1>3 DEF CalmOK, Terminal
<1> QED BY <1>1, <1>2, <1>3, <1>4, ExecutionKeepsAudit

\* A step of an execution that is not yet over.
LEMMA WorkingKeepsAudit ==
  ASSUME TaskInv, AuditInv, NEW t \in Clients, ExecutionOf(t), UNCHANGED <<clientVars, app>>,
         UNCHANGED <<tasks, audits, auditWrites>>, UNCHANGED faults \/ Fault,
         exec[t].pc # "idle", exec'[t].pc \notin {"idle", "reload"},
         exec'[t].pc = "finalize" => exec'[t].status = "",
         faults' = faults /\ app = "up" /\ CalmOK(t) /\ answer[t].task = t =>
           /\ ~exec'[t].cancelled /\ exec'[t].pc # "finalize"
           /\ exec'[t].pc = "auditFailure" => exec'[t].err # "context"
  PROVE  AuditInv'
<1>1. pc' = pc /\ answer' = answer
  BY DEF clientVars
<1>2. AuditOK(t)'
  BY DEF AuditInv, AuditOK
<1>3. faults' = faults /\ app = "up" /\ CalmOK(t) => CalmOK(t)'
  BY <1>1 DEF CalmOK
<1>4. app \in {"up", "stopping"}
  BY DEF TaskInv, Process
<1> QED BY <1>2, <1>3, <1>4, ExecutionKeepsAudit

\* The row is read again.
LEMMA ReloadKeepsAudit ==
  ASSUME TaskInv, ExecInv, AuditInv, NEW t \in Clients, Reload(t), UNCHANGED <<clientVars, app>>
  PROVE  AuditInv'
<1>1. UNCHANGED <<tasks, audits, auditWrites, faults>>
  BY DEF Reload
<1>2. /\ ExecutionOf(t) /\ exec[t].pc = "reload" /\ exec'[t].status = exec[t].status
      /\ \/ exec'[t].pc = "finalize" /\ app = "stopping"
         \/ exec'[t].pc = "prepare" /\ exec'[t].cancelled = tasks[t].cancel
  BY ReloadEffect DEF TaskInv
<1>3. exec[t].status = ""
  BY <1>2 DEF ExecInv, ExecOK
<1> QED BY <1>1, <1>2, <1>3, WorkingKeepsAudit DEF CalmOK

\* The plan is made again.
LEMMA ExecutePrepareKeepsAudit ==
  ASSUME InventoryInv, TaskInv, AuditInv, NEW t \in Clients, ExecutePrepare(t),
         UNCHANGED <<clientVars, app>>
  PROVE  AuditInv'
<1>1. UNCHANGED <<tasks, audits, auditWrites, faults>> /\ TaskShape
  BY DEF ExecutePrepare, TaskInv
<1>2. exec[t].pc = "prepare"
  BY DEF ExecutePrepare, Executing
<1>3. app = "up" /\ CalmOK(t) /\ answer[t].task = t => ~ContextDone(t) /\ ~exec[t].cancelled
  BY DEF CalmOK, ContextDone
<1>4. prepare(tasks[t].snap).error # "context"
  <2>1. Accepted(t) /\ tasks[t].snap = snapshotRequest(req[t])
    BY <1>2 DEF TaskInv, TaskOK
  <2> QED BY <2>1, SubmittedCommands, PrepareError
<1>5. CASE \E code : Failing(t, code) /\ (~ContextDone(t) => code # "context")
  <2>1. /\ ExecutionOf(t) /\ exec'[t].pc = "auditFailure" /\ exec'[t].cancelled = exec[t].cancelled
        /\ ~ContextDone(t) => exec'[t].err # "context"
        /\ exec'[t].pc \notin {"finalize", "idle", "reload"}
    BY <1>5 DEF Failing
  <2> QED BY <1>1, <1>2, <1>3, <2>1, WorkingKeepsAudit
<1>6. CASE ExecutionOf(t) /\ exec'[t].pc \in {"audit", "guard"} /\ ~exec'[t].cancelled
  <2>1. exec'[t].pc \notin {"finalize", "auditFailure", "idle", "reload"}
    BY <1>6
  <2> QED BY <1>1, <1>2, <1>6, <2>1, WorkingKeepsAudit
<1>7. \/ \E code : Failing(t, code) /\ (~ContextDone(t) => code # "context")
      \/ ExecutionOf(t) /\ exec'[t].pc \in {"audit", "guard"} /\ ~exec'[t].cancelled
  <2> DEFINE p == prepare(tasks[t].snap)
  <2>1. \/ ContextDone(t) /\ Failing(t, "context")
        \/ Failing(t, p.error)
        \/ Failing(t, "STATE_CONFLICT")
        \/ ExecutionOf(t) /\ exec'[t].pc \in {"audit", "guard"} /\ ~exec'[t].cancelled
    BY <1>1, ExecutePrepareEffect
  <2> HIDE DEF p
  <2>2. p.error # "context"
    BY <1>4 DEF p
  <2> QED BY <2>1, <2>2
<1> QED BY <1>5, <1>6, <1>7

\* The device is acquired.
LEMMA AcquireKeepsAudit ==
  ASSUME TaskInv, AuditInv, NEW t \in Clients, Acquire(t), UNCHANGED <<clientVars, app>>
  PROVE  AuditInv'
<1>1. UNCHANGED <<tasks, audits, auditWrites>> /\ (UNCHANGED faults \/ Fault)
  BY AcquireEffect DEF Acquire, TaskInv
<1>2. /\ exec[t].pc = "guard" /\ ExecutionOf(t) /\ exec'[t].cancelled = exec[t].cancelled
      /\ exec'[t].pc \in {"main", "auditFailure"}
      /\ exec'[t].pc = "auditFailure" => ContextDone(t) \/ exec'[t].err # "context"
  BY AcquireEffect DEF TaskInv, Failing, SameExecution
<1>3. app = "up" /\ CalmOK(t) /\ answer[t].task = t => ~ContextDone(t) /\ ~exec[t].cancelled
  BY DEF CalmOK, ContextDone
<1> QED BY <1>1, <1>2, <1>3, WorkingKeepsAudit

\* A command is sent.
LEMMA SendKeepsAudit ==
  ASSUME TaskInv, ExecInv, AuditInv, NEW t \in Clients, Send(t), UNCHANGED <<clientVars, app>>
  PROVE  AuditInv'
<1>1. UNCHANGED <<tasks, audits, auditWrites>> /\ exec[t].pc \in {"main", "save"}
  BY SendEffect
<1>2. UNCHANGED faults \/ Fault
  BY SendEffect
<1>3. app = "up" /\ CalmOK(t) /\ answer[t].task = t => ~ContextDone(t) /\ ~exec[t].cancelled
  BY DEF CalmOK, ContextDone
<1>4. /\ ExecutionOf(t) /\ exec'[t].cancelled = exec[t].cancelled
      /\ exec'[t].pc \notin {"finalize", "idle", "reload"}
      /\ exec'[t].pc = "auditFailure" => ContextDone(t) \/ exec'[t].err # "context"
  <2>1. CASE ContextDone(t) /\ Failing(t, "context")
    BY <2>1 DEF Failing
  <2>2. CASE SendLeads(t)
    BY <1>1, <2>2 DEF SendLeads, Leaving, Failing
  <2> QED BY <2>1, <2>2, SendEffect
<1>5. exec[t].pc # "idle"
  BY <1>1
<1> QED BY <1>1, <1>2, <1>3, <1>4, <1>5, WorkingKeepsAudit

\* The audit of a result: a change is only a success with its record.
LEMMA AuditResultKeepsAudit ==
  ASSUME TaskInv, ExecInv, AuditInv, NEW t \in Clients, AuditResult(t), UNCHANGED <<clientVars, app>>
  PROVE  AuditInv'
<1>1. tasks' = tasks /\ pc' = pc /\ answer' = answer
  BY DEF AuditResult, clientVars
<1>2. /\ exec[t].pc = "audit" /\ ExecutionOf(t) /\ exec'[t].pc = "finalize"
      /\ exec'[t].cancelled = exec[t].cancelled
  BY AuditResultEffect DEF TaskInv
<1>3. exec[t].status \in Ended /\ tasks[t].status = "RUNNING" /\ app \in {"up", "stopping"}
  BY <1>2 DEF ExecInv, ExecOK, TaskInv, Process
<1>4. UnauditedStatus(t) = "SUCCESS" => tasks[t].snap.class = "QUERY"
  BY DEF UnauditedStatus
<1>5. exec[t].status \in Terminal /\ exec[t].status # ""
  BY <1>3 DEF Ended, Terminal
<1>6. CASE /\ ContextDone(t) \/ audits[t] = "none"
           /\ exec'[t].status = UnauditedStatus(t) /\ UNCHANGED <<audits, auditWrites, faults>>
  <2>1. AuditOK(t)'
    BY <1>1, <1>2, <1>3, <1>4, <1>6 DEF AuditOK, AuditInv
  <2>2. app = "up" /\ CalmOK(t) => CalmOK(t)'
    <3>1. app = "up" /\ CalmOK(t) => answer[t].task # t
      BY <1>6 DEF CalmOK, ContextDone
    <3> QED BY <1>1, <1>6, <3>1 DEF CalmOK
  <2> QED BY <1>1, <1>2, <1>3, <1>6, <2>1, <2>2, ExecutionKeepsAudit
<1>7. CASE /\ exec'[t].status = exec[t].status /\ audits[t] # "none"
           /\ CompleteAudit(t, exec[t].status) /\ UNCHANGED faults
  <2>1. /\ DOMAIN audits' = Clients /\ DOMAIN auditWrites' = Clients
        /\ \A u \in Clients : u # t => audits'[u] = audits[u] /\ auditWrites'[u] = auditWrites[u]
        /\ audits'[t] = exec[t].status /\ exec[t].status \in auditWrites'[t]
    BY <1>7, CompleteEffect DEF AuditInv
  <2>2. AuditFrame(t)
    BY <1>1, <1>2, <1>7, <2>1 DEF AuditFrame, ExecutionOf
  <2>3. AuditOK(t)'
    BY <1>1, <1>2, <1>3, <1>5, <1>7, <2>1 DEF AuditOK, Terminal
  <2>4. CalmOK(t) => CalmOK(t)'
    BY <1>1, <1>2, <1>3, <1>5, <1>7, <2>1 DEF CalmOK, Terminal
  <2> QED BY <2>2, <2>3, <2>4, AuditStep
<1>8. CASE /\ exec'[t].status = UnauditedStatus(t) /\ Fault
           /\ CompleteAudit(t, exec[t].status) \/ UNCHANGED <<audits, auditWrites>>
  <2>1. /\ DOMAIN audits' = Clients /\ DOMAIN auditWrites' = Clients
        /\ \A u \in Clients : u # t => audits'[u] = audits[u] /\ auditWrites'[u] = auditWrites[u]
        /\ audits'[t] = audits[t] \/ (audits[t] # "none" /\ audits'[t] = exec[t].status)
    <3>1. CASE UNCHANGED <<audits, auditWrites>>
      BY <3>1 DEF AuditInv
    <3>2. CASE CompleteAudit(t, exec[t].status)
      BY <3>2, CompleteEffect DEF AuditInv
    <3> QED BY <1>8, <3>1, <3>2
  <2>2. AuditFrame(t)
    BY <1>1, <1>2, <1>8, <2>1 DEF AuditFrame, ExecutionOf
  <2>3. AuditOK(t)'
    BY <1>1, <1>2, <1>3, <1>4, <1>5, <1>8, <2>1 DEF AuditOK, AuditInv, Terminal
  <2>4. faults' # faults
    BY <1>8, NotCalm
  <2> QED BY <2>2, <2>3, <2>4, AuditStep
<1> QED BY <1>6, <1>7, <1>8, AuditResultEffect DEF TaskInv

\* The audit of an error.
LEMMA AuditFailureKeepsAudit ==
  ASSUME TaskInv, ExecInv, AuditInv, NEW t \in Clients, AuditFailure(t), UNCHANGED <<clientVars, app>>
  PROVE  AuditInv'
<1>1. tasks' = tasks /\ pc' = pc /\ answer' = answer
  BY DEF AuditFailure, clientVars
<1>2. /\ exec[t].pc = "auditFailure"
      /\ ExecutionOf(t) /\ exec'[t].pc = "finalize" /\ SameExecution(t)
      /\ \/ CompleteAudit(t, auditFailureStatus(t)) /\ UNCHANGED faults
         \/ UNCHANGED <<audits, auditWrites>> /\ Fault
  BY AuditFailureEffect DEF TaskInv
<1>3. exec'[t].status = "" /\ exec'[t].cancelled = exec[t].cancelled
  BY <1>2 DEF ExecInv, ExecOK, SameExecution
<1>4. tasks[t].status = "RUNNING" /\ app \in {"up", "stopping"}
  BY <1>2 DEF TaskInv, Process
<1>5. CASE UNCHANGED <<audits, auditWrites>> /\ Fault
  <2>1. AuditOK(t)'
    BY <1>1, <1>2, <1>3, <1>4, <1>5 DEF AuditOK, AuditInv
  <2>2. faults' # faults
    BY <1>5, NotCalm
  <2> QED BY <1>1, <1>2, <1>4, <1>5, <2>1, <2>2, ExecutionKeepsAudit
<1>6. CASE CompleteAudit(t, auditFailureStatus(t)) /\ UNCHANGED faults
  <2>1. /\ DOMAIN audits' = Clients /\ DOMAIN auditWrites' = Clients
        /\ \A u \in Clients : u # t => audits'[u] = audits[u] /\ auditWrites'[u] = auditWrites[u]
        /\ audits'[t] = IF audits[t] = "none" THEN "none" ELSE auditFailureStatus(t)
    BY <1>6, CompleteEffect DEF AuditInv
  <2>2. auditFailureStatus(t) \in Terminal
    BY DEF auditFailureStatus, Terminal
  <2>3. AuditFrame(t)
    BY <1>1, <1>2, <1>6, <2>1 DEF AuditFrame, ExecutionOf
  <2>4. auditFailureStatus(t) # "none"
    BY <2>2 DEF Terminal
  <2>5. AuditOK(t)'
    BY <1>1, <1>2, <1>3, <1>4, <2>1, <2>2, <2>4 DEF AuditOK, AuditInv
  <2>6. CalmOK(t) /\ answer[t].task = t => auditFailureStatus(t) = "FAILED"
    BY <1>2 DEF CalmOK, auditFailureStatus
  <2>7. CalmOK(t) => CalmOK(t)'
    BY <1>1, <1>2, <1>3, <1>4, <1>6, <2>1, <2>4, <2>6 DEF CalmOK, Terminal
  <2> QED BY <2>3, <2>5, <2>7, AuditStep
<1> QED BY <1>2, <1>5, <1>6

\* The final write has the status of the audit record, when nothing failed.
LEMMA FinalizeKeepsAudit ==
  ASSUME TaskInv, ExecInv, AuditInv, NEW t \in Clients, Finalize(t), UNCHANGED <<clientVars, app>>
  PROVE  AuditInv'
<1>1. UNCHANGED <<audits, auditWrites, faults>> /\ pc' = pc /\ answer' = answer
  BY DEF Finalize, clientVars
<1>2. /\ exec[t].pc = "finalize" /\ ExecutionOf(t) /\ exec'[t] = Idle
      /\ \A u \in Clients : u # t => tasks'[u] = tasks[u]
      /\ tasks'[t].status = FinalStatus(t) /\ tasks'[t].cancel = tasks[t].cancel
      /\ tasks'[t].snap = tasks[t].snap
  BY FinalizeEffect DEF TaskInv
<1>3. /\ exec'[t].pc = "idle" /\ exec'[t].cancelled = FALSE
  BY <1>2, IdleFields
<1>4. tasks[t].status = "RUNNING" /\ app \in {"up", "stopping"}
  BY <1>2 DEF TaskInv, Process
<1>5. FinalStatus(t) = "SUCCESS" => exec[t].status = "SUCCESS"
  BY DEF FinalStatus
<1>6. AuditOK(t)'
  BY <1>1, <1>2, <1>3, <1>4, <1>5 DEF AuditInv, AuditOK
<1>7. app = "up" /\ CalmOK(t) /\ answer[t].task = t => audits[t] = FinalStatus(t)
  BY <1>2 DEF CalmOK, FinalStatus
<1>8. app = "up" /\ CalmOK(t) => CalmOK(t)'
  BY <1>1, <1>2, <1>3, <1>4, <1>7 DEF CalmOK
<1> QED BY <1>1, <1>2, <1>4, <1>6, <1>8, ExecutionKeepsAudit

\* Every step of the executor.
LEMMA ExecuteStepKeepsAudit ==
  ASSUME InventoryInv, TaskInv, ExecInv, AuditInv, NEW t \in Clients, ExecuteStep(t),
         UNCHANGED <<clientVars, app>>
  PROVE  AuditInv'
BY ClaimKeepsAudit, ReloadKeepsAudit, ExecutePrepareKeepsAudit, AcquireKeepsAudit, SendKeepsAudit,
   AuditResultKeepsAudit, AuditFailureKeepsAudit, FinalizeKeepsAudit DEF ExecuteStep

\* After a failure only the audit records count.
LEMMA ProcessKeepsAudit ==
  ASSUME AuditInv, faults' \in 0..MaxFaults, faults' # 0, UNCHANGED <<audits, auditWrites>>,
         \A t \in Clients : /\ exec'[t] \in {exec[t], Idle}
                            /\ tasks'[t].snap = tasks[t].snap
                            /\ tasks'[t].status = "SUCCESS" => tasks[t].status = "SUCCESS"
                            /\ tasks'[t].status # "none" => tasks[t].status # "none"
  PROVE  AuditInv'
<1>1. \A t \in Clients : AuditOK(t)'
  BY IdleFields DEF AuditInv, AuditOK
<1> QED BY <1>1 DEF AuditInv

\* Recovery touches no audit record, and with no failure no task that ran.
LEMMA RecoverKeepsAudit ==
  ASSUME AuditInv, UNCHANGED <<clientVars, exec, audits, auditWrites, faults>>,
         faults = 0 => app # "up" /\ app' \notin {"stopping", "down"},
         \A t \in Clients : /\ tasks'[t].snap = tasks[t].snap /\ tasks'[t].cancel = tasks[t].cancel
                            /\ tasks'[t].status = "SUCCESS" => tasks[t].status = "SUCCESS"
                            /\ tasks'[t].status # "none" => tasks[t].status # "none"
                            /\ tasks[t].status \in Waiting => tasks'[t].status \in Waiting
  PROVE  AuditInv'
<1>1. pc' = pc /\ answer' = answer
  BY DEF clientVars
<1>2. \A t \in Clients : AuditOK(t)'
  BY DEF AuditInv, AuditOK
<1>3. ASSUME faults = 0, NEW t \in Clients PROVE CalmOK(t)'
  <2>1. CalmOK(t) /\ tasks[t].status \in Waiting /\ tasks'[t].status \in Waiting
    BY <1>3 DEF AuditInv, CalmOK
  <2>2. tasks'[t].status \notin Terminal
    BY <2>1 DEF Waiting, Terminal
  <2>3. pc[t] \notin {"cancel", "cancelAudit"}
    BY <1>3, <2>1 DEF CalmOK
  <2> QED BY <1>1, <2>1, <2>2, <2>3 DEF CalmOK
<1> QED BY <1>2, <1>3 DEF AuditInv

\* At first there is no audit record.
LEMMA InitAuditInv ==
  ASSUME Init
  PROVE  AuditInv
<1>1. /\ tasks = [t \in Clients |-> NoTask] /\ exec = [t \in Clients |-> Idle]
      /\ audits = [t \in Clients |-> "none"] /\ auditWrites = [t \in Clients |-> {}]
      /\ app = "starting" /\ faults = 0 /\ pc = [c \in Clients |-> "start"]
      /\ answer = [c \in Clients |-> [code |-> "", task |-> 0]]
  BY DEF Init, InitClients
<1>2. \A t \in Clients : /\ exec[t].pc = "idle" /\ exec[t].cancelled = FALSE
                         /\ tasks[t].status = "none" /\ tasks[t].cancel = FALSE
                         /\ audits[t] = "none" /\ pc[t] = "start" /\ answer[t].task # t
  BY <1>1, IdleFields, ClientsAssumption DEF NoTask
<1>3. \A t \in Clients : AuditOK(t) /\ CalmOK(t)
  BY <1>2 DEF AuditOK, CalmOK, Terminal, Waiting
<1>4. faults = 0
  BY <1>1
<1>5. faults \in 0..MaxFaults
  BY <1>4, BoundsAssumption
<1> QED BY <1>1, <1>3, <1>5 DEF AuditInv

\* Every step keeps what is said of the audit.
LEMMA AuditInvStep ==
  ASSUME InventoryInv, TaskInv, ExecInv, AuditInv, [Next]_vars
  PROVE  AuditInv'
<1>1. ASSUME NEW c \in Clients, InventoryStep(c), UNCHANGED <<operationVars, faults>>,
             UNCHANGED <<req, app, recoverable>>
      PROVE  AuditInv'
  BY <1>1, InventoryStepKeepsAudit DEF InventoryInv
<1>2. ASSUME NEW c \in Clients, SubmitStep(c), UNCHANGED <<req, app, recoverable>>, app # "down"
      PROVE  AuditInv'
  BY <1>2, SubmitStepKeepsAudit
<1>3. ASSUME NEW t \in Clients, ExecuteStep(t), UNCHANGED <<req, clientVars, inventoryVars, app, recoverable>>
      PROVE  AuditInv'
  BY <1>3, ExecuteStepKeepsAudit
<1>4. Fault => faults' \in 0..MaxFaults /\ faults' # 0
  BY BoundsAssumption DEF Fault, AuditInv
<1>5. app \in {"stopping", "down"} => faults # 0
  BY DEF AuditInv
<1>6. faults \in 0..MaxFaults
  BY DEF AuditInv
<1>7. ASSUME Crash \/ Stopped PROVE AuditInv'
  <2>1. Vanish /\ faults' \in 0..MaxFaults /\ faults' # 0
    BY <1>4, <1>5, <1>6, <1>7 DEF Crash, Stopped
  <2>2. UNCHANGED <<tasks, audits, auditWrites>> /\ \A t \in Clients : exec'[t] = Idle
    BY <2>1 DEF Vanish
  <2> QED BY <2>1, <2>2, IdleFields, ProcessKeepsAudit
<1>8. ASSUME Stop PROVE AuditInv'
  <2>1. UNCHANGED <<tasks, exec, audits, auditWrites>> /\ Fault
    BY <1>8 DEF Stop, operationVars
  <2> QED BY <1>4, <2>1, ProcessKeepsAudit
<1>9. ASSUME Restart PROVE AuditInv'
  <2>1. app = "down" /\ UNCHANGED <<tasks, exec, audits, auditWrites, faults>>
    BY <1>9 DEF Restart, operationVars
  <2> QED BY <1>5, <1>6, <2>1, ProcessKeepsAudit
<1>10. ASSUME UNCHANGED vars PROVE AuditInv'
  <2>1. UNCHANGED <<pc, answer, tasks, exec, audits, auditWrites, app, faults>>
    BY <1>10 DEF vars, clientVars, operationVars
  <2>2. \A t \in Clients : AuditOK(t)' /\ (CalmOK(t) => CalmOK(t)')
    BY <2>1 DEF AuditInv, AuditOK, CalmOK
  <2> QED BY <2>1, <2>2 DEF AuditInv
<1>11. ASSUME RecoverList, UNCHANGED <<req, clientVars, inventoryVars>> PROVE AuditInv'
  <2>1. /\ UNCHANGED <<clientVars, exec, audits, auditWrites, faults>>
        /\ app = "starting" /\ app' \in {"up", "recovering"}
    BY <1>11 DEF RecoverList
  <2>2. ASSUME NEW t \in Clients
        PROVE  /\ tasks'[t].snap = tasks[t].snap /\ tasks'[t].cancel = tasks[t].cancel
               /\ tasks'[t].status = "SUCCESS" => tasks[t].status = "SUCCESS"
               /\ tasks'[t].status # "none" => tasks[t].status # "none"
               /\ tasks[t].status \in Waiting => tasks'[t].status \in Waiting
    BY <1>11, RecoverListEffect DEF Keeps, Waiting
  <2> QED BY <2>1, <2>2, RecoverKeepsAudit
<1>12. ASSUME NEW c \in Clients, RecoverQueue(c), UNCHANGED <<req, clientVars, inventoryVars>>
       PROVE  AuditInv'
  <2>1. /\ UNCHANGED <<clientVars, exec, audits, auditWrites, faults>>
        /\ app = "recovering" /\ tasks[c].status # "none"
    BY <1>12 DEF RecoverQueue, TaskInv, Process
  <2>2. CASE QueuePending(c) /\ app' \in {"up", "recovering"}
    <3>1. ASSUME NEW t \in Clients
          PROVE  /\ tasks'[t].snap = tasks[t].snap /\ tasks'[t].cancel = tasks[t].cancel
                 /\ tasks'[t].status = "SUCCESS" => tasks[t].status = "SUCCESS"
                 /\ tasks'[t].status # "none" => tasks[t].status # "none"
                 /\ tasks[t].status \in Waiting => tasks'[t].status \in Waiting
      BY <2>2, QueuePendingEffect DEF Keeps, Waiting
    <3> QED BY <2>1, <2>2, <3>1, RecoverKeepsAudit
  <2>3. CASE ~Queueable(c) /\ tasks' = tasks
    <3>1. faults # 0
      BY <2>1, <2>3 DEF AuditInv, CalmOK, Waiting, Queueable
    <3> QED BY <2>1, <2>3, <3>1, RecoverKeepsAudit
  <2> QED BY <1>12, <2>2, <2>3 DEF RecoverQueue
<1> QED BY <1>1, <1>2, <1>3, <1>7, <1>8, <1>9, <1>10, <1>11, <1>12 DEF Next, Quiet

-----------------------------------------------------------------------------
(* The theorems.                                                           *)

\* What the invariant says holds at first ...
LEMMA InitIInv == Init => IInv
BY InitInventoryInv, InitTaskInv, InitExecInv, InitAuditInv DEF IInv

\* ... and every step keeps it.
LEMMA IInvStep == IInv /\ [Next]_vars => IInv'
<1> SUFFICES ASSUME InventoryInv, TaskInv, ExecInv, AuditInv, [Next]_vars
             PROVE  InventoryInv' /\ TaskInv' /\ ExecInv' /\ AuditInv'
  BY DEF IInv
<1>1. InventoryInv'
  BY InventoryInvStep
<1>2. TaskInv'
  BY TaskInvStep
<1>3. ExecInv'
  BY <1>2, ExecInvStep
<1>4. AuditInv'
  BY AuditInvStep
<1> QED BY <1>1, <1>2, <1>3, <1>4

\* The rows of the inventory, the tasks, their executions and their audit
\* records fit each other in every state the program reaches.
THEOREM InvariantHolds == Spec => []IInv
<1>1. Init => IInv
  BY InitIInv
<1>2. IInv /\ [Next]_vars => IInv'
  BY IInvStep
<1> QED BY <1>1, <1>2, PTL DEF Spec

\* A task that uses its device is the one that holds it.
LEMMA GuardIsHeld ==
  ASSUME InventoryInv, TaskInv, ExecInv, NEW t \in Clients
  PROVE  exec[t].pc \in {"main", "save"} <=> \E d \in DevIds : guard[d] = t
<1>1. GuardInv /\ ExecOK(t)
  BY DEF ExecInv
<1>2. ASSUME exec[t].pc \in {"main", "save"} PROVE \E d \in DevIds : guard[d] = t
  BY <1>1, <1>2 DEF GuardInv, ExecOK
<1>3. ASSUME NEW d \in DevIds, guard[d] = t PROVE exec[t].pc \in {"main", "save"}
  <2>1. guard[d] # 0
    BY <1>3, ClientsAssumption
  <2> QED BY <1>1, <1>3, <2>1 DEF GuardInv
<1> QED BY <1>2, <1>3

\* The rows are of their types, a device is held by the task that uses it, no
\* more tasks run than there are workers, and what is executed is RUNNING.
THEOREM OperationTypes == Spec => []TypeOK
<1>1. IInv => TypeOK
  <2> SUFFICES ASSUME InventoryInv, TaskInv, ExecInv, AuditInv PROVE TypeOK
    BY DEF IInv
  <2>1. /\ app \in {"starting", "recovering", "up", "stopping", "down"}
        /\ recoverable \subseteq {t \in Clients : tasks[t].status # "none"}
        /\ recoverable # {} <=> app = "recovering"
        /\ faults \in 0..MaxFaults /\ keyVersion \in 1..MaxKeyVersion
    BY DEF TaskInv, Process, AuditInv, InventoryInv
  <2>2. /\ \A i \in Live(creds) : ValidCredential(creds[i])
        /\ \A i \in Live(devices) : ValidDevice(devices[i])
    BY DEF InventoryInv, Rows, Live
  <2>3. ASSUME NEW t \in Clients
        PROVE  /\ tasks[t].status \in Terminal \cup {"none", "PENDING", "QUEUED", "RUNNING"}
               /\ audits[t] \in Terminal \cup {"none", "PENDING"}
               /\ exec[t].pc # "idle" => tasks[t].status = "RUNNING"
    BY DEF TaskInv, AuditInv, AuditOK
  <2>4. Cardinality({t \in Clients : exec[t].pc # "idle"}) <= Workers
    BY DEF ExecInv, Running
  <2> QED BY <2>1, <2>2, <2>3, <2>4, GuardIsHeld DEF TypeOK
<1> QED BY <1>1, InvariantHolds, PTL

\* A sequence that agrees with a longer one is a prefix of it.
LEMMA AgreeingIsPrefix ==
  ASSUME NEW s, IsSequence(s), NEW a, IsSequence(a), Len(s) <= Len(a),
         \A i \in 1..Len(s) : s[i] = a[i]
  PROVE  IsPrefix(s, a)
<1>1. PICK S : s \in Seq(S)
  BY DEF IsSequence
<1>2. Len(s) \in Nat /\ \A i \in 1..Len(s) : s[i] \in S
  BY <1>1, LenProperties
<1>3. 1 \in Int /\ Len(s) \in Int
  BY <1>2
<1>4. \A i \in 1..Len(s) : a[i] \in S
  BY <1>2
<1> DEFINE n == Len(s)
           p == SubSeq(s, 1, n)
           q == SubSeq(a, 1, n)
<1>5. /\ p \in Seq(S) /\ Len(p) = IF 1 <= n THEN n - 1 + 1 ELSE 0
      /\ \A i \in 1..(n - 1 + 1) : p[i] = s[1 + i - 1]
  BY <1>2, <1>3, SubSeqProperties
<1>6. /\ q \in Seq(S) /\ Len(q) = IF 1 <= n THEN n - 1 + 1 ELSE 0
      /\ \A i \in 1..(n - 1 + 1) : q[i] = a[1 + i - 1]
  BY <1>3, <1>4, SubSeqProperties
<1>7. n \in Nat /\ \A i \in 1..n : s[i] = a[i]
  BY <1>2
<1> HIDE DEF n, p, q
<1>8. Len(p) = n /\ Len(q) = n
  BY <1>5, <1>6, <1>7
<1>9. \A i \in 1..n : p[i] = s[i] /\ q[i] = a[i]
  <2> TAKE i \in 1..n
  <2>1. 1 + i - 1 = i /\ i \in 1..(n - 1 + 1)
    BY <1>7
  <2> QED BY <1>5, <1>6, <2>1
<1>10. \A i \in 1..Len(p) : p[i] = q[i]
  BY <1>7, <1>8, <1>9
<1>11. Len(p) = Len(q)
  BY <1>8
<1>12. p = q
  BY <1>5, <1>6, <1>10, <1>11, SeqEqual, Zenon
<1> QED BY <1>12 DEF IsPrefix, p, q, n

\* The commands of two plans are one sequence.
LEMMA ConcatIsSequence ==
  ASSUME NEW a, NEW b, IsSequence(a), IsSequence(b)
  PROVE  IsSequence(a \o b)
<1>1. PICK S : a \in Seq(S)
  BY DEF IsSequence
<1>2. PICK T : b \in Seq(T)
  BY DEF IsSequence
<1>3. a \in Seq(S \cup T) /\ b \in Seq(S \cup T)
  BY <1>1, <1>2
<1>4. a \o b \in Seq(S \cup T)
  BY <1>3, ConcatProperties
<1> QED BY <1>4 DEF IsSequence

\* The approved commands of a task are a sequence.
LEMMA ApprovedIsSequence ==
  ASSUME NEW t, NEW s, Planned(tasks[t].main, tasks[t].save, s)
  PROVE  IsSequence(Approved(t))
<1>1. IsSequence(tasks[t].main.commands)
  BY DEF Planned
<1>2. CASE tasks[t].save = NoPlan
  BY <1>1, <1>2, EmptySequence, ConcatIsSequence DEF Approved
<1>3. CASE tasks[t].save # NoPlan
  <2>1. IsSequence(tasks[t].save.commands)
    BY <1>3 DEF Planned
  <2> QED BY <1>1, <1>3, <2>1, ConcatIsSequence DEF Approved
<1> QED BY <1>2, <1>3

\* An actor's key has one task, whose commands are sent at most once and in
\* order, and every client is answered with a task of its own for the very
\* request it made: whatever is lost, repeated, stopped or crashed.
THEOREM KeysExecuteOnce == Spec => []KeyExecutesOnce
<1>1. IInv => KeyExecutesOnce
  <2> SUFFICES ASSUME InventoryInv, TaskInv, ExecInv, AuditInv PROVE KeyExecutesOnce
    BY DEF IInv
  <2>1. UniqueKeys
    BY DEF TaskInv
  <2>2. ASSUME NEW t \in Clients, tasks[t].status # "none"
        PROVE  IsPrefix(sent[t], Approved(t))
    <3>1. TaskOK(t) /\ SentOK(t)
      BY DEF TaskInv, ExecInv
    <3>2. Planned(tasks[t].main, tasks[t].save, tasks[t].snap)
      BY <2>2, <3>1 DEF TaskOK
    <3>3. IsSequence(Approved(t))
      BY <3>2, ApprovedIsSequence
    <3>4. /\ IsSequence(sent[t]) /\ Len(sent[t]) <= Len(Approved(t))
          /\ \A i \in 1..Len(sent[t]) : sent[t][i] = Approved(t)[i]
      BY <2>2, <3>1 DEF SentOK
    <3> QED BY <3>3, <3>4, AgreeingIsPrefix
  <2>3. ASSUME NEW c \in Clients, answer[c].task # 0
        PROVE  /\ tasks[answer[c].task].actor = Access(req[c]).actor
               /\ tasks[answer[c].task].snap = snapshotRequest(req[c])
    BY <2>3 DEF TaskInv, AnswerOK
  <2> QED BY <2>1, <2>2, <2>3 DEF KeyExecutesOnce, UniqueKeys
<1> QED BY <1>1, InvariantHolds, PTL

\* A live row that says VERIFIED names an address, vendor and model that one
\* detection saw together, and so does the row a change is executed with.
THEOREM ChangesOnlyWhereDetected == Spec => []ConfigOnlyWhereDetected
<1>1. IInv => ConfigOnlyWhereDetected
  <2> SUFFICES ASSUME InventoryInv, TaskInv, ExecInv, AuditInv PROVE ConfigOnlyWhereDetected
    BY DEF IInv
  <2>1. \A i \in Live(devices) : SeenIn(devices[i], observed)
    BY DEF InventoryInv, Rows, Live
  <2>2. \A t \in Clients :
          exec[t].pc \in {"main", "save"} /\ tasks[t].snap.class # "QUERY" => Detected(exec[t].row)
    BY DEF ExecInv, ExecOK
  <2> QED BY <2>1, <2>2 DEF ConfigOnlyWhereDetected, Detected, SeenIn
<1> QED BY <1>1, InvariantHolds, PTL

\* A change that says SUCCESS was audited as one, whatever failed; and without
\* failures a task whose submission was accepted ends with the status its audit
\* record has, although recovery and its workers run beside the submission.
THEOREM SuccessesAreAudited == Spec => []SuccessIsAudited
<1>1. IInv => SuccessIsAudited
  <2> SUFFICES ASSUME AuditInv PROVE SuccessIsAudited
    BY DEF IInv
  <2> QED BY DEF AuditInv, AuditOK, CalmOK, SuccessIsAudited
<1> QED BY <1>1, InvariantHolds, PTL

\* The only step that sends for a task is a step of its own execution.
LEMMA OnlySendSends ==
  ASSUME InventoryInv, TaskInv, ExecInv, [Next]_vars, NEW t \in Clients, sent'[t] # sent[t]
  PROVE  exec[t].pc \in {"main", "save"}
<1>1. ASSUME NEW u \in Clients, Send(u) PROVE exec[t].pc \in {"main", "save"}
  <2>1. exec[u].pc \in {"main", "save"}
    BY <1>1, SendEffect
  <2>2. sent' = sent \/ sent' = [sent EXCEPT ![u] = Append(@, NextCommand(u))]
    BY <1>1, SendEffect
  <2>3. u = t
    BY <2>2 DEF ExecInv
  <2> QED BY <2>1, <2>3
<1>2. ASSUME NEW u \in Clients, ExecuteStep(u), ~Send(u) PROVE sent' = sent
  BY <1>2 DEF ExecuteStep, Claim, Reload, ExecutePrepare, Acquire, AuditResult, AuditFailure, Finalize
<1>3. ASSUME NEW c \in Clients, SubmitStep(c), UNCHANGED <<req, app, recoverable>>, app # "down"
      PROVE  sent' = sent
  BY <1>3, SubmitTaskMoves
<1>4. ASSUME \/ UNCHANGED operationVars \/ Crash \/ Stop \/ Stopped \/ Restart \/ UNCHANGED vars
             \/ RecoverList \/ \E u \in Clients : RecoverQueue(u)
      PROVE  sent' = sent
  BY <1>4 DEF operationVars, Crash, Stop, Stopped, Vanish, Restart, RecoverList, RecoverQueue, vars
<1> QED BY <1>1, <1>2, <1>3, <1>4 DEF Next, Quiet

\* What is sent is sent for the plan that was stored and audited when the
\* request was accepted, for a caller with the permission on the device, not
\* in a dry run, at a confirmed risk, against no blocking rule.
THEOREM SendsWereApproved == Spec => SentWasApproved
<1> DEFINE Approval(t) ==
      LET task == tasks[t] IN
      /\ exec[t].main = task.main /\ exec[t].save = task.save /\ ~task.snap.dry
      /\ Access(req[t]).error = ""
      /\ task.main.risk # "BLOCKED" /\ (task.main.risk = "HIGH" => task.snap.confirm)
      /\ task.snap.op \in CustomCommands =>
           \A i \in DOMAIN task.main.commands :
             "BLOCKED" \notin MatchedEffects(CustomCommandPolicy(task.snap.op),
                                             task.main.commands[i].words)
      /\ task.snap.class # "QUERY" => audits[t] # "none"
<1>1. IInv /\ [Next]_vars => [\A t \in Clients : sent'[t] # sent[t] => Approval(t)]_vars
  <2> SUFFICES ASSUME InventoryInv, TaskInv, ExecInv, AuditInv, [Next]_vars,
                      NEW t \in Clients, sent'[t] # sent[t]
               PROVE  Approval(t)
    BY DEF IInv
  <2>1. exec[t].pc \in {"main", "save"}
    BY OnlySendSends
  <2>2. /\ exec[t].main = tasks[t].main /\ exec[t].save = tasks[t].save
        /\ ~tasks[t].snap.dry
    BY <2>1 DEF ExecInv, ExecOK
  <2>3. tasks[t].status = "RUNNING"
    BY <2>1 DEF TaskInv
  <2>4. TaskOK(t) /\ AuditOK(t)
    BY DEF TaskInv, AuditInv
  <2>5. Accepted(t) /\ Planned(tasks[t].main, tasks[t].save, tasks[t].snap)
    BY <2>3, <2>4 DEF TaskOK
  <2>6. Access(req[t]).error = ""
    BY <2>5 DEF Accepted, SubmitError
  <2>7. tasks[t].snap.class # "QUERY" => audits[t] # "none"
    BY <2>3, <2>4 DEF AuditOK
  <2>8. /\ tasks[t].main.risk # "BLOCKED" /\ (tasks[t].main.risk = "HIGH" => tasks[t].snap.confirm)
        /\ tasks[t].snap.op \in CustomCommands =>
             \A i \in DOMAIN tasks[t].main.commands :
               "BLOCKED" \notin MatchedEffects(CustomCommandPolicy(tasks[t].snap.op),
                                               tasks[t].main.commands[i].words)
    BY <2>5 DEF Planned
  <2> QED BY <2>2, <2>6, <2>7, <2>8
<1> QED BY <1>1, InvariantHolds, PTL DEF Spec, SentWasApproved

=============================================================================
