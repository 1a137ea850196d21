------------------------------ MODULE Inventory ------------------------------
(***************************************************************************)
(* Devices and credentials: the requests of inventory_handlers.go, the     *)
(* service behind them (internal/inventorysvc) and the rows they read and  *)
(* write (device_repository.go, credential_repository.go).                 *)
(*                                                                         *)
(* Each client sends one request, req[c]; a request holds a row of its own *)
(* between the SQL statements, row[c], and one step is one statement or    *)
(* one call of the device.  No statement checks a version: a write puts    *)
(* back every column that was read.                                        *)
(*                                                                         *)
(* A credential is [st, name, type, secret, key, pass, ver]: secret, key   *)
(* and pass are the version of the key that encrypted them, 0 for none.  A *)
(* device is [st, host, cred, vendor, model, identity, status]; host       *)
(* stands for host and port, model for model and OS version.  Names and    *)
(* detect modes of devices, user names and times are left out.             *)
(***************************************************************************)
EXTENDS AccessControl, FiniteSets

CONSTANTS
    Clients,        \* the requests in flight, one each
    Scenarios,      \* what the clients ask: a set of functions from Clients
    CredIds, DevIds,
    InitCreds,      \* rows there at first, by identifier
    InitDevices,
    Detections,     \* what the device may say of itself: [vendor, model]
    MaxKeyVersion   \* bound on the rotations of the master key

VARIABLES
    req, pc, row, answer,
    creds, devices,
    keyVersion,     \* the version of the configured master key
    observed        \* history: <<host, vendor, model>> a detection has seen

inventoryVars == <<creds, devices, keyVersion, observed>>
clientVars == <<pc, row, answer>>

DeviceVendors == {"HUAWEI", "H3C"}
Statuses == {"ACTIVE", "UNREACHABLE", "DISABLED"}
Identities == {"UNKNOWN", "VERIFIED", "MISMATCH"}
CredentialTypes == {"PASSWORD", "SSH_PRIVATE_KEY"}

NoCredential == [st |-> "none", name |-> "", type |-> "PASSWORD",
                 secret |-> 0, key |-> 0, pass |-> 0, ver |-> 0]
NoDevice == [st |-> "none", host |-> "", cred |-> "", vendor |-> "HUAWEI",
             model |-> "", identity |-> "UNKNOWN", status |-> "ACTIVE"]

InitInventory ==
    /\ creds = [i \in CredIds |-> IF i \in DOMAIN InitCreds THEN InitCreds[i] ELSE NoCredential]
    /\ devices = [i \in DevIds |-> IF i \in DOMAIN InitDevices THEN InitDevices[i] ELSE NoDevice]
    /\ keyVersion = 1
    /\ observed = {<<d.host, d.vendor, d.model>> :
                     d \in {InitDevices[i] : i \in {j \in DOMAIN InitDevices :
                                                      InitDevices[j].identity = "VERIFIED"}}}

InitClients ==
    /\ req \in Scenarios
    /\ pc = [c \in Clients |-> "start"]
    /\ row = [c \in Clients |-> NoDevice]
    /\ answer = [c \in Clients |-> [code |-> "", task |-> 0]]

-----------------------------------------------------------------------------
(* The rows.                                                               *)

Live(rows) == {i \in DOMAIN rows : rows[i].st = "live"}

\* The identifier newID gives: one no row has had.
FreshId(rows) == CHOOSE i \in DOMAIN rows : rows[i].st = "none"

\* Credential.Validate.
ValidCredential(v) ==
    /\ v.name # "" /\ v.type \in CredentialTypes
    /\ v.type = "PASSWORD" => v.secret # 0 /\ v.key = 0 /\ v.pass = 0
    /\ v.type = "SSH_PRIVATE_KEY" => v.key # 0 /\ v.secret = 0

\* Device.Validate.
ValidDevice(d) ==
    /\ d.host # "" /\ d.cred # ""
    /\ d.vendor \in DeviceVendors /\ d.status \in Statuses /\ d.identity \in Identities

\* The columns of the two tables, and the ones a DevicePatch can change.
CredentialFields == {"st", "name", "type", "secret", "key", "pass", "ver"}
DeviceFields == {"st", "host", "cred", "vendor", "model", "identity", "status"}
PatchFields == {"host", "cred", "vendor", "model", "status"}

ASSUME ClientsAssumption == IsFiniteSet(Clients) /\ 0 \notin Clients
ASSUME KeyVersionAssumption == MaxKeyVersion \in Nat \ {0}

\* The rows there at first went through Validate when they were written.
ASSUME InitRowsAssumption ==
    /\ \A i \in DOMAIN InitCreds :
         /\ DOMAIN InitCreds[i] = CredentialFields
         /\ InitCreds[i].st = "live" => ValidCredential(InitCreds[i])
    /\ \A i \in DOMAIN InitDevices :
         /\ DOMAIN InitDevices[i] = DeviceFields
         /\ InitDevices[i].st = "live" => ValidDevice(InitDevices[i])

\* What the handlers decode a body into: a device, or a DevicePatch.
ASSUME InventoryRequestsAssumption ==
    \A s \in Scenarios, c \in Clients :
      /\ s[c].kind = "CreateDevice" => DOMAIN s[c].input = DeviceFields
      /\ s[c].kind = "UpdateDevice" => DOMAIN s[c].patch \subseteq PatchFields

\* The index credentials_name_active_uq, and the one on host and port.
NameTaken(id, name) == \E i \in Live(creds) \ {id} : creds[i].name = name
HostTaken(id, host) == \E i \in Live(devices) \ {id} : devices[i].host = host

\* The trigger credentials_active_switches_guard.
InUse(id) == \E i \in Live(devices) : devices[i].cred = id

\* CredentialRepository.Create and Update: the error, "" for none.
WriteCredentialError(id, v) ==
    IF ~ValidCredential(v) THEN "VALIDATION_ERROR"
      ELSE IF NameTaken(id, v.name) THEN "STATE_CONFLICT"
      ELSE ""

WriteDeviceError(id, d) ==
    IF ~ValidDevice(d) THEN "VALIDATION_ERROR"
      ELSE IF HostTaken(id, d.host) THEN "STATE_CONFLICT"
      ELSE ""

\* deviceView: the device's credential is read again.
deviceView(d) == IF d.cred \in Live(creds) THEN "OK" ELSE "CREDENTIAL_NOT_FOUND"

-----------------------------------------------------------------------------
(* Credential material.  A patch is a record of the fields that are given. *)

Given(patch, field) == field \in DOMAIN patch
Encrypted(patch, field, old) == IF Given(patch, field) THEN keyVersion ELSE old

\* applyNewCredentialMaterial: the error, "" for none, and the row.
applyNewCredentialMaterial(input) ==
    LET password == input.type = "PASSWORD"
        material == IF password THEN input.password ELSE input.privateKey
    IN [error |-> IF input.type \notin CredentialTypes \/ material = ""
                  THEN "VALIDATION_ERROR" ELSE "",
        value |-> [st |-> "live", name |-> input.name, type |-> input.type, ver |-> keyVersion,
                   secret |-> IF password THEN keyVersion ELSE 0,
                   key |-> IF password THEN 0 ELSE keyVersion,
                   pass |-> IF password \/ input.passphrase = "" THEN 0 ELSE keyVersion]]

\* applyPatchedCredentialMaterial, after the name and the type.  The key
\* version is written whether or not anything was encrypted anew.
applyPatchedCredentialMaterial(v, patch) ==
    LET password == v.type = "PASSWORD"
        blank(field) == Given(patch, field) /\ patch[field] = ""
        value == [v EXCEPT
            !.secret = IF password THEN Encrypted(patch, "password", @) ELSE 0,
            !.key = IF password THEN 0 ELSE Encrypted(patch, "privateKey", @),
            !.pass = IF password \/ blank("passphrase") THEN 0
                     ELSE Encrypted(patch, "passphrase", @),
            !.ver = keyVersion]
    IN [error |-> IF \/ v.type \notin CredentialTypes
                     \/ password /\ (blank("password") \/ value.secret = 0)
                     \/ ~password /\ (blank("privateKey") \/ value.key = 0)
                  THEN "VALIDATION_ERROR" ELSE "",
        value |-> value]

\* decryptCredential succeeds: authenticated decryption with the current key
\* needs what that key encrypted.
Decrypts(v) ==
    /\ v.ver = keyVersion
    /\ IF v.type = "PASSWORD" THEN v.secret = keyVersion
       ELSE v.key = keyVersion /\ v.pass \in {0, keyVersion}

-----------------------------------------------------------------------------
(* Requests.                                                               *)

Answer(c, code) ==
    /\ answer' = [answer EXCEPT ![c].code = code]
    /\ pc' = [pc EXCEPT ![c] = "done"]
    /\ UNCHANGED row

\* The request goes on with the row it has read.
Continue(c, next, value) ==
    /\ pc' = [pc EXCEPT ![c] = next]
    /\ row' = [row EXCEPT ![c] = value]
    /\ UNCHANGED answer

\* The middleware and the checks of the handler before the service is called.
HandlerError(r) ==
    LET access == Require(r.headers, InventoryRoutes[r.kind], InventoryScope(r))
    IN IF access.error # "" THEN access.error
         ELSE IF r.kind \in {"UpdateCredential", "UpdateDevice"} /\ DOMAIN r.patch = {}
              THEN "VALIDATION_ERROR"
         ELSE ""

Starts(c, kind) == pc[c] = "start" /\ req[c].kind = kind /\ HandlerError(req[c]) = ""

Denied(c) ==
    /\ pc[c] = "start" /\ req[c].kind \in DOMAIN InventoryRoutes
    /\ HandlerError(req[c]) # ""
    /\ Answer(c, HandlerError(req[c]))
    /\ UNCHANGED inventoryVars

CreateCredential(c) ==
    /\ Starts(c, "CreateCredential")
    /\ LET new == applyNewCredentialMaterial(req[c].input)
           id == FreshId(creds)
           code == IF new.error # "" THEN new.error ELSE WriteCredentialError(id, new.value)
       IN IF code # "" THEN Answer(c, code) /\ UNCHANGED creds
          ELSE creds' = [creds EXCEPT ![id] = new.value] /\ Answer(c, "OK")
    /\ UNCHANGED <<devices, keyVersion, observed>>

\* UpdateCredential: GetForExecution and the patch.
PatchCredential(c) ==
    /\ Starts(c, "UpdateCredential")
    /\ LET r == req[c]
           stored == creds[r.id]
           named == [stored EXCEPT !.name = IF Given(r.patch, "name") THEN r.patch.name ELSE @,
                                   !.type = IF Given(r.patch, "type") THEN r.patch.type ELSE @]
           patched == applyPatchedCredentialMaterial(named, r.patch)
       IN IF r.id \notin Live(creds) THEN Answer(c, "CREDENTIAL_NOT_FOUND")
          ELSE IF patched.error # "" THEN Answer(c, patched.error)
          ELSE Continue(c, "writeCredential", patched.value)
    /\ UNCHANGED inventoryVars

\* UpdateCredential: CredentialRepository.Update.
WriteCredential(c) ==
    /\ pc[c] = "writeCredential"
    /\ LET id == req[c].id
           code == IF ~ValidCredential(row[c]) THEN "VALIDATION_ERROR"
                   ELSE IF id \notin Live(creds) THEN "CREDENTIAL_NOT_FOUND"
                   ELSE WriteCredentialError(id, row[c])
       IN IF code # "" THEN Answer(c, code) /\ UNCHANGED creds
          ELSE creds' = [creds EXCEPT ![id] = row[c]] /\ Answer(c, "OK")
    /\ UNCHANGED <<devices, keyVersion, observed>>

DeleteCredential(c) ==
    /\ Starts(c, "DeleteCredential")
    /\ LET id == req[c].id
       IN IF id \notin Live(creds) THEN Answer(c, "CREDENTIAL_NOT_FOUND") /\ UNCHANGED creds
          ELSE IF InUse(id) THEN Answer(c, "STATE_CONFLICT") /\ UNCHANGED creds
          ELSE creds' = [creds EXCEPT ![id].st = "deleted"] /\ Answer(c, "OK")
    /\ UNCHANGED <<devices, keyVersion, observed>>

\* CreateDevice: the credential is looked up.
CheckCredential(c) ==
    /\ Starts(c, "CreateDevice")
    /\ IF req[c].input.cred \in Live(creds)
       THEN Continue(c, "insertDevice",
                     [req[c].input EXCEPT !.st = "live", !.identity = "UNKNOWN"])
       ELSE Answer(c, "CREDENTIAL_NOT_FOUND")
    /\ UNCHANGED inventoryVars

\* CreateDevice: DeviceRepository.Create and the view of the new device.
InsertDevice(c) ==
    /\ pc[c] = "insertDevice"
    /\ LET id == FreshId(devices)
           code == WriteDeviceError(id, row[c])
       IN IF code # "" THEN Answer(c, code) /\ UNCHANGED devices
          ELSE devices' = [devices EXCEPT ![id] = row[c]] /\ Answer(c, deviceView(row[c]))
    /\ UNCHANGED <<creds, keyVersion, observed>>

\* Mutant: a change of address keeps the identity.
PatchedSameAddress(d, patch) ==
    LET changed == [f \in DOMAIN d |-> IF Given(patch, f) THEN patch[f] ELSE d[f]]
    IN IF DOMAIN patch \cap {"vendor", "model"} = {} THEN changed
       ELSE [changed EXCEPT !.identity = "UNKNOWN"]

\* UpdateDevice on the row that was read: after a change of host, vendor or
\* model its identity is no longer known.
Patched(d, patch) ==
    LET changed == [f \in DOMAIN d |-> IF Given(patch, f) THEN patch[f] ELSE d[f]]
    IN IF DOMAIN patch \cap {"host", "vendor", "model"} = {} THEN changed
       ELSE [changed EXCEPT !.identity = "UNKNOWN"]

\* DeviceRepository.Get, the first statement of UpdateDevice, TestConnection
\* and Detect.
ReadDevice(c) ==
    /\ \E kind \in {"UpdateDevice", "TestConnection", "Detect"} : Starts(c, kind)
    /\ LET r == req[c]
           d == devices[r.id]
       IN IF r.id \notin Live(devices) THEN Answer(c, "DEVICE_NOT_FOUND")
          ELSE IF r.kind # "UpdateDevice" THEN Continue(c, "loadCredential", d)
          ELSE Continue(c, IF Given(r.patch, "cred") THEN "checkPatch" ELSE "writeDevice",
                        Patched(d, r.patch))
    /\ UNCHANGED inventoryVars

\* UpdateDevice with a new credential: it is looked up.
CheckPatchedCredential(c) ==
    /\ pc[c] = "checkPatch"
    /\ IF row[c].cred \in Live(creds) THEN Continue(c, "writeDevice", row[c])
       ELSE Answer(c, "CREDENTIAL_NOT_FOUND")
    /\ UNCHANGED inventoryVars

\* loadExecutionInputs: GetForExecution and decryptCredential.
LoadCredential(c) ==
    /\ pc[c] = "loadCredential"
    /\ LET id == row[c].cred
       IN IF id \notin Live(creds) THEN Answer(c, "CREDENTIAL_NOT_FOUND")
          ELSE IF ~Decrypts(creds[id]) THEN Answer(c, "INTERNAL_ERROR")
          ELSE Continue(c, "probe", row[c])
    /\ UNCHANGED inventoryVars

\* TestConnection: the device answers or it does not.
Probe(c) ==
    /\ pc[c] = "probe" /\ req[c].kind = "TestConnection"
    /\ \E status \in {"ACTIVE", "UNREACHABLE"} :
         Continue(c, "writeDevice", [row[c] EXCEPT !.status = status])
    /\ UNCHANGED inventoryVars

\* Detect: the detector at the address that was read, and the new row.
ObserveDevice(c) ==
    /\ pc[c] = "probe" /\ req[c].kind = "Detect"
    /\ \/ /\ Answer(c, "DEVICE_UNREACHABLE")
          /\ UNCHANGED observed
       \/ \E seen \in Detections :
            /\ Continue(c, "writeDevice",
                        [row[c] EXCEPT !.model = seen.model,
                           !.identity = IF seen.vendor = row[c].vendor
                                        THEN "VERIFIED" ELSE "MISMATCH"])
            /\ observed' = observed \cup {<<row[c].host, seen.vendor, seen.model>>}
    /\ UNCHANGED <<creds, devices, keyVersion>>

\* DeviceRepository.Update and the answer: a failed connection test answers
\* the failure whatever becomes of the write.
WriteDevice(c) ==
    /\ pc[c] = "writeDevice"
    /\ LET id == req[c].id
           code == IF ~ValidDevice(row[c]) THEN "VALIDATION_ERROR"
                   ELSE IF id \notin Live(devices) THEN "DEVICE_NOT_FOUND"
                   ELSE WriteDeviceError(id, row[c])
           view == IF req[c].kind = "TestConnection" THEN "OK" ELSE deviceView(row[c])
       IN /\ devices' = IF code = "" THEN [devices EXCEPT ![id] = row[c]] ELSE devices
          /\ Answer(c, IF req[c].kind = "TestConnection" /\ row[c].status = "UNREACHABLE"
                       THEN "DEVICE_UNREACHABLE" ELSE IF code # "" THEN code ELSE view)
    /\ UNCHANGED <<creds, keyVersion, observed>>

DeleteDevice(c) ==
    /\ Starts(c, "DeleteDevice")
    /\ LET id == req[c].id
       IN IF id \notin Live(devices) THEN Answer(c, "DEVICE_NOT_FOUND") /\ UNCHANGED devices
          ELSE devices' = [devices EXCEPT ![id].st = "deleted"] /\ Answer(c, "OK")
    /\ UNCHANGED <<creds, keyVersion, observed>>

InventoryStep(c) ==
    \/ Denied(c)
    \/ CreateCredential(c) \/ PatchCredential(c) \/ WriteCredential(c) \/ DeleteCredential(c)
    \/ CheckCredential(c) \/ InsertDevice(c)
    \/ ReadDevice(c) \/ CheckPatchedCredential(c) \/ LoadCredential(c)
    \/ Probe(c) \/ ObserveDevice(c) \/ WriteDevice(c) \/ DeleteDevice(c)
=============================================================================
