----------------------------- MODULE MCOperation -----------------------------
(* Module Operation for TLC: three requests at a time on one or two        *)
(* switches, chosen so that they meet on a device row, an idempotency key  *)
(* or a credential; and the algorithms of the access rules, of the command *)
(* policies and of versions against their reference definitions.           *)
EXTENDS Operation

-----------------------------------------------------------------------------
(* Users and tokens.                                                       *)

MCUsers ==
    ("alice" :> [status |-> "ACTIVE",
                 bindings |-> << [role |-> "ADMIN", scope |-> globalScope,
                                  permissions |-> <<"device.manage", "credential.manage",
                                                    "operation.query", "operation.config",
                                                    "operation.custom_config">>] >>])
    @@ ("bob" :> [status |-> "ACTIVE",
                  bindings |-> << [role |-> "VIEWER", scope |-> switchScope("d1"),
                                   permissions |-> <<"operation.query", "operation.custom_read">>] >>])
    @@ ("carol" :> [status |-> "DISABLED", bindings |-> <<>>])

Token(sub) == [alg |-> "RS256", kid |-> "k", sound |-> TRUE, sub |-> sub,
               username |-> Absent, serviceActor |-> Absent]
Bearer(sub) == << [scheme |-> "Bearer", token |-> Token(sub)] >>

-----------------------------------------------------------------------------
(* Rows there at first.                                                    *)

MCInitCreds ==
    ("c1" :> [NoCredential EXCEPT !.st = "live", !.name = "main", !.secret = 1, !.ver = 1])
    @@ ("c2" :> [NoCredential EXCEPT !.st = "live", !.name = "spare", !.secret = 1, !.ver = 1])

MCInitDevices ==
    ("d1" :> [st |-> "live", host |-> "h1", cred |-> "c1", vendor |-> "HUAWEI",
              model |-> "FAKE-SW", identity |-> "VERIFIED", status |-> "ACTIVE"])

MCDetections == {[vendor |-> v, model |-> "FAKE-SW"] : v \in {"HUAWEI", "H3C"}}

-----------------------------------------------------------------------------
(* Requests.                                                               *)

Params(vlan, name, commands) == [vlan |-> vlan, name |-> name, commands |-> commands]

Op(sub, op, parameters) ==
    [kind |-> "Submit", headers |-> Bearer(sub), op |-> op, parameters |-> parameters,
     mode |-> "SYNC", dry |-> FALSE, save |-> FALSE, confirm |-> FALSE, key |-> "",
     device |-> "d1"]

CreateVLAN == [Op("alice", "vlan.create", Params(2, "", <<>>)) EXCEPT !.key = "k1", !.save = TRUE]
CreateVLANAsync == [CreateVLAN EXCEPT !.mode = "ASYNC"]
ListVLANs == Op("bob", "vlan.list", NoParameters)
High == <<"fake.set", Space, "high-risk", Space, "x">>

\* One of each way through the planner, the executor and the handlers.
Ways ==
    { [CreateVLAN EXCEPT !.dry = TRUE],
      [Op("alice", "vlan.update", Params(2, "lab", <<>>)) EXCEPT !.mode = "ASYNC"],
      Op("alice", "vlan.delete", Params(2, "", <<>>)),
      Op("alice", "vlan.update", Params(2, "", <<>>)),
      Op("alice", "vlan.create", Params(4095, "", <<>>)),
      Op("bob", "vlan.get", Params(2, "", <<>>)),
      Op("bob", "vlan.create", Params(2, "", <<>>)),
      Op("carol", "vlan.list", NoParameters),
      [ListVLANs EXCEPT !.headers = <<>>],
      [ListVLANs EXCEPT !.save = TRUE],
      [CreateVLAN EXCEPT !.device = "d2"],
      Op("bob", ReadonlyOperation, Params(0, "", << <<"fake.show", Space, "large">> >>)),
      Op("bob", ReadonlyOperation, Params(0, "", << <<"fake.show", Space, "blocked">> >>)),
      Op("alice", ConfigOperation, Params(0, "", <<High>>)),
      [Op("alice", ConfigOperation, Params(0, "", << <<"fake.set", Space, "x">>, High >>))
         EXCEPT !.confirm = TRUE],
      Op("alice", ConfigOperation, Params(0, "", << <<"fake.set", Space, "blocked">> >>)) }

Device(kind) == [kind |-> kind, headers |-> Bearer("alice"), id |-> "d1"]
Patch(patch) == Device("UpdateDevice") @@ [patch |-> patch]
Detect == Device("Detect")
Races == {Detect, Device("TestConnection"), Device("DeleteDevice"),
          Patch([host |-> "h2"]), Patch([vendor |-> "H3C"]), Patch([status |-> "DISABLED"])}

Cred(kind, id) == [kind |-> kind, headers |-> Bearer("alice"), id |-> id]
NewDevice == [kind |-> "CreateDevice", headers |-> Bearer("alice"),
              input |-> [NoDevice EXCEPT !.host = "h3", !.cred = "c2"]]
NewCred(type, password, key) ==
    [kind |-> "CreateCredential", headers |-> Bearer("alice"),
     input |-> [name |-> "new", type |-> type, password |-> password,
                privateKey |-> key, passphrase |-> "p"]]
PatchCred(id, patch) == Cred("UpdateCredential", id) @@ [patch |-> patch]
CredRequests ==
    { NewDevice, [NewDevice EXCEPT !.input.host = "h1"],
      NewCred("PASSWORD", "s", ""), NewCred("SSH_PRIVATE_KEY", "", "k"), NewCred("PASSWORD", "", ""),
      PatchCred("c1", [name |-> "new"]), PatchCred("c1", [type |-> "SSH_PRIVATE_KEY"]),
      PatchCred("c1", [type |-> "SSH_PRIVATE_KEY", privateKey |-> "k", passphrase |-> ""]),
      [PatchCred("c1", <<>>) EXCEPT !.headers = Bearer("bob")], PatchCred("c1", <<>>),
      Cred("DeleteCredential", "c2"), Cred("DeleteCredential", "c1"),
      Patch([cred |-> "c2"]), Detect, Device("TestConnection") }

\* Two submissions with one key while the device row changes; two tasks that
\* want one device; a change and two requests that write its device row; each
\* way while the vendor changes; two requests about credentials while a
\* connection is tested.
MCScenarios ==
    {<<CreateVLAN, b, c>> : b \in {CreateVLAN, CreateVLANAsync},
                            c \in {Detect, Patch([vendor |-> "H3C"])}}
    \cup {<<CreateVLANAsync, ListVLANs, Device("DeleteDevice")>>}
    \cup {<<CreateVLANAsync, b, c>> : b \in {Detect, Patch([host |-> "h2"])}, c \in Races}
    \cup {<<a, Patch([vendor |-> "H3C"]), Cred("DeleteCredential", "c1")>> : a \in Ways \cup {ListVLANs}}
    \cup {<<a, b, Device("TestConnection")>> : a, b \in CredRequests}

-----------------------------------------------------------------------------
(* Algorithms against their references.                                    *)

ASSUME RegistryHasEveryVendor == DOMAIN Registry = Vendors

\* Commands over the tokens the rules of the plugin tell apart.
Words == {Space, "fake.show", "fake.set", "fake.shell", "blocked", "high-risk"}
Commands == {w \in UNION {[1..n -> Words] : n \in 1..4} : w[1] # Space /\ w[Len(w)] # Space}

ASSUME PoliciesAreDefaultDeny ==
    \A op \in CustomCommands :
      LET policy == CustomCommandPolicy(op)
      IN /\ ValidPolicy(policy)
         /\ \A w \in Commands : EvaluateIsDefaultDeny(policy, <<w>>)
         /\ \A v, w \in {u \in Commands : Len(u) <= 2} : EvaluateIsDefaultDeny(policy, <<v, w>>)

SmallBindings == [role : Roles, scope : {globalScope, switchScope("d1"), switchScope("d2")},
                  permissions : {<<>>, <<"operation.query">>}]

ASSUME AuthorizationIsExactOrGlobal ==
    \A bindings \in UNION {[1..n -> SmallBindings] : n \in 0..2},
       target \in {globalScope, switchScope("d1")} :
      AuthorizeIsExactOrGlobal([subject |-> "s", bindings |-> bindings], "operation.query", target)

\* Compare orders versions, and a plugin is compatible with exactly the
\* runtimes of its major version that are not older.
SmallVersions == (0..2) \X (0..2) \X (0..2)

ASSUME VersionsAreOrdered ==
    \A v, w \in SmallVersions :
      /\ Compare(v, w) = -Compare(w, v) /\ (Compare(v, w) = 0 <=> v = w)
      /\ CompatibleWith(v, w) <=>
           /\ v # <<0, 0, 0>> /\ w # <<0, 0, 0>> /\ v[1] = w[1]
           /\ v[2] * 3 + v[3] >= w[2] * 3 + w[3]
=============================================================================
