------------------------------ MODULE FakePlugin ------------------------------
(***************************************************************************)
(* The plugin and the device runtime the application is wired with:        *)
(* src/plugins/fake and src/internal/fakeruntime, one plugin instance for  *)
(* each vendor.  The VLAN operations, config.save and the custom commands  *)
(* are modelled; interfaces, routes, ACLs and telemetry follow the same    *)
(* path with other tables and are left out.                                *)
(*                                                                         *)
(* A command is [words, vlan, name]: its tokens and, for a VLAN command,   *)
(* the payload behind them.  A device's VLANs are a function from numbers  *)
(* to names.                                                               *)
(***************************************************************************)
EXTENDS PluginRegistry, CommandSecurity

SaveConfigOperation == "config.save"
VLANQueries == {"vlan.list", "vlan.get"}
VLANChanges == {"vlan.create", "vlan.update", "vlan.delete"}
CustomCommands == {ReadonlyOperation, ConfigOperation}

\* pluginapi.CurrentSDKVersion.
SDKVersion == <<1, 0, 0>>

Operations == <<"diagnostic.echo", SaveConfigOperation, "vlan.list", "vlan.get",
                "vlan.create", "vlan.update", "vlan.delete",
                ReadonlyOperation, ConfigOperation>>

Metadata(vendor) ==
    [name |-> <<"fake", vendor>>, vendor |-> vendor, version |-> <<1, 5, 0>>,
     sdk |-> SDKVersion, operations |-> Operations]

\* The registry app.go fills: a plugin for each vendor.
Registry ==
    FoldLeft(LAMBDA entries, vendor : Register(entries, SDKVersion, Metadata(vendor)).entries,
             <<>>, <<"HUAWEI", "H3C">>)

\* Everything on the model the fixture knows, the echo query on any other.
Capabilities(info) ==
    [op \in Range(Operations) |->
       IF op = "diagnostic.echo" \/ info.model = "FAKE-SW" THEN "SUPPORTED" ELSE "UNSUPPORTED"]

-----------------------------------------------------------------------------
(* Custom commands.                                                        *)

Rule(id, pattern, effect) ==
    [id |-> id, match |-> "PREFIX", pattern |-> pattern, effect |-> effect]

CustomCommandRules ==
    [op \in CustomCommands |->
       IF op = ReadonlyOperation
       THEN << Rule("allow", <<"fake.show", Space>>, "ALLOW_LOW"),
               Rule("block-overlap", <<"fake.show", Space, "blocked">>, "BLOCKED"),
               Rule("block-config", <<"fake.set", Space>>, "BLOCKED"),
               Rule("block-shell", <<"fake.shell">>, "BLOCKED"),
               Rule("block-reboot", <<"fake.reboot">>, "BLOCKED") >>
       ELSE << Rule("allow", <<"fake.set", Space>>, "ALLOW_MEDIUM"),
               Rule("high", <<"fake.set", Space, "high-risk", Space>>, "ALLOW_HIGH"),
               Rule("block-overlap", <<"fake.set", Space, "blocked">>, "BLOCKED"),
               Rule("block-shell", <<"fake.shell">>, "BLOCKED"),
               Rule("block-reboot", <<"fake.reboot">>, "BLOCKED") >>]

\* The error of CustomCommandPolicy and the policy.
CustomCommandPolicyError(info, op) ==
    IF info.model = "FAKE-SW" /\ op \in CustomCommands THEN "" ELSE "UNSUPPORTED_OPERATION"

CustomCommandPolicy(op) ==
    [operation |-> op, class |-> IF op = ConfigOperation THEN "CONFIG" ELSE "QUERY",
     limits |-> [maxCommands |-> 8, maxCommandBytes |-> 256, maxTotalBytes |-> 1024,
                 maxOutputBytes |-> 4096],
     rules |-> CustomCommandRules[op]]

-----------------------------------------------------------------------------
(* BuildPlan: the error of the plugin API, or the plan.                    *)

Command(words, vlan, name) == [words |-> words, vlan |-> vlan, name |-> name]

\* vlanCommand accepts the parameters.
vlanCommandAccepts(op, parameters) ==
    /\ parameters.vlan \in 1..4094
    /\ op \in {"vlan.get", "vlan.delete"} => parameters.name = ""
    /\ op = "vlan.update" => parameters.name # ""

\* buildCustomCommandPlan.
buildCustomCommandPlan(request) ==
    [class |-> CustomCommandPolicy(request.op).class,
     risk |-> IF request.op = ConfigOperation THEN "MEDIUM" ELSE "LOW",
     enterConfig |-> request.op = ConfigOperation,
     accepts |-> request.parameters.commands # <<>>,
     commands |-> [i \in DOMAIN request.parameters.commands |->
                     Command(request.parameters.commands[i], 0, "")]]

\* The switch of BuildPlan: the class an operation must have, its risk, its
\* mode, whether its parameters are good and its commands.
PlanFor(request) ==
    LET op == request.op
        p == request.parameters
        change == op \in VLANChanges
    IN IF op \in CustomCommands THEN buildCustomCommandPlan(request)
         ELSE IF op = SaveConfigOperation THEN
              [class |-> "CONFIG", risk |-> "MEDIUM", enterConfig |-> FALSE,
               accepts |-> ~request.save /\ p.vlan = 0 /\ p.name = "",
               commands |-> <<Command(<<"fake.config.save">>, 0, "")>>]
         ELSE IF op = "vlan.list" THEN
              [class |-> "QUERY", risk |-> "LOW", enterConfig |-> FALSE,
               accepts |-> p.vlan = 0 /\ p.name = "",
               commands |-> <<Command(<<op>>, 0, "")>>]
         ELSE
              [class |-> IF change THEN "CONFIG" ELSE "QUERY",
               risk |-> IF change THEN "MEDIUM" ELSE "LOW", enterConfig |-> change,
               accepts |-> vlanCommandAccepts(op, p),
               commands |-> <<Command(<<op>>, p.vlan, p.name)>>]

\* The checks of BuildPlan, given the case for the operation.
BuildPlanFor(request, for) ==
    LET meta == Metadata(request.info.vendor)
        plan == [device |-> request.device, vendor |-> request.info.vendor,
                 plugin |-> meta.name, version |-> meta.version, op |-> request.op,
                 class |-> request.class, commands |-> for.commands,
                 enterConfig |-> for.enterConfig, save |-> request.save, risk |-> for.risk]
    IN IF ~ValidPlanRequest(request) THEN [error |-> "INVALID_REQUEST"]
       ELSE IF Capabilities(request.info)[request.op] = "UNSUPPORTED"
            THEN [error |-> "UNSUPPORTED_OPERATION"]
       ELSE IF request.class # for.class \/ ~for.accepts THEN [error |-> "INVALID_REQUEST"]
       ELSE IF ~ValidPlan(plan) THEN [error |-> "PLAN_INVALID"]
       ELSE [error |-> "", plan |-> plan]

BuildPlan(request) == BuildPlanFor(request, PlanFor(request))

-----------------------------------------------------------------------------
(* The device: what a command answers, and the VLANs it leaves.            *)

\* session.execute; size stands for the bytes of the output.
execute(command, vlans) ==
    LET op == command.words[1]
        known == command.vlan \in DOMAIN vlans
        answer(code, after) ==
            [text |-> command, error |-> code, size |-> 1, vlans |-> after]
        named == (command.vlan :> command.name)
    IN IF op = "vlan.get" /\ ~known THEN answer("RESOURCE_NOT_FOUND", vlans)
         ELSE IF op = "vlan.create" /\ known THEN answer("STATE_CONFLICT", vlans)
         ELSE IF op \in {"vlan.update", "vlan.delete"} /\ ~known THEN answer("RESOURCE_NOT_FOUND", vlans)
         ELSE IF op = "vlan.create" THEN answer("", named @@ vlans)
         ELSE IF op = "vlan.update" THEN answer("", named @@ vlans)
         ELSE IF op = "vlan.delete" THEN answer("", [v \in DOMAIN vlans \ {command.vlan} |-> vlans[v]])
         ELSE IF op \in {"vlan.list", "vlan.get", "fake.config.save"} THEN answer("", vlans)
         ELSE IF command.words = <<"fake.show", Space, "large">>
              THEN [answer("", vlans) EXCEPT !.size = 5000]
         ELSE IF op \in {"fake.show", "fake.set"} /\ Len(command.words) > 1 THEN answer("", vlans)
         ELSE answer("COMMAND_REJECTED", vlans)

\* ParseResult: the first failed record decides.
ParseResult(plan, transcript) ==
    LET failed == {i \in DOMAIN transcript : transcript[i].error # ""}
        result == IF failed = {} THEN [status |-> "SUCCESS", error |-> ""]
                  ELSE [status |-> "FAILED", error |-> transcript[Min(failed)].error]
    IN IF ValidTranscript(transcript, plan) /\ ValidResult(result) THEN result
       ELSE [status |-> "UNPARSABLE", error |-> "COMMAND_OUTPUT_UNPARSABLE"]
=============================================================================
