---------------------------- MODULE PluginRegistry ----------------------------
(***************************************************************************)
(* The registry of vendor plugins (internal/pluginregistry) and the values *)
(* of the plugin SDK it checks (pkg/pluginapi): versions, metadata,        *)
(* capabilities, execution plans, transcripts and results.                 *)
(*                                                                         *)
(* The registry is filled when the application starts and never changes    *)
(* afterwards.  A version is a triple; a plan is a record [device, vendor, *)
(* plugin, version, op, class, commands, enterConfig, save, risk]; its     *)
(* identifiers are fresh for each submission and are left out.             *)
(***************************************************************************)
EXTENDS Integers, Sequences, SequencesExt

Vendors == {"HUAWEI", "H3C"}
Classes == {"QUERY", "CONFIG", "BACKUP", "RESTORE"}

-----------------------------------------------------------------------------
(* Versions.                                                               *)

ValidVersion(v) == v # <<0, 0, 0>>

\* Version.Compare: the first component that differs decides.
Compare(v, other) ==
    LET differ == {i \in 1..3 : v[i] # other[i]}
        first == CHOOSE i \in differ : \A j \in differ : i <= j
    IN IF differ = {} THEN 0 ELSE IF v[first] < other[first] THEN -1 ELSE 1

\* Version.CompatibleWith.
CompatibleWith(runtime, required) ==
    /\ ValidVersion(runtime) /\ ValidVersion(required)
    /\ runtime[1] = required[1]
    /\ Compare(required, runtime) <= 0

-----------------------------------------------------------------------------
(* Metadata and the registry: vendor |-> metadata.                         *)

\* Metadata.Validate.
ValidMetadata(meta, runtime) ==
    /\ meta.vendor \in Vendors
    /\ ValidVersion(meta.version) /\ ValidVersion(meta.sdk)
    /\ CompatibleWith(runtime, meta.sdk)
    /\ meta.operations # <<>> /\ IsInjective(meta.operations)

Declares(meta, op) == op \in Range(meta.operations)

\* Registry.Register: the error, or the registry with the plugin.
Register(entries, runtime, meta) ==
    IF ValidVersion(meta.sdk) /\ ~CompatibleWith(runtime, meta.sdk)
           THEN [error |-> "ErrIncompatibleSDK", entries |-> entries]
      ELSE IF ~ValidMetadata(meta, runtime)
           THEN [error |-> "invalid metadata", entries |-> entries]
      ELSE IF meta.vendor \in DOMAIN entries
           THEN [error |-> "ErrDuplicateVendor", entries |-> entries]
      ELSE [error |-> "", entries |-> (meta.vendor :> meta) @@ entries]

\* NewCapabilitySet and ValidateAgainst: a function from operations to levels
\* speaks only of declared ones.
ValidCapabilities(capabilities, meta) == DOMAIN capabilities \subseteq Range(meta.operations)

\* Registry.LookupCapability, given what the plugin's Capabilities answered:
\* an operation it does not mention is unsupported.
LookupCapability(entries, vendor, info, op, capabilities) ==
    IF vendor \notin DOMAIN entries THEN [error |-> "ErrPluginNotFound"]
      ELSE IF info.vendor # vendor THEN [error |-> "vendor mismatch"]
      ELSE IF ~Declares(entries[vendor], op) THEN [error |-> "UNSUPPORTED_OPERATION"]
      ELSE IF ~ValidCapabilities(capabilities, entries[vendor]) THEN [error |-> "PLAN_INVALID"]
      ELSE [error |-> "", level |-> IF op \in DOMAIN capabilities
                                           THEN capabilities[op] ELSE "UNSUPPORTED"]

-----------------------------------------------------------------------------
(* Plans, transcripts and results.                                         *)

\* PlanRequest.Validate.
ValidPlanRequest(request) ==
    /\ request.info.vendor \in Vendors
    /\ request.class \in Classes
    /\ request.save => request.class = "CONFIG"

\* ExecutionPlan.Validate.
ValidPlan(plan) ==
    /\ plan.vendor \in Vendors /\ plan.class \in Classes
    /\ plan.risk \in {"LOW", "MEDIUM", "HIGH", "BLOCKED"}
    /\ plan.save => plan.class = "CONFIG"
    /\ plan.commands # <<>>
    /\ \A i \in DOMAIN plan.commands : plan.commands[i].words # <<>>

\* Transcript.ValidateAgainst: a record for each command up to the first that
\* failed; a record is [text, error, size].
ValidTranscript(transcript, plan) ==
    /\ ValidPlan(plan)
    /\ Len(transcript) \in 1..Len(plan.commands)
    /\ \A i \in DOMAIN transcript : transcript[i].text = plan.commands[i]
    /\ Len(transcript) < Len(plan.commands) => Last(transcript).error # ""

\* OperationResult.Validate.
ValidResult(result) ==
    /\ result.status \in {"SUCCESS", "PARTIAL_SUCCESS", "FAILED"}
    /\ (result.status = "SUCCESS") = (result.error = "")
=============================================================================
