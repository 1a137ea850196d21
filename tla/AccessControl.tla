---------------------------- MODULE AccessControl ----------------------------
(***************************************************************************)
(* Who may do what: the bearer token (internal/authn, auth_middleware.go), *)
(* the user and the role bindings read from PostgreSQL                     *)
(* (access_repository.go), and the decision on one permission in one scope *)
(* (internal/domain/auth/access.go).  The users, their bindings and the    *)
(* verifier's configuration change only outside this program.              *)
(*                                                                         *)
(* A header is a record [scheme, token]; a token has the fields below, a   *)
(* claim that is not there is Absent and a blank one "".  "sound" is the   *)
(* verdict of the JWT library on signature, issuer, audience and times.    *)
(***************************************************************************)
EXTENDS Integers, Sequences, SequencesExt

CONSTANTS Users,     \* subject |-> [status, bindings]
          KeyID,     \* JWTConfig.KeyID, "" when none is configured
          Absent     \* no value: a claim that is missing, a role not found

-----------------------------------------------------------------------------
(* Scopes, bindings and principals.                                        *)

ScopeTypes == {"GLOBAL", "ENVIRONMENT", "PROJECT", "RESOURCE_GROUP",
               "SWITCH_GROUP", "SPECIFIC_RESOURCE"}

Roles == {"ADMIN", "AUDITOR", "VIEWER"}

ASSUME AbsentAssumption == Absent \notin Roles

\* Scope.Validate.
ValidScope(scope) ==
    /\ scope.type \in ScopeTypes
    /\ (scope.type = "GLOBAL") = (scope.id = "")

\* Scope.Covers.
Covers(scope, target) ==
    /\ ValidScope(scope) /\ ValidScope(target)
    /\ scope.type = "GLOBAL" \/ scope = target

\* Binding.Validate; the permissions are a sequence without repetition.
ValidBinding(binding) ==
    /\ binding.role \in Roles
    /\ ValidScope(binding.scope)
    /\ IsInjective(binding.permissions)

\* Principal.Validate.
ValidPrincipal(principal) ==
    /\ principal.subject # ""
    /\ \A i \in DOMAIN principal.bindings : ValidBinding(principal.bindings[i])

bindingHasPermission(binding, permission) == permission \in Range(binding.permissions)

roleRank == [ADMIN |-> 3, AUDITOR |-> 2, VIEWER |-> 1]

\* One pass of Authorize over the bindings, the exact ones or the global ones:
\* the first of the highest rank among those that hold the permission.
BestRole(bindings, permission, target, exact) ==
    LET granting(b) == /\ IF exact THEN b.scope = target ELSE b.scope.type = "GLOBAL"
                       /\ bindingHasPermission(b, permission)
    IN FoldLeft(LAMBDA best, b :
                    IF granting(b) /\ (best = Absent \/ roleRank[b.role] > roleRank[best])
                    THEN b.role ELSE best,
                Absent, bindings)

\* Principal.Authorize: the role that grants the permission, or Absent.
Authorize(principal, permission, target) ==
    LET pass(exact) == BestRole(principal.bindings, permission, target, exact)
    IN IF ~ValidPrincipal(principal) \/ ~ValidScope(target) THEN Absent
       ELSE IF pass(TRUE) # Absent THEN pass(TRUE) ELSE pass(FALSE)

-----------------------------------------------------------------------------
(* Authentication.                                                         *)

\* AccessRepository.ResolveBySubject.
ResolveBySubject(subject) ==
    IF subject \notin DOMAIN Users \/ Users[subject].status # "ACTIVE"
    THEN [error |-> "FORBIDDEN"]
    ELSE LET principal == [subject |-> subject, bindings |-> Users[subject].bindings]
         IN IF ValidPrincipal(principal) THEN [error |-> "", principal |-> principal]
            ELSE [error |-> "INTERNAL_ERROR"]

\* JWTVerifier.Verify accepts the token.
Verifies(token) ==
    /\ token.alg = "RS256"
    /\ KeyID # "" => token.kid = KeyID
    /\ token.sound
    /\ token.sub \notin {Absent, ""}
    /\ token.username # "" /\ token.serviceActor # ""

\* Service.Authenticate.
Authenticate(token) ==
    IF Verifies(token) THEN ResolveBySubject(token.sub) ELSE [error |-> "UNAUTHORIZED"]

\* AuthenticationMiddleware: exactly one Authorization header, a bearer token.
AuthenticateRequest(headers) ==
    IF Len(headers) = 1 /\ headers[1].scheme = "Bearer"
    THEN Authenticate(headers[1].token)
    ELSE [error |-> "UNAUTHORIZED"]

\* RequirePermission, given who was authenticated: "" or the error, and the
\* role ActorFromRequest puts into the actor.
Granted(principal, role) ==
    IF role = Absent THEN [error |-> "FORBIDDEN"]
    ELSE [error |-> "", actor |-> principal.subject, role |-> role]

RequirePermission(who, permission, target) ==
    IF who.error # "" THEN [error |-> who.error]
    ELSE Granted(who.principal, Authorize(who.principal, permission, target))

Require(headers, permission, target) ==
    RequirePermission(AuthenticateRequest(headers), permission, target)

-----------------------------------------------------------------------------
(* The routes of the handlers: permission by operation.                    *)

globalScope == [type |-> "GLOBAL", id |-> ""]
switchScope(id) == [type |-> "SPECIFIC_RESOURCE", id |-> id]

\* VLANHandlers.Register.
VLANRoutes ==
    [o \in {"vlan.list", "vlan.get"} |-> "operation.query"]
    @@ [o \in {"vlan.create", "vlan.update", "vlan.delete"} |-> "operation.config"]

\* CustomCommandHandlers.Register.
CustomCommandRoutes ==
    ("command.execute_readonly" :> "operation.custom_read")
    @@ ("command.execute_config" :> "operation.custom_config")

\* InventoryHandlers.Register: the requests of module Inventory.
InventoryRoutes ==
    [k \in {"CreateCredential", "UpdateCredential", "DeleteCredential"} |-> "credential.manage"]
    @@ [k \in {"CreateDevice", "UpdateDevice", "DeleteDevice", "TestConnection", "Detect"}
          |-> "device.manage"]

\* Credentials and new devices are asked for in the global scope.
InventoryScope(r) ==
    IF r.kind \in {"UpdateDevice", "DeleteDevice", "TestConnection", "Detect"}
    THEN switchScope(r.id) ELSE globalScope

-----------------------------------------------------------------------------
(* What Authorize promises, without the passes: a permission is granted    *)
(* exactly when a binding that covers the target holds it, and the role is *)
(* the highest among the exact bindings if one of those grants it, among   *)
(* the global ones otherwise.                                              *)

AuthorizeIsExactOrGlobal(principal, permission, target) ==
    LET granting == {b \in Range(principal.bindings) :
                       Covers(b.scope, target) /\ bindingHasPermission(b, permission)}
        exact == {b \in granting : b.scope = target}
        used == IF exact # {} THEN exact ELSE granting
        role == Authorize(principal, permission, target)
    IN /\ (role # Absent) <=> (granting # {})
       /\ granting # {} =>
            /\ \E b \in used : b.role = role
            /\ \A b \in used : roleRank[b.role] <= roleRank[role]
=============================================================================
