--------------------------- MODULE CommandSecurity ---------------------------
(***************************************************************************)
(* The trusted evaluation of custom commands: internal/commandsecurity and *)
(* the policy values of pkg/pluginapi/custom_commands.go.                  *)
(*                                                                         *)
(* A command is a sequence of tokens: words, Space and Control (a control  *)
(* character or an invalid byte), one byte each.  A pattern is such a      *)
(* sequence too, so that the prefix match of strings is IsPrefix.          *)
(***************************************************************************)
EXTENDS Integers, Sequences, SequencesExt

Space == " "
Control == "\\x00"

ReadonlyOperation == "command.execute_readonly"
ConfigOperation == "command.execute_config"

\* RiskLevel and riskRank.
riskRank == [LOW |-> 1, MEDIUM |-> 2, HIGH |-> 3, BLOCKED |-> 4]
RiskLevels == DOMAIN riskRank

maxRisk(left, right) == IF riskRank[right] > riskRank[left] THEN right ELSE left

\* CustomCommandEffect: what an allowing rule says of the risk.
EffectRisk == [ALLOW_LOW |-> "LOW", ALLOW_MEDIUM |-> "MEDIUM", ALLOW_HIGH |-> "HIGH"]
Effects == DOMAIN EffectRisk \cup {"BLOCKED"}

-----------------------------------------------------------------------------
(* Policies.                                                               *)

\* CustomCommandRule.Validate.
ValidRule(rule) ==
    /\ rule.id # ""
    /\ rule.match \in {"EXACT", "PREFIX"}
    /\ Len(rule.pattern) > 0 /\ rule.pattern[1] # Space
    /\ Control \notin Range(rule.pattern)
    /\ rule.match = "EXACT" => Last(rule.pattern) # Space
    /\ rule.effect \in Effects

\* 16 MiB.
MaxOutputBytes == 16 * 1024 * 1024

\* CustomCommandLimits.Validate; the times of the limits are left out.
ValidLimits(limits) ==
    /\ limits.maxCommands \in 1..64
    /\ limits.maxCommandBytes \in 1..4096
    /\ limits.maxTotalBytes \in limits.maxCommandBytes..64 * 4096
    /\ limits.maxOutputBytes \in 1..MaxOutputBytes

\* CustomCommandPolicy.Validate.
ValidPolicy(policy) ==
    /\ policy.operation \in {ReadonlyOperation, ConfigOperation}
    /\ policy.class = IF policy.operation = ConfigOperation THEN "CONFIG" ELSE "QUERY"
    /\ ValidLimits(policy.limits)
    /\ Len(policy.rules) \in 1..256
    /\ \A i \in DOMAIN policy.rules : ValidRule(policy.rules[i])
    /\ \A i, j \in DOMAIN policy.rules :
         policy.rules[i].id = policy.rules[j].id => i = j

-----------------------------------------------------------------------------
(* Engine.Evaluate.                                                        *)

validateCommandShape(command, maxBytes) ==
    /\ Len(command) > 0
    /\ Head(command) # Space /\ Last(command) # Space
    /\ Len(command) <= maxBytes
    /\ Control \notin Range(command)

matches(rule, command) ==
    IF rule.match = "EXACT" THEN command = rule.pattern ELSE IsPrefix(rule.pattern, command)

\* The loop of evaluateCommand over the rules.
evaluateCommand(rules, command) ==
    FoldLeft(LAMBDA seen, rule :
                 IF ~matches(rule, command) THEN seen
                 ELSE IF rule.effect = "BLOCKED" THEN [seen EXCEPT !.blocked = TRUE]
                 ELSE [seen EXCEPT !.allowed = TRUE,
                                   !.risk = maxRisk(@, EffectRisk[rule.effect])],
             [allowed |-> FALSE, blocked |-> FALSE, risk |-> "LOW"], rules)

Refused(code) == [error |-> code, risk |-> "LOW"]

\* One round of the loop over the commands.
EvaluateNext(policy, decision, command) ==
    LET verdict == evaluateCommand(policy.rules, command)
        total == decision.bytes + Len(command)
        fail(code) == [decision EXCEPT !.error = code]
    IN IF decision.error # "" THEN decision
         ELSE IF ~validateCommandShape(command, policy.limits.maxCommandBytes)
              THEN fail("VALIDATION_ERROR")
         ELSE IF total > policy.limits.maxTotalBytes THEN fail("VALIDATION_ERROR")
         ELSE IF verdict.blocked \/ ~verdict.allowed THEN fail("DANGEROUS_COMMAND_BLOCKED")
         ELSE [error |-> "", bytes |-> total,
                      risk |-> maxRisk(decision.risk, verdict.risk)]

\* The decision on a sequence of commands: an error, or the risk of the worst.
Evaluate(policy, operation, commands) ==
    IF ~ValidPolicy(policy) \/ policy.operation # operation THEN Refused("INTERNAL_ERROR")
    ELSE IF Len(commands) \notin 1..policy.limits.maxCommands THEN Refused("VALIDATION_ERROR")
    ELSE LET decided == FoldLeft(LAMBDA d, c : EvaluateNext(policy, d, c),
                                 [error |-> "", bytes |-> 0, risk |-> "LOW"], commands)
         IN [error |-> decided.error, risk |-> decided.risk]

\* securedPlugin.ParseResult, the part before the plugin's own: the output of
\* the commands together is within the limit.
OutputWithinLimit(policy, sizes) ==
    FoldLeft(LAMBDA a, b : a + b, 0, sizes) <= policy.limits.maxOutputBytes

-----------------------------------------------------------------------------
(* What the documentation of Evaluate promises, said without the loops: "A *)
(* command is allowed only if at least one non-blocking rule matches, and  *)
(* any matching BLOCKED rule wins over every allow rule."                  *)

MatchedEffects(policy, command) ==
    {policy.rules[i].effect : i \in {j \in DOMAIN policy.rules :
                                       matches(policy.rules[j], command)}}

\* For a valid policy, and commands of good shape within the limits, Evaluate
\* accepts exactly the sequences in which every command is matched by some
\* rule and by no blocking one, and its risk bounds every matched effect and
\* is reached by one.
EvaluateIsDefaultDeny(policy, commands) ==
    LET all == UNION {MatchedEffects(policy, commands[i]) : i \in DOMAIN commands}
        accepted == \A i \in DOMAIN commands :
                        LET e == MatchedEffects(policy, commands[i]) IN e # {} /\ "BLOCKED" \notin e
        decision == Evaluate(policy, policy.operation, commands)
    IN /\ (decision.error = "") <=> accepted
       /\ accepted =>
            /\ \A e \in all : riskRank[EffectRisk[e]] <= riskRank[decision.risk]
            /\ decision.risk = "LOW" \/ \E e \in all : EffectRisk[e] = decision.risk
=============================================================================
