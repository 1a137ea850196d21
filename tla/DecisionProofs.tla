---------------------------- MODULE DecisionProofs ----------------------------
(***************************************************************************)
(* Theorems about decisions, for every input: what the loops of            *)
(* commandsecurity.Evaluate, over the rules of a policy and the commands   *)
(* of a request, and of Principal.Authorize, over the bindings of a        *)
(* principal, compute; and which plugins a runtime is compatible with.     *)
(*                                                                         *)
(* The library's induction theorems take an operator as a parameter.       *)
(* SetInduction says the same of a set, from the well-foundedness of the   *)
(* order on the natural numbers, and the loops are unrolled with it.       *)
(***************************************************************************)
EXTENDS AccessControl, CommandSecurity, PluginRegistry, WellFoundedInduction, TLAPS

\* Induction over the natural numbers, for a set.
LEMMA SetInduction ==
  ASSUME NEW G, 0 \in G, \A n \in Nat : n \in G => n + 1 \in G
  PROVE  \A n \in Nat : n \in G
<1> DEFINE B == {n \in Nat : n \notin G}
<1>1. IsWellFoundedOn(OpToRel(<, Nat), Nat)
  BY NatLessThanWellFounded
<1>2. B # {} => \E x \in B : \A y \in B : ~(<<y, x>> \in OpToRel(<, Nat))
  <2>1. B \subseteq Nat
    OBVIOUS
  <2> HIDE DEF B
  <2> QED BY <1>1, <2>1, WFMin
<1>3. ASSUME B # {} PROVE FALSE
  <2>1. PICK x \in B : \A y \in B : ~(<<y, x>> \in OpToRel(<, Nat))
    BY <1>2, <1>3
  <2>2. \A y \in B : ~ (y < x)
    BY <2>1 DEF OpToRel
  <2>3. x # 0 /\ x - 1 \in Nat /\ x - 1 \in G
    BY <2>2
  <2>4. x = (x - 1) + 1
    OBVIOUS
  <2> QED BY <2>1, <2>3, <2>4
<1> QED BY <1>3

\* The largest of a set of numbers up to k + 1 that holds k + 1.
LEMMA MaxOfSegment ==
  ASSUME NEW k \in Nat, NEW s \in SUBSET (1..(k + 1)), k + 1 \in s
  PROVE  Max(s) = k + 1 /\ s \ {Max(s)} \in SUBSET (1..k)
<1>1. \A y \in s : k + 1 >= y
  OBVIOUS
<1>2. \A x \in s : (\A y \in s : x >= y) => x = k + 1
  OBVIOUS
<1>3. Max(s) = k + 1
  BY <1>1, <1>2 DEF Max
<1> QED BY <1>3

\* The largest of a set of numbers up to n is one of them.
LEMMA MaxInSegment ==
  ASSUME NEW n \in Nat, NEW s \in SUBSET (1..n), s # {}
  PROVE  Max(s) \in s /\ \A y \in s : Max(s) >= y
<1> DEFINE G == {k \in Nat : \A u \in SUBSET (1..k) : u # {} => \E x \in u : \A y \in u : x >= y}
<1>1. 0 \in G
  <2>1. 1..0 = {}
    OBVIOUS
  <2> QED BY <2>1
<1>2. ASSUME NEW k \in Nat, k \in G PROVE k + 1 \in G
  <2> SUFFICES ASSUME NEW u \in SUBSET (1..(k+1)), u # {} PROVE \E x \in u : \A y \in u : x >= y
    OBVIOUS
  <2>1. CASE k + 1 \in u
    BY <2>1
  <2>2. CASE k + 1 \notin u
    <3>1. u \in SUBSET (1..k)
      BY <2>2
    <3> QED BY <3>1, <1>2
  <2> QED BY <2>1, <2>2
<1>3. n \in G
  <2> HIDE DEF G
  <2> QED BY <1>1, <1>2, SetInduction
<1>4. \E x \in s : \A y \in s : x >= y
  BY <1>3
<1> QED BY <1>4 DEF Max

FoldedBy(g, b, n, F) ==
  \A s \in SUBSET (1..n) : g[s] = IF s = {} THEN b ELSE F[Max(s)][g[s \ {Max(s)}]]

\* The function by which a fold is defined exists.
LEMMA FoldFunctionExists ==
  ASSUME NEW D, NEW b \in D, NEW n \in Nat, NEW F \in [1..n -> [D -> D]]
  PROVE  \E g \in [SUBSET (1..n) -> D] : FoldedBy(g, b, n, F)
<1> DEFINE P(g, k) == \A s \in SUBSET (1..k) :
               g[s] = IF s = {} THEN b ELSE F[Max(s)][g[s \ {Max(s)}]]
           E(k) == \E g \in [SUBSET (1..k) -> D] : P(g, k)
           G == {k \in Nat : k <= n => E(k)}
<1>1. 0 \in G
  <2>1. SUBSET (1..0) = {{}}
    OBVIOUS
  <2>2. [s \in SUBSET (1..0) |-> b] \in [SUBSET (1..0) -> D] /\ P([s \in SUBSET (1..0) |-> b], 0)
    BY <2>1
  <2> QED BY <2>2
<1>2. ASSUME NEW k \in Nat, k \in G PROVE k + 1 \in G
  <2> SUFFICES ASSUME k + 1 <= n PROVE E(k + 1)
    <3> HIDE DEF E
    <3> QED OBVIOUS
  <2>0. E(k)
    <3> HIDE DEF E
    <3> QED BY <1>2
  <2>1. PICK g \in [SUBSET (1..k) -> D] : P(g, k)
    BY <2>0
  <2> DEFINE h == [s \in SUBSET (1..(k+1)) |-> IF k + 1 \in s THEN F[k+1][g[s \ {k+1}]] ELSE g[s]]
  <2>2. \A s \in SUBSET (1..(k+1)) : k + 1 \notin s => s \in SUBSET (1..k)
    OBVIOUS
  <2>3. \A s \in SUBSET (1..(k+1)) : s \ {k + 1} \in SUBSET (1..k)
    OBVIOUS
  <2>4. h \in [SUBSET (1..(k+1)) -> D]
    <3>1. F[k+1] \in [D -> D]
      OBVIOUS
    <3> QED BY <2>1, <2>2, <2>3, <3>1
  <2>5. ASSUME NEW s \in SUBSET (1..(k+1)), k + 1 \in s
        PROVE h[s] = IF s = {} THEN b ELSE F[Max(s)][h[s \ {Max(s)}]]
    <3>1. Max(s) = k + 1 /\ s \ {Max(s)} \in SUBSET (1..k)
      BY <2>5, MaxOfSegment
    <3>2. s \ {k+1} \in SUBSET (1..(k+1)) /\ k + 1 \notin s \ {k+1}
      OBVIOUS
    <3>3. h[s \ {k+1}] = g[s \ {k+1}]
      BY <3>2
    <3>4. h[s] = F[k+1][g[s \ {k+1}]]
      BY <2>5
    <3> QED BY <2>5, <3>1, <3>3, <3>4
  <2>6. ASSUME NEW s \in SUBSET (1..(k+1)), k + 1 \notin s
        PROVE h[s] = IF s = {} THEN b ELSE F[Max(s)][h[s \ {Max(s)}]]
    <3>1. s \in SUBSET (1..k) /\ h[s] = g[s]
      BY <2>6, <2>2
    <3>2. s \ {Max(s)} \in SUBSET (1..(k+1)) /\ k + 1 \notin s \ {Max(s)}
      BY <2>6
    <3>3. h[s \ {Max(s)}] = g[s \ {Max(s)}]
      BY <3>2
    <3> HIDE DEF h
    <3> QED BY <2>1, <3>1, <3>3
  <2>7. P(h, k + 1)
    <3> HIDE DEF h
    <3> QED BY <2>5, <2>6
  <2> HIDE DEF h, P
  <2> QED BY <2>4, <2>7
<1>3. n \in G
  <2> HIDE DEF G
  <2> QED BY <1>1, <1>2, SetInduction
<1>4. E(n)
  <2> HIDE DEF E
  <2> QED BY <1>3
<1> QED BY <1>4 DEF FoldedBy

Verdicts == [allowed : BOOLEAN, blocked : BOOLEAN, risk : RiskLevels]

NoVerdict == [allowed |-> FALSE, blocked |-> FALSE, risk |-> "LOW"]

RuleStep(command, seen, rule) ==
    IF ~matches(rule, command) THEN seen
    ELSE IF rule.effect = "BLOCKED" THEN [seen EXCEPT !.blocked = TRUE]
    ELSE [seen EXCEPT !.allowed = TRUE, !.risk = maxRisk(@, EffectRisk[rule.effect])]

\* What an initial segment gains with one more number.
LEMMA Segments ==
  ASSUME NEW k \in Nat
  PROVE  /\ 1..(k+1) # {} /\ Max(1..(k+1)) = k + 1 /\ (1..(k+1)) \ {k+1} = 1..k
         /\ 1..0 = {}
         /\ k + 1 \in 1..(k+1) /\ \A i \in 1..k : i \in 1..(k+1)
         /\ \A i \in 1..(k+1) : i \in 1..k \/ i = k + 1
<1>1. k + 1 \in 1..(k+1) /\ \A i \in 1..k : i \in 1..(k+1)
  OBVIOUS
<1>2. \A i \in 1..(k+1) : i \in 1..k \/ i = k + 1
  OBVIOUS
<1>3. (1..(k+1)) \ {k+1} = 1..k /\ 1..0 = {}
  OBVIOUS
<1>4. Max(1..(k+1)) = k + 1
  BY <1>1, MaxOfSegment
<1> QED BY <1>1, <1>2, <1>3, <1>4

\* A verdict stays a verdict under one more rule.
LEMMA RuleStepType ==
  ASSUME NEW d \in Verdicts, NEW command, NEW rule, rule.effect \in Effects
  PROVE  RuleStep(command, d, rule) \in Verdicts
<1>1. d.risk \in RiskLevels
  BY DEF Verdicts
<1>2. rule.effect # "BLOCKED" => EffectRisk[rule.effect] \in RiskLevels
  BY DEF Effects, EffectRisk, RiskLevels, riskRank
<1>3. rule.effect # "BLOCKED" => maxRisk(d.risk, EffectRisk[rule.effect]) \in RiskLevels
  BY <1>1, <1>2 DEF maxRisk
<1> QED BY <1>3 DEF RuleStep, Verdicts

\* What evaluateCommand computes is what a loop over the rules, in their
\* order, computes.
LEMMA EvaluateCommandFold ==
  ASSUME NEW n \in Nat, NEW rules, DOMAIN rules = 1..n, NEW command,
         \A i \in 1..n : rules[i].effect \in Effects
  PROVE  \E v : /\ v[0] = NoVerdict
                /\ \A k \in Nat : k + 1 \in 1..n => v[k + 1] = RuleStep(command, v[k], rules[k + 1])
                /\ evaluateCommand(rules, command) = v[n]
<1> DEFINE F == [k \in 1..n |-> [d \in Verdicts |-> RuleStep(command, d, rules[k])]]
           Body(g) == [s \in SUBSET (DOMAIN rules) |->
                         IF s = {} THEN NoVerdict
                         ELSE RuleStep(command, g[s \ {Max(s)}], rules[Max(s)])]
           it == CHOOSE g : g = Body(g)
           v == [k \in 0..n |-> it[1..k]]
<1>1. \E g : g = Body(g)
  <2>1. F \in [1..n -> [Verdicts -> Verdicts]]
    BY RuleStepType
  <2>2. NoVerdict \in Verdicts
    BY DEF NoVerdict, Verdicts, RiskLevels, riskRank
  <2>3. PICK g \in [SUBSET (1..n) -> Verdicts] : FoldedBy(g, NoVerdict, n, F)
    <3> HIDE DEF F
    <3> QED BY <2>1, <2>2, FoldFunctionExists
  <2>4. ASSUME NEW s \in SUBSET (1..n), s # {}
        PROVE  F[Max(s)][g[s \ {Max(s)}]] = RuleStep(command, g[s \ {Max(s)}], rules[Max(s)])
    <3>1. Max(s) \in 1..n
      BY <2>4, MaxInSegment
    <3>2. g[s \ {Max(s)}] \in Verdicts
      OBVIOUS
    <3> QED BY <3>1, <3>2
  <2>5. g = Body(g)
    <3> HIDE DEF F
    <3> QED BY <2>3, <2>4 DEF FoldedBy
  <2> QED BY <2>5
<1>2. it = Body(it)
  <2> HIDE DEF Body
  <2> QED BY <1>1
<1>3. evaluateCommand(rules, command) = it[DOMAIN rules]
  BY DEF evaluateCommand, FoldLeft, MapThenFoldSet, RuleStep, NoVerdict
<1> HIDE DEF it
<1>4. v[0] = NoVerdict
  <2>1. 1..0 = {} /\ {} \in SUBSET (DOMAIN rules)
    OBVIOUS
  <2>2. it[{}] = NoVerdict
    BY <1>2, <2>1
  <2> QED BY <2>1, <2>2
<1>5. ASSUME NEW k \in Nat, k + 1 \in 1..n
      PROVE  v[k + 1] = RuleStep(command, v[k], rules[k + 1])
  <2>1. v[k + 1] = it[1..(k+1)] /\ v[k] = it[1..k]
    BY <1>5
  <2>2. it[1..(k+1)] = RuleStep(command, it[(1..(k+1)) \ {Max(1..(k+1))}], rules[Max(1..(k+1))])
    <3>1. 1..(k+1) \in SUBSET (1..n) /\ k + 1 \in 1..(k+1)
      BY <1>5
    <3> QED BY <1>2, <3>1
  <2> QED BY <2>1, <2>2, Segments
<1>6. evaluateCommand(rules, command) = v[n]
  BY <1>3
<1> HIDE DEF v
<1> QED BY <1>4, <1>5, <1>6

\* What the rules up to the k-th say of a command.
VerdictUpTo(v, rules, command, k) ==
    LET matched == {i \in 1..k : matches(rules[i], command)}
    IN /\ v \in Verdicts
       /\ v.blocked <=> \E i \in matched : rules[i].effect = "BLOCKED"
       /\ v.allowed <=> \E i \in matched : rules[i].effect # "BLOCKED"
       /\ \A i \in matched : rules[i].effect # "BLOCKED" =>
             riskRank[EffectRisk[rules[i].effect]] <= riskRank[v.risk]
       /\ v.risk = "LOW" \/ \E i \in matched :
             rules[i].effect # "BLOCKED" /\ EffectRisk[rules[i].effect] = v.risk

\* Every risk and every effect that allows has its rank.
LEMMA RiskRanks ==
  /\ \A a \in RiskLevels : riskRank[a] \in Nat
  /\ \A e \in Effects : e # "BLOCKED" => EffectRisk[e] \in RiskLevels
<1>1. \A a \in RiskLevels : riskRank[a] \in Nat
  BY DEF RiskLevels, riskRank
<1>2. \A e \in Effects : e # "BLOCKED" => EffectRisk[e] \in RiskLevels
  BY DEF Effects, EffectRisk, RiskLevels, riskRank
<1> QED BY <1>1, <1>2

\* Ranks are numbers.
LEMMA RankTransitive ==
  ASSUME NEW a \in RiskLevels, NEW b \in RiskLevels, NEW c \in RiskLevels,
         riskRank[a] <= riskRank[b], riskRank[b] <= riskRank[c]
  PROVE  riskRank[a] <= riskRank[c]
  BY RiskRanks

\* maxRisk is the higher of two risks.
LEMMA MaxRiskIsMax ==
  ASSUME NEW a \in RiskLevels, NEW b \in RiskLevels
  PROVE  /\ maxRisk(a, b) \in {a, b}
         /\ riskRank[a] <= riskRank[maxRisk(a, b)] /\ riskRank[b] <= riskRank[maxRisk(a, b)]
  BY DEF maxRisk, RiskLevels, riskRank

\* A command's verdict: blocked if a blocking rule matches, allowed if another
\* does, at the highest risk of those.
LEMMA EvaluateCommandVerdict ==
  ASSUME NEW n \in Nat, NEW rules, DOMAIN rules = 1..n, NEW command,
         \A i \in 1..n : rules[i].effect \in Effects
  PROVE  VerdictUpTo(evaluateCommand(rules, command), rules, command, n)
<1>1. PICK v : /\ v[0] = NoVerdict
               /\ \A k \in Nat : k + 1 \in 1..n => v[k + 1] = RuleStep(command, v[k], rules[k + 1])
               /\ evaluateCommand(rules, command) = v[n]
  BY EvaluateCommandFold
<1> DEFINE G == {k \in Nat : k <= n => VerdictUpTo(v[k], rules, command, k)}
<1>2. 0 \in G
  <2>1. 1..0 = {}
    OBVIOUS
  <2>2. NoVerdict \in Verdicts
    BY DEF NoVerdict, Verdicts, RiskLevels, riskRank
  <2>3. VerdictUpTo(NoVerdict, rules, command, 0)
    BY <2>1, <2>2 DEF VerdictUpTo, NoVerdict
  <2> QED BY <1>1, <2>3
<1>3. ASSUME NEW k \in Nat, k \in G PROVE k + 1 \in G
  <2> SUFFICES ASSUME k + 1 <= n PROVE VerdictUpTo(v[k + 1], rules, command, k + 1)
    OBVIOUS
  <2> DEFINE w == v[k]
             r == rules[k + 1]
             x == v[k + 1]
  <2>1. VerdictUpTo(w, rules, command, k)
    BY <1>3
  <2>2. x = RuleStep(command, w, r) /\ r.effect \in Effects /\ x \in Verdicts
    <3>1. k + 1 \in 1..n
      OBVIOUS
    <3> QED BY <1>1, <2>1, <3>1, RuleStepType DEF VerdictUpTo
  <2>3. \A i \in 1..(k+1) : i \in 1..k \/ i = k + 1
    OBVIOUS
  <2>4. \A i \in 1..k : i \in 1..(k + 1)
    OBVIOUS
  <2>9. k + 1 \in 1..(k + 1)
    OBVIOUS
  <2> HIDE DEF w, x
  <2>5. CASE ~matches(r, command)
    <3>1. x = w
      BY <2>2, <2>5 DEF RuleStep
    <3> QED BY <2>1, <2>3, <2>4, <2>5, <3>1 DEF VerdictUpTo, x
  <2>6. CASE matches(r, command) /\ r.effect = "BLOCKED"
    <3>1. x.blocked = TRUE /\ x.allowed = w.allowed /\ x.risk = w.risk
      BY <2>1, <2>2, <2>6 DEF RuleStep, Verdicts, VerdictUpTo
    <3> QED BY <2>1, <2>2, <2>3, <2>4, <2>6, <2>9, <3>1 DEF VerdictUpTo, x
  <2>7. CASE matches(r, command) /\ r.effect # "BLOCKED"
    <3>1. x.blocked = w.blocked /\ x.allowed = TRUE /\ x.risk = maxRisk(w.risk, EffectRisk[r.effect])
      BY <2>1, <2>2, <2>7 DEF RuleStep, Verdicts, VerdictUpTo
    <3>2. w.risk \in RiskLevels /\ EffectRisk[r.effect] \in RiskLevels
      BY <2>1, <2>2, <2>7 DEF VerdictUpTo, Verdicts, Effects, EffectRisk, RiskLevels, riskRank
    <3>3. /\ x.risk \in {w.risk, EffectRisk[r.effect]}
          /\ riskRank[w.risk] <= riskRank[x.risk] /\ riskRank[EffectRisk[r.effect]] <= riskRank[x.risk]
      BY <3>1, <3>2, MaxRiskIsMax
    <3>4. \A a \in RiskLevels : riskRank[a] \in Nat
      BY DEF RiskLevels, riskRank
    <3>5. \A i \in 1..(k+1) : rules[i].effect # "BLOCKED" => EffectRisk[rules[i].effect] \in RiskLevels
      BY DEF Effects, EffectRisk, RiskLevels, riskRank
    <3>6. x.risk \in RiskLevels
      BY <3>2, <3>3
    <3>7. \A i \in {j \in 1..(k+1) : matches(rules[j], command)} : rules[i].effect # "BLOCKED" =>
             riskRank[EffectRisk[rules[i].effect]] <= riskRank[x.risk]
      BY <2>1, <2>3, <3>2, <3>3, <3>4, <3>5, <3>6 DEF VerdictUpTo
    <3>8. x.risk = "LOW" \/ \E i \in {j \in 1..(k+1) : matches(rules[j], command)} :
             rules[i].effect # "BLOCKED" /\ EffectRisk[rules[i].effect] = x.risk
      BY <2>1, <2>4, <2>7, <2>9, <3>3 DEF VerdictUpTo
    <3>9. x.blocked <=> \E i \in {j \in 1..(k+1) : matches(rules[j], command)} : rules[i].effect = "BLOCKED"
      BY <2>1, <2>3, <2>4, <2>7, <3>1 DEF VerdictUpTo
    <3>10. x.allowed <=> \E i \in {j \in 1..(k+1) : matches(rules[j], command)} : rules[i].effect # "BLOCKED"
      BY <2>7, <2>9, <3>1
    <3> QED BY <2>2, <3>7, <3>8, <3>9, <3>10 DEF VerdictUpTo, x
  <2> QED BY <2>5, <2>6, <2>7
<1>4. n \in G
  <2> HIDE DEF G
  <2> QED BY <1>2, <1>3, SetInduction
<1> QED BY <1>1, <1>4

\* What the loop of evaluateCommand says of a command, by the effects of the
\* rules that match it.
LEMMA VerdictByEffects ==
  ASSUME NEW R, NEW policy, policy.rules \in Seq(R), ValidPolicy(policy), NEW command
  PROVE  LET v == evaluateCommand(policy.rules, command)
             M == MatchedEffects(policy, command)
         IN /\ v \in Verdicts /\ M \subseteq Effects
            /\ v.blocked <=> "BLOCKED" \in M
            /\ v.allowed <=> \E e \in M : e # "BLOCKED"
            /\ \A e \in M : e # "BLOCKED" => riskRank[EffectRisk[e]] <= riskRank[v.risk]
            /\ v.risk = "LOW" \/ \E e \in M : e # "BLOCKED" /\ EffectRisk[e] = v.risk
<1> DEFINE n == Len(policy.rules)
           v == evaluateCommand(policy.rules, command)
           M == MatchedEffects(policy, command)
<1>1. n \in Nat /\ DOMAIN policy.rules = 1..n
  OBVIOUS
<1>2. \A i \in 1..n : policy.rules[i].effect \in Effects
  BY <1>1 DEF ValidPolicy, ValidRule
<1> HIDE DEF n
<1>3. VerdictUpTo(v, policy.rules, command, n)
  BY <1>1, <1>2, EvaluateCommandVerdict
<1>4. \A e : e \in M <=> \E i \in 1..n : matches(policy.rules[i], command) /\ policy.rules[i].effect = e
  BY <1>1 DEF MatchedEffects
<1> HIDE DEF v, M
<1>5. M \subseteq Effects
  BY <1>2, <1>4
<1>6. v.blocked <=> "BLOCKED" \in M
  BY <1>3, <1>4 DEF VerdictUpTo
<1>7. v.allowed <=> \E e \in M : e # "BLOCKED"
  BY <1>3, <1>4 DEF VerdictUpTo
<1>8. \A e \in M : e # "BLOCKED" => riskRank[EffectRisk[e]] <= riskRank[v.risk]
  BY <1>3, <1>4 DEF VerdictUpTo
<1>9. v.risk = "LOW" \/ \E e \in M : e # "BLOCKED" /\ EffectRisk[e] = v.risk
  BY <1>3, <1>4 DEF VerdictUpTo
<1> QED BY <1>3, <1>5, <1>6, <1>7, <1>8, <1>9 DEF VerdictUpTo, v, M

-----------------------------------------------------------------------------
(* The loop of Evaluate over the commands.                                 *)

DecisionCodes == {"", "VALIDATION_ERROR", "DANGEROUS_COMMAND_BLOCKED"}
Decisions == [error : DecisionCodes, bytes : Nat, risk : RiskLevels]
NoDecision == [error |-> "", bytes |-> 0, risk |-> "LOW"]

\* A round of the loop leads from a decision to a decision.
LEMMA EvaluateNextType ==
  ASSUME NEW R, NEW policy, policy.rules \in Seq(R), ValidPolicy(policy),
         NEW W, NEW command \in Seq(W), NEW d \in Decisions
  PROVE  EvaluateNext(policy, d, command) \in Decisions
<1> DEFINE verdict == evaluateCommand(policy.rules, command)
<1>1. verdict \in Verdicts
  BY VerdictByEffects
<1>2. verdict.risk \in RiskLevels
  BY <1>1 DEF Verdicts
<1>3. d.risk \in RiskLevels /\ d.bytes \in Nat /\ d.error \in DecisionCodes
  BY DEF Decisions
<1>4. maxRisk(d.risk, verdict.risk) \in RiskLevels
  BY <1>2, <1>3 DEF maxRisk
<1>5. d.bytes + Len(command) \in Nat
  BY <1>3
<1>6. \A code \in DecisionCodes : [d EXCEPT !.error = code] \in Decisions
  BY DEF Decisions
<1>7. [error |-> "", bytes |-> d.bytes + Len(command), risk |-> maxRisk(d.risk, verdict.risk)] \in Decisions
  BY <1>4, <1>5 DEF Decisions, DecisionCodes
<1>8. {"VALIDATION_ERROR", "DANGEROUS_COMMAND_BLOCKED"} \subseteq DecisionCodes
  BY DEF DecisionCodes
<1> HIDE DEF verdict
<1> QED BY <1>6, <1>7, <1>8 DEF EvaluateNext, verdict

\* d[k] is the decision after k commands, and the last one the answer.
Decided(d, policy, commands) ==
    /\ d[0] = NoDecision
    /\ \A k \in Nat : k + 1 \in 1..Len(commands) =>
          d[k + 1] = EvaluateNext(policy, d[k], commands[k + 1])
    /\ Evaluate(policy, policy.operation, commands) =
          [error |-> d[Len(commands)].error, risk |-> d[Len(commands)].risk]

\* The fold of Evaluate, step by step.
LEMMA EvaluateFold ==
  ASSUME NEW R, NEW policy, policy.rules \in Seq(R), ValidPolicy(policy),
         NEW W, NEW commands \in Seq(Seq(W)),
         Len(commands) \in 1..policy.limits.maxCommands
  PROVE  \E d : Decided(d, policy, commands)
<1> DEFINE n == Len(commands)
           F == [k \in 1..n |-> [d \in Decisions |-> EvaluateNext(policy, d, commands[k])]]
           Body(g) == [s \in SUBSET (DOMAIN commands) |->
                         IF s = {} THEN NoDecision
                         ELSE EvaluateNext(policy, g[s \ {Max(s)}], commands[Max(s)])]
           it == CHOOSE g : g = Body(g)
           d == [k \in 0..n |-> it[1..k]]
<1>0. n \in Nat /\ DOMAIN commands = 1..n /\ \A k \in 1..n : commands[k] \in Seq(W)
  OBVIOUS
<1>3. Evaluate(policy, policy.operation, commands) =
        [error |-> it[DOMAIN commands].error, risk |-> it[DOMAIN commands].risk]
  BY DEF Evaluate, FoldLeft, MapThenFoldSet, NoDecision
<1> HIDE DEF n
<1>1. \E g : g = Body(g)
  <2>1. F \in [1..n -> [Decisions -> Decisions]]
    BY <1>0, EvaluateNextType
  <2>2. NoDecision \in Decisions
    BY DEF NoDecision, Decisions, DecisionCodes, RiskLevels, riskRank
  <2>3. PICK g \in [SUBSET (1..n) -> Decisions] : FoldedBy(g, NoDecision, n, F)
    <3> HIDE DEF F
    <3> QED BY <1>0, <2>1, <2>2, FoldFunctionExists
  <2>4. ASSUME NEW s \in SUBSET (1..n), s # {}
        PROVE  F[Max(s)][g[s \ {Max(s)}]] = EvaluateNext(policy, g[s \ {Max(s)}], commands[Max(s)])
    <3>1. Max(s) \in 1..n
      BY <1>0, <2>4, MaxInSegment
    <3>2. g[s \ {Max(s)}] \in Decisions
      OBVIOUS
    <3> QED BY <3>1, <3>2
  <2>5. g = Body(g)
    <3> HIDE DEF F
    <3> QED BY <1>0, <2>3, <2>4 DEF FoldedBy
  <2> QED BY <2>5
<1>2. it = Body(it)
  <2> HIDE DEF Body
  <2> QED BY <1>1
<1> HIDE DEF it
<1>4. d[0] = NoDecision
  <2>1. 1..0 = {} /\ {} \in SUBSET (DOMAIN commands)
    OBVIOUS
  <2>2. it[{}] = NoDecision
    BY <1>2, <2>1
  <2> QED BY <1>0, <2>1, <2>2
<1>5. ASSUME NEW k \in Nat, k + 1 \in 1..n
      PROVE  d[k + 1] = EvaluateNext(policy, d[k], commands[k + 1])
  <2>1. d[k + 1] = it[1..(k+1)] /\ d[k] = it[1..k]
    BY <1>0, <1>5
  <2>2. it[1..(k+1)] = EvaluateNext(policy, it[(1..(k+1)) \ {Max(1..(k+1))}], commands[Max(1..(k+1))])
    <3>1. 1..(k+1) \in SUBSET (1..n) /\ k + 1 \in 1..(k+1)
      BY <1>0, <1>5
    <3> QED BY <1>0, <1>2, <3>1
  <2> QED BY <2>1, <2>2, Segments
<1>6. it[DOMAIN commands] = d[n]
  BY <1>0
<1> HIDE DEF d
<1> QED BY <1>3, <1>4, <1>5, <1>6 DEF n, Decided

\* What the decision on the first k commands says.
DecisionUpTo(d, policy, commands, k) ==
    /\ d \in Decisions
    /\ d.error = "" =>
         /\ \A i \in 1..k : LET e == MatchedEffects(policy, commands[i])
                            IN e # {} /\ "BLOCKED" \notin e
         /\ \A i \in 1..k : \A e \in MatchedEffects(policy, commands[i]) :
              riskRank[EffectRisk[e]] <= riskRank[d.risk]
         /\ d.risk = "LOW" \/ \E i \in 1..k : \E e \in MatchedEffects(policy, commands[i]) :
              EffectRisk[e] = d.risk

\* One more command.
LEMMA DecisionStep ==
  ASSUME NEW R, NEW policy, policy.rules \in Seq(R), ValidPolicy(policy),
         NEW W, NEW command \in Seq(W), NEW commands, NEW k \in Nat, command = commands[k + 1],
         NEW d, DecisionUpTo(d, policy, commands, k)
  PROVE  DecisionUpTo(EvaluateNext(policy, d, command), policy, commands, k + 1)
<1> DEFINE v == evaluateCommand(policy.rules, command)
           M == MatchedEffects(policy, command)
           x == EvaluateNext(policy, d, command)
<1>1. d \in Decisions
  BY DEF DecisionUpTo
<1>2. x \in Decisions
  BY <1>1, EvaluateNextType
<1>3. /\ v \in Verdicts /\ M \subseteq Effects
      /\ v.blocked <=> "BLOCKED" \in M
      /\ v.allowed <=> \E e \in M : e # "BLOCKED"
      /\ \A e \in M : e # "BLOCKED" => riskRank[EffectRisk[e]] <= riskRank[v.risk]
      /\ v.risk = "LOW" \/ \E e \in M : e # "BLOCKED" /\ EffectRisk[e] = v.risk
  BY VerdictByEffects
<1> SUFFICES ASSUME x.error = ""
             PROVE  /\ \A i \in 1..(k+1) : LET e == MatchedEffects(policy, commands[i])
                                           IN e # {} /\ "BLOCKED" \notin e
                    /\ \A i \in 1..(k+1) : \A e \in MatchedEffects(policy, commands[i]) :
                         riskRank[EffectRisk[e]] <= riskRank[x.risk]
                    /\ x.risk = "LOW" \/ \E i \in 1..(k+1) :
                         \E e \in MatchedEffects(policy, commands[i]) : EffectRisk[e] = x.risk
  BY <1>2 DEF DecisionUpTo
<1>4. d.error = "" /\ ~v.blocked /\ v.allowed /\ x.risk = maxRisk(d.risk, v.risk)
  <2>1. d.error # "" => x = d
    BY DEF EvaluateNext
  <2>2. \A code : code # "" => [d EXCEPT !.error = code].error # ""
    BY <1>1 DEF Decisions
  <2> QED BY <1>1, <2>1, <2>2 DEF EvaluateNext
<1>5. d.risk \in RiskLevels /\ v.risk \in RiskLevels
  BY <1>1, <1>3 DEF Decisions, Verdicts
<1>6. /\ x.risk \in {d.risk, v.risk}
      /\ riskRank[d.risk] <= riskRank[x.risk] /\ riskRank[v.risk] <= riskRank[x.risk]
  BY <1>4, <1>5, MaxRiskIsMax
<1>7. x.risk \in RiskLevels
  BY <1>5, <1>6
<1> HIDE DEF x, v, M
<1>8. \A a \in RiskLevels : riskRank[a] \in Nat
  BY RiskRanks
<1>9. \A e \in Effects : e # "BLOCKED" => EffectRisk[e] \in RiskLevels
  BY RiskRanks
<1>10. \A i \in 1..(k+1) : i \in 1..k \/ i = k + 1
  BY Segments
<1>11. k + 1 \in 1..(k+1) /\ \A i \in 1..k : i \in 1..(k+1)
  BY Segments
<1>12. \A i \in 1..k : MatchedEffects(policy, commands[i]) \subseteq Effects
  BY VerdictByEffects
<1>13. \A i \in 1..(k+1) : MatchedEffects(policy, commands[i]) # {}
                           /\ "BLOCKED" \notin MatchedEffects(policy, commands[i])
  <2>1. M # {} /\ "BLOCKED" \notin M
    BY <1>3, <1>4
  <2> QED BY <1>4, <1>10, <2>1 DEF DecisionUpTo, M
<1>14. ASSUME NEW i \in 1..(k+1), NEW e \in MatchedEffects(policy, commands[i])
       PROVE  riskRank[EffectRisk[e]] <= riskRank[x.risk]
  <2>1. CASE i = k + 1
    <3>1. e \in M /\ e # "BLOCKED"
      BY <1>13, <2>1 DEF M
    <3>2. riskRank[EffectRisk[e]] <= riskRank[v.risk] /\ EffectRisk[e] \in RiskLevels
      BY <1>3, <1>9, <3>1
    <3> QED BY <1>5, <1>6, <1>7, <3>2, RankTransitive
  <2>2. CASE i \in 1..k
    <3>1. riskRank[EffectRisk[e]] <= riskRank[d.risk]
      BY <1>4, <2>2 DEF DecisionUpTo
    <3>2. EffectRisk[e] \in RiskLevels
      BY <1>9, <1>12, <1>13, <2>2
    <3> QED BY <1>5, <1>6, <1>7, <3>1, <3>2, RankTransitive
  <2> QED BY <1>10, <2>1, <2>2
<1>15. x.risk = "LOW" \/ \E i \in 1..(k+1) :
          \E e \in MatchedEffects(policy, commands[i]) : EffectRisk[e] = x.risk
  <2>1. CASE x.risk = d.risk
    BY <1>4, <1>11, <2>1 DEF DecisionUpTo
  <2>2. CASE x.risk = v.risk
    BY <1>3, <1>11, <2>2 DEF M
  <2> QED BY <1>6, <2>1, <2>2
<1> QED BY <1>13, <1>14, <1>15

\* The decision on a sequence of commands.
LEMMA EvaluateDecision ==
  ASSUME NEW R, NEW policy, policy.rules \in Seq(R), ValidPolicy(policy),
         NEW W, NEW commands \in Seq(Seq(W)),
         Len(commands) \in 1..policy.limits.maxCommands
  PROVE  \E d : /\ DecisionUpTo(d, policy, commands, Len(commands))
                /\ Evaluate(policy, policy.operation, commands) = [error |-> d.error, risk |-> d.risk]
<1>1. PICK d : Decided(d, policy, commands)
  BY EvaluateFold
<1> DEFINE n == Len(commands)
           G == {k \in Nat : k <= n => DecisionUpTo(d[k], policy, commands, k)}
<1>2. n \in Nat /\ \A k \in 1..n : commands[k] \in Seq(W)
  OBVIOUS
<1> HIDE DEF n
<1>3. 0 \in G
  <2>1. NoDecision \in Decisions
    BY DEF NoDecision, Decisions, DecisionCodes, RiskLevels, riskRank
  <2>2. 1..0 = {}
    OBVIOUS
  <2>3. DecisionUpTo(NoDecision, policy, commands, 0)
    BY <2>1, <2>2 DEF DecisionUpTo, NoDecision
  <2> QED BY <1>1, <2>3 DEF Decided
<1>4. ASSUME NEW k \in Nat, k \in G PROVE k + 1 \in G
  <2> SUFFICES ASSUME k + 1 <= n PROVE DecisionUpTo(d[k + 1], policy, commands, k + 1)
    OBVIOUS
  <2>1. k + 1 \in 1..n /\ DecisionUpTo(d[k], policy, commands, k)
    BY <1>2, <1>4
  <2>2. PICK command \in Seq(W) : command = commands[k + 1]
    BY <1>2, <2>1
  <2>3. d[k + 1] = EvaluateNext(policy, d[k], command)
    BY <1>1, <2>1, <2>2 DEF n, Decided
  <2> QED BY <2>1, <2>2, <2>3, DecisionStep
<1>5. n \in G
  <2> HIDE DEF G
  <2> QED BY <1>2, <1>3, <1>4, SetInduction
<1>6. DecisionUpTo(d[n], policy, commands, n)
  BY <1>2, <1>5
<1> QED BY <1>1, <1>6 DEF n, Decided

\* Engine.Evaluate, for every policy and every sequence of commands: it
\* answers one of its codes and a risk level, and what it accepts holds no
\* command that a blocking rule matches or that no rule allows, and is no
\* riskier than the decision says.
THEOREM EvaluateAcceptsOnlyAllowed ==
  ASSUME NEW R, NEW policy, policy.rules \in Seq(R), NEW operation,
         NEW W, NEW commands \in Seq(Seq(W))
  PROVE  LET decision == Evaluate(policy, operation, commands)
         IN /\ decision.error \in DecisionCodes \cup {"INTERNAL_ERROR"}
            /\ decision.risk \in RiskLevels
            /\ decision.error = "" =>
                 \A i \in DOMAIN commands :
                   LET effects == MatchedEffects(policy, commands[i])
                   IN /\ effects # {} /\ "BLOCKED" \notin effects
                      /\ \A e \in effects : riskRank[EffectRisk[e]] <= riskRank[decision.risk]
<1> DEFINE decision == Evaluate(policy, operation, commands)
<1>1. CASE ~ValidPolicy(policy) \/ policy.operation # operation
  <2>1. decision = [error |-> "INTERNAL_ERROR", risk |-> "LOW"]
    BY <1>1 DEF Evaluate, Refused
  <2> HIDE DEF decision
  <2> QED BY <2>1 DEF RiskLevels, riskRank, decision
<1>2. CASE ValidPolicy(policy) /\ policy.operation = operation
           /\ Len(commands) \notin 1..policy.limits.maxCommands
  <2>1. decision = [error |-> "VALIDATION_ERROR", risk |-> "LOW"]
    BY <1>2 DEF Evaluate, Refused
  <2> HIDE DEF decision
  <2> QED BY <2>1 DEF RiskLevels, riskRank, DecisionCodes, decision
<1>3. CASE ValidPolicy(policy) /\ policy.operation = operation
           /\ Len(commands) \in 1..policy.limits.maxCommands
  <2>1. PICK d : /\ DecisionUpTo(d, policy, commands, Len(commands))
                 /\ decision = [error |-> d.error, risk |-> d.risk]
    BY <1>3, EvaluateDecision
  <2>2. decision.error = d.error /\ decision.risk = d.risk
    BY <2>1
  <2>3. DOMAIN commands = 1..Len(commands)
    OBVIOUS
  <2>4. d.error \in DecisionCodes /\ d.risk \in RiskLevels
    BY <2>1 DEF DecisionUpTo, Decisions
  <2> HIDE DEF decision
  <2> QED BY <2>1, <2>2, <2>3, <2>4 DEF DecisionUpTo, decision
<1> QED BY <1>1, <1>2, <1>3

\* The commands are of good shape and within the limits of the policy;
\* bytes[i] is the length of the first i of them together.
WithinLimits(policy, commands, bytes) ==
    /\ Len(commands) \in 1..policy.limits.maxCommands
    /\ \A i \in DOMAIN commands : validateCommandShape(commands[i], policy.limits.maxCommandBytes)
    /\ bytes[0] = 0
    /\ \A k \in Nat : k + 1 \in DOMAIN commands =>
         /\ bytes[k + 1] = bytes[k] + Len(commands[k + 1])
         /\ ~(bytes[k + 1] > policy.limits.maxTotalBytes)

\* A round of the loop over a command that is allowed.
LEMMA AllowedStep ==
  ASSUME NEW R, NEW policy, policy.rules \in Seq(R), ValidPolicy(policy),
         NEW W, NEW command \in Seq(W), NEW d \in Decisions, d.error = "",
         validateCommandShape(command, policy.limits.maxCommandBytes),
         ~(d.bytes + Len(command) > policy.limits.maxTotalBytes),
         MatchedEffects(policy, command) # {}, "BLOCKED" \notin MatchedEffects(policy, command)
  PROVE  /\ EvaluateNext(policy, d, command) \in Decisions
         /\ EvaluateNext(policy, d, command).error = ""
         /\ EvaluateNext(policy, d, command).bytes = d.bytes + Len(command)
<1> DEFINE total == d.bytes + Len(command)
           v == evaluateCommand(policy.rules, command)
           x == EvaluateNext(policy, d, command)
<1>1. x \in Decisions
  BY EvaluateNextType
<1>2. ~v.blocked /\ v.allowed
  BY VerdictByEffects
<1> HIDE DEF v, x, total
<1>3. x = [error |-> "", bytes |-> total, risk |-> maxRisk(d.risk, v.risk)]
  BY <1>2, Zenon DEF EvaluateNext, v, x, total
<1>4. x.error = "" /\ x.bytes = total
  BY <1>3
<1> QED BY <1>1, <1>4 DEF x, total

\* Every command is allowed and within the limits: there is no error.
LEMMA AllowedIsAccepted ==
  ASSUME NEW R, NEW policy, policy.rules \in Seq(R), ValidPolicy(policy),
         NEW W, NEW commands \in Seq(Seq(W)), NEW bytes, WithinLimits(policy, commands, bytes),
         \A i \in DOMAIN commands : LET e == MatchedEffects(policy, commands[i])
                                    IN e # {} /\ "BLOCKED" \notin e
  PROVE  Evaluate(policy, policy.operation, commands).error = ""
<1> DEFINE n == Len(commands)
<1>1. n \in Nat /\ DOMAIN commands = 1..n /\ \A k \in 1..n : commands[k] \in Seq(W)
  OBVIOUS
<1>2. PICK f : Decided(f, policy, commands)
  <2>1. Len(commands) \in 1..policy.limits.maxCommands
    BY DEF WithinLimits
  <2> QED BY <2>1, EvaluateFold
<1> DEFINE Good(k) == f[k] \in Decisions /\ f[k].error = "" /\ f[k].bytes = bytes[k]
           G == {k \in Nat : k <= n => Good(k)}
<1> HIDE DEF n
<1>3. 0 \in G
  <2>1. NoDecision \in Decisions
    BY DEF NoDecision, Decisions, DecisionCodes, RiskLevels, riskRank
  <2>2. NoDecision.error = "" /\ NoDecision.bytes = 0
    BY DEF NoDecision
  <2>3. bytes[0] = 0
    BY DEF WithinLimits
  <2> QED BY <1>2, <2>1, <2>2, <2>3 DEF Decided
<1>4. ASSUME NEW k \in Nat, k \in G PROVE k + 1 \in G
  <2> SUFFICES ASSUME k + 1 <= n PROVE Good(k + 1)
    <3> HIDE DEF Good
    <3> QED OBVIOUS
  <2>1. Good(k)
    <3> HIDE DEF Good
    <3> QED BY <1>1, <1>4
  <2>2. k + 1 \in 1..n
    BY <1>1
  <2>3. PICK command \in Seq(W) : command = commands[k + 1]
    BY <1>1, <2>2
  <2>4. f[k + 1] = EvaluateNext(policy, f[k], command)
    BY <1>2, <2>2, <2>3 DEF Decided, n
  <2>5. /\ validateCommandShape(command, policy.limits.maxCommandBytes)
        /\ bytes[k + 1] = bytes[k] + Len(command)
        /\ ~(bytes[k + 1] > policy.limits.maxTotalBytes)
    BY <1>1, <2>2, <2>3 DEF WithinLimits
  <2>6. MatchedEffects(policy, command) # {} /\ "BLOCKED" \notin MatchedEffects(policy, command)
    BY <1>1, <2>2, <2>3
  <2>7. f[k] \in Decisions /\ f[k].error = "" /\ f[k].bytes = bytes[k]
    BY <2>1
  <2>8. bytes[k + 1] = f[k].bytes + Len(command)
    BY <2>5, <2>7
  <2> DEFINE x == EvaluateNext(policy, f[k], command)
             total == bytes[k + 1]
             g == f[k]
             l == policy.limits.maxTotalBytes
  <2> HIDE DEF Good, G, total, g
  <2>9. /\ total = g.bytes + Len(command) /\ ~(g.bytes + Len(command) > l)
        /\ g \in Decisions /\ g.error = ""
    BY <2>5, <2>7, <2>8, Zenon DEF total, g
  <2>10. /\ EvaluateNext(policy, g, command) \in Decisions
         /\ EvaluateNext(policy, g, command).error = ""
         /\ EvaluateNext(policy, g, command).bytes = total
    BY <2>5, <2>6, <2>9, AllowedStep, Zenon
  <2> QED BY <2>4, <2>10 DEF Good, total, g
<1>5. n \in G
  <2> HIDE DEF G
  <2> QED BY <1>1, <1>3, <1>4, SetInduction
<1>6. Good(n)
  <2> HIDE DEF Good
  <2> QED BY <1>1, <1>5
<1>7. f[n].error = ""
  BY <1>6
<1> DEFINE d == f[n]
<1>8. Evaluate(policy, policy.operation, commands) = [error |-> d.error, risk |-> d.risk]
  BY <1>2, Zenon DEF Decided, n
<1> HIDE DEF d
<1>9. d.error = ""
  BY <1>7 DEF d
<1>10. \A a, b : [error |-> a, risk |-> b].error = a
  OBVIOUS
<1> QED BY <1>8, <1>9, <1>10, Zenon

\* Engine.Evaluate is the default-deny decision its documentation promises:
\* for every valid policy and every sequence of commands of good shape and
\* within the limits it accepts exactly the sequences in which each command
\* is matched by some rule and by no blocking one, and its risk is the
\* highest of the matched effects.
THEOREM EvaluateDefaultDeny ==
  ASSUME NEW R, NEW policy, policy.rules \in Seq(R), ValidPolicy(policy),
         NEW W, NEW commands \in Seq(Seq(W)), NEW bytes, WithinLimits(policy, commands, bytes)
  PROVE  EvaluateIsDefaultDeny(policy, commands)
<1> DEFINE n == Len(commands)
           decision == Evaluate(policy, policy.operation, commands)
           all == UNION {MatchedEffects(policy, commands[i]) : i \in DOMAIN commands}
           accepted == \A i \in DOMAIN commands : LET e == MatchedEffects(policy, commands[i])
                                                  IN e # {} /\ "BLOCKED" \notin e
<1>1. PICK d : /\ DecisionUpTo(d, policy, commands, n)
               /\ decision = [error |-> d.error, risk |-> d.risk]
  BY EvaluateDecision DEF WithinLimits
<1>2. n \in Nat /\ DOMAIN commands = 1..n
  OBVIOUS
<1>3. decision.error = d.error /\ decision.risk = d.risk
  BY <1>1
<1>4. decision.error = "" => accepted
  <2> HIDE DEF decision, n
  <2> QED BY <1>1, <1>2, <1>3 DEF DecisionUpTo
<1>5. accepted => decision.error = ""
  BY AllowedIsAccepted
<1>6. accepted => /\ \A e \in all : riskRank[EffectRisk[e]] <= riskRank[decision.risk]
                  /\ decision.risk = "LOW" \/ \E e \in all : EffectRisk[e] = decision.risk
  <2> HIDE DEF decision, n
  <2> QED BY <1>1, <1>2, <1>3, <1>5 DEF DecisionUpTo
<1> HIDE DEF decision
<1> QED BY <1>4, <1>5, <1>6 DEF EvaluateIsDefaultDeny, decision

-----------------------------------------------------------------------------
(* Authorize.                                                              *)

\* The bindings one pass of Authorize looks at.
Counts(b, permission, target, exact) ==
    /\ IF exact THEN b.scope = target ELSE b.scope.type = "GLOBAL"
    /\ bindingHasPermission(b, permission)

\* One turn of the loop of a pass.
RoleStep(best, b, permission, target, exact) ==
    IF Counts(b, permission, target, exact) /\ (best = Absent \/ roleRank[b.role] > roleRank[best])
    THEN b.role ELSE best

\* The values of the best role in the turns of a pass.
IsPass(v, n, bindings, permission, target, exact) ==
    /\ v[0] = Absent
    /\ \A k \in Nat : k + 1 \in 1..n =>
         v[k + 1] = RoleStep(v[k], bindings[k + 1], permission, target, exact)
    /\ BestRole(bindings, permission, target, exact) = v[n]

\* What a pass computes is what a loop over the bindings, in their order,
\* computes.
LEMMA BestRoleFold ==
  ASSUME NEW n \in Nat, NEW bindings, DOMAIN bindings = 1..n, NEW permission, NEW target, NEW exact,
         \A i \in 1..n : bindings[i].role \in Roles
  PROVE  \E v : IsPass(v, n, bindings, permission, target, exact)
<1> DEFINE D == Roles \cup {Absent}
           Step(d, b) == RoleStep(d, b, permission, target, exact)
           F == [k \in 1..n |-> [d \in D |-> Step(d, bindings[k])]]
           Body(g) == [s \in SUBSET (DOMAIN bindings) |->
                         IF s = {} THEN Absent
                         ELSE Step(g[s \ {Max(s)}], bindings[Max(s)])]
           it == CHOOSE g : g = Body(g)
           v == [k \in 0..n |-> it[1..k]]
<1>1. \E g : g = Body(g)
  <2>1. F \in [1..n -> [D -> D]]
    BY DEF RoleStep
  <2>2. Absent \in D
    OBVIOUS
  <2>3. PICK g \in [SUBSET (1..n) -> D] : FoldedBy(g, Absent, n, F)
    <3> HIDE DEF F, D
    <3> QED BY <2>1, <2>2, FoldFunctionExists
  <2>4. ASSUME NEW s \in SUBSET (1..n), s # {}
        PROVE  F[Max(s)][g[s \ {Max(s)}]] = Step(g[s \ {Max(s)}], bindings[Max(s)])
    <3>1. Max(s) \in 1..n
      BY <2>4, MaxInSegment
    <3>2. g[s \ {Max(s)}] \in D
      OBVIOUS
    <3> HIDE DEF D, Step
    <3> QED BY <3>1, <3>2
  <2>5. g = Body(g)
    <3> HIDE DEF F, D
    <3> QED BY <2>3, <2>4 DEF FoldedBy
  <2> QED BY <2>5
<1>2. it = Body(it)
  <2> HIDE DEF Body
  <2> QED BY <1>1
<1>3. BestRole(bindings, permission, target, exact) = it[DOMAIN bindings]
  BY DEF BestRole, FoldLeft, MapThenFoldSet, RoleStep, Counts
<1> HIDE DEF it, Step
<1>4. v[0] = Absent
  <2>1. 1..0 = {} /\ {} \in SUBSET (DOMAIN bindings)
    OBVIOUS
  <2>2. it[{}] = Absent
    BY <1>2, <2>1
  <2> QED BY <2>1, <2>2
<1>5. ASSUME NEW k \in Nat, k + 1 \in 1..n
      PROVE  v[k + 1] = Step(v[k], bindings[k + 1])
  <2>1. v[k + 1] = it[1..(k+1)] /\ v[k] = it[1..k]
    BY <1>5
  <2>2. it[1..(k+1)] = Step(it[(1..(k+1)) \ {Max(1..(k+1))}], bindings[Max(1..(k+1))])
    <3>1. 1..(k+1) \in SUBSET (1..n) /\ k + 1 \in 1..(k+1)
      BY <1>5
    <3> QED BY <1>2, <3>1
  <2> QED BY <2>1, <2>2, Segments
<1>6. BestRole(bindings, permission, target, exact) = v[n]
  BY <1>3
<1> HIDE DEF v
<1> QED BY <1>4, <1>5, <1>6 DEF Step, IsPass

\* The best role among the first k bindings: none when no binding counts,
\* otherwise the role of one that counts, and no other that counts is above.
BestUpTo(role, bindings, permission, target, exact, k) ==
    LET granting == {i \in 1..k : Counts(bindings[i], permission, target, exact)}
    IN /\ role = Absent <=> granting = {}
       /\ role # Absent => \E i \in granting : bindings[i].role = role
       /\ \A i \in granting : roleRank[bindings[i].role] <= roleRank[role]

\* One more binding.
LEMMA BestRoleStep ==
  ASSUME NEW bindings, NEW permission, NEW target, NEW exact, NEW k \in Nat,
         \A i \in 1..(k + 1) : bindings[i].role \in Roles, NEW best,
         BestUpTo(best, bindings, permission, target, exact, k)
  PROVE  BestUpTo(RoleStep(best, bindings[k + 1], permission, target, exact),
                  bindings, permission, target, exact, k + 1)
<1> DEFINE C(i) == Counts(bindings[i], permission, target, exact)
           r(i) == bindings[i].role
           next == RoleStep(best, bindings[k + 1], permission, target, exact)
<1>1. /\ \A i \in 1..(k+1) : i \in 1..k \/ i = k + 1
      /\ \A i \in 1..k : i \in 1..(k + 1)
      /\ k + 1 \in 1..(k + 1)
  OBVIOUS
<1>2. \A a \in Roles : roleRank[a] \in Nat
  BY DEF Roles, roleRank
<1>3. /\ best = Absent <=> \A i \in 1..k : ~C(i)
      /\ best # Absent => \E i \in 1..k : C(i) /\ r(i) = best
      /\ \A i \in 1..k : C(i) => roleRank[r(i)] <= roleRank[best]
  BY DEF BestUpTo
<1>4. next = IF C(k + 1) /\ (best = Absent \/ roleRank[r(k + 1)] > roleRank[best])
             THEN r(k + 1) ELSE best
  BY DEF RoleStep
<1>5. \A i \in 1..(k + 1) : r(i) \in Roles /\ r(i) # Absent
  BY AbsentAssumption
<1> HIDE DEF C, r, next
<1>6. /\ next = Absent <=> \A i \in 1..(k + 1) : ~C(i)
      /\ next # Absent => \E i \in 1..(k + 1) : C(i) /\ r(i) = next
      /\ \A i \in 1..(k + 1) : C(i) => roleRank[r(i)] <= roleRank[next]
  <2>1. CASE C(k + 1) /\ best = Absent
    BY <1>1, <1>2, <1>3, <1>4, <1>5, <2>1
  <2>2. CASE C(k + 1) /\ best # Absent
    <3>1. best \in Roles
      BY <1>1, <1>3, <1>5, <2>2
    <3>2. roleRank[best] \in Nat /\ \A i \in 1..(k + 1) : roleRank[r(i)] \in Nat
      BY <1>2, <1>5, <3>1
    <3>3. CASE roleRank[r(k + 1)] > roleRank[best]
      BY <1>1, <1>3, <1>4, <1>5, <2>2, <3>2, <3>3
    <3>4. CASE ~(roleRank[r(k + 1)] > roleRank[best])
      BY <1>1, <1>3, <1>4, <1>5, <2>2, <3>2, <3>4
    <3> QED BY <3>3, <3>4
  <2>3. CASE ~C(k + 1)
    BY <1>1, <1>3, <1>4, <2>3
  <2> QED BY <2>1, <2>2, <2>3
<1> QED BY <1>6 DEF BestUpTo, C, r, next

\* What a pass returns.
LEMMA BestRoleIsBest ==
  ASSUME NEW n \in Nat, NEW bindings, DOMAIN bindings = 1..n, NEW permission, NEW target, NEW exact,
         \A i \in 1..n : bindings[i].role \in Roles
  PROVE  BestUpTo(BestRole(bindings, permission, target, exact), bindings, permission, target, exact, n)
<1>1. PICK v : IsPass(v, n, bindings, permission, target, exact)
  BY BestRoleFold
<1> DEFINE G == {k \in Nat : k <= n => BestUpTo(v[k], bindings, permission, target, exact, k)}
<1>2. 0 \in G
  <2>1. 1..0 = {}
    OBVIOUS
  <2>2. BestUpTo(Absent, bindings, permission, target, exact, 0)
    BY <2>1 DEF BestUpTo
  <2> QED BY <1>1, <2>2 DEF IsPass
<1>3. ASSUME NEW k \in Nat, k \in G PROVE k + 1 \in G
  <2> SUFFICES ASSUME k + 1 <= n
               PROVE  BestUpTo(v[k + 1], bindings, permission, target, exact, k + 1)
    OBVIOUS
  <2>1. BestUpTo(v[k], bindings, permission, target, exact, k)
    BY <1>3
  <2>2. k + 1 \in 1..n /\ \A i \in 1..(k + 1) : bindings[i].role \in Roles
    OBVIOUS
  <2>3. BestUpTo(RoleStep(v[k], bindings[k + 1], permission, target, exact),
                 bindings, permission, target, exact, k + 1)
    BY <2>1, <2>2, BestRoleStep
  <2> QED BY <1>1, <2>2, <2>3 DEF IsPass
<1>4. n \in G
  <2> HIDE DEF G
  <2> QED BY <1>2, <1>3, SetInduction
<1> QED BY <1>1, <1>4 DEF IsPass

\* Authorize grants a permission exactly when a binding that covers the
\* target holds it, with the highest role among the exact bindings if one of
\* those holds it and among the global ones otherwise.
THEOREM AuthorizeExactOrGlobal ==
  ASSUME NEW principal, NEW B, principal.bindings \in Seq(B), ValidPrincipal(principal),
         NEW permission, NEW target, ValidScope(target)
  PROVE  AuthorizeIsExactOrGlobal(principal, permission, target)
<1> DEFINE bindings == principal.bindings
           n == Len(bindings)
           best(exact) == BestRole(bindings, permission, target, exact)
           role == Authorize(principal, permission, target)
           granting == {b \in Range(bindings) :
                          Covers(b.scope, target) /\ bindingHasPermission(b, permission)}
           used == IF {b \in granting : b.scope = target} # {} THEN {b \in granting : b.scope = target}
                   ELSE granting
           C(i, exact) == Counts(bindings[i], permission, target, exact)
<1>1. n \in Nat /\ DOMAIN bindings = 1..n
  OBVIOUS
<1>2. \A i \in 1..n : bindings[i].role \in Roles /\ ValidScope(bindings[i].scope)
  BY <1>1 DEF ValidPrincipal, ValidBinding
<1>3. /\ BestUpTo(best(TRUE), bindings, permission, target, TRUE, n)
      /\ BestUpTo(best(FALSE), bindings, permission, target, FALSE, n)
  BY <1>1, <1>2, BestRoleIsBest
<1>4. role = IF best(TRUE) # Absent THEN best(TRUE) ELSE best(FALSE)
  BY DEF Authorize
<1>5. \A b \in granting : \E i \in 1..n : b = bindings[i] /\ (C(i, TRUE) \/ C(i, FALSE))
  BY <1>1 DEF Range, Covers, Counts
<1>6. \A i \in 1..n : /\ C(i, TRUE) => bindings[i] \in granting /\ bindings[i].scope = target
                      /\ C(i, FALSE) => bindings[i] \in granting
  BY <1>1, <1>2 DEF Range, Covers, Counts
<1>7. \A b \in granting : b.scope = target => \E i \in 1..n : b = bindings[i] /\ C(i, TRUE)
  BY <1>1 DEF Range, Counts
<1> HIDE DEF bindings, n, best, role, C
<1>8. \A exact \in BOOLEAN :
        /\ best(exact) = Absent <=> \A i \in 1..n : ~C(i, exact)
        /\ best(exact) # Absent => \E i \in 1..n : C(i, exact) /\ bindings[i].role = best(exact)
        /\ \A i \in 1..n : C(i, exact) => roleRank[bindings[i].role] <= roleRank[best(exact)]
  BY <1>3 DEF BestUpTo, C
<1>9. granting # {} <=> \E i \in 1..n : C(i, TRUE) \/ C(i, FALSE)
  <2> HIDE DEF granting
  <2> QED BY <1>5, <1>6
<1>10. (role # Absent) <=> (granting # {})
  <2> HIDE DEF granting
  <2> QED BY <1>4, <1>8, <1>9
<1>11. ASSUME granting # {}
       PROVE  /\ \E b \in used : b.role = role
              /\ \A b \in used : roleRank[b.role] <= roleRank[role]
  <2> HIDE DEF granting
  <2>1. CASE best(TRUE) # Absent
    <3>1. PICK i \in 1..n : C(i, TRUE) /\ bindings[i].role = role
      BY <1>4, <1>8, <2>1
    <3>2. used = {b \in granting : b.scope = target} /\ bindings[i] \in used
      BY <1>6, <3>1
    <3>3. \A b \in used : roleRank[b.role] <= roleRank[role]
      BY <1>4, <1>7, <1>8, <2>1, <3>2
    <3> QED BY <3>1, <3>2, <3>3
  <2>2. CASE best(TRUE) = Absent
    <3>1. used = granting
      BY <1>7, <1>8, <2>2
    <3>2. role = best(FALSE) /\ role # Absent
      BY <1>4, <1>10, <1>11, <2>2
    <3>3. \E b \in granting : b.role = role
      BY <1>6, <1>8, <3>2
    <3>4. \A b \in granting : \E i \in 1..n : b = bindings[i] /\ C(i, FALSE)
      BY <1>5, <1>8, <2>2
    <3>5. \A b \in granting : roleRank[b.role] <= roleRank[role]
      BY <1>8, <3>2, <3>4
    <3> QED BY <3>1, <3>3, <3>5
  <2> QED BY <2>1, <2>2
<1> HIDE DEF granting, used
<1>12. /\ (role # Absent) <=> (granting # {})
       /\ granting # {} => /\ \E b \in used : b.role = role
                           /\ \A b \in used : roleRank[b.role] <= roleRank[role]
  BY <1>10, <1>11
<1> QED BY <1>12 DEF AuthorizeIsExactOrGlobal, granting, used, role, bindings

-----------------------------------------------------------------------------
(* Versions.                                                               *)

Versions == Nat \X Nat \X Nat

\* Compare returns the order of the first components that differ.
LEMMA CompareIsLexicographic ==
  ASSUME NEW v \in Versions, NEW w \in Versions
  PROVE  Compare(v, w) = IF v = w THEN 0
                         ELSE IF \/ v[1] < w[1]
                                 \/ v[1] = w[1] /\ v[2] < w[2]
                                 \/ v[1] = w[1] /\ v[2] = w[2] /\ v[3] < w[3]
                              THEN -1 ELSE 1
<1> DEFINE differ == {i \in 1..3 : v[i] # w[i]}
           first == CHOOSE i \in differ : \A j \in differ : i <= j
<1>1. /\ v[1] \in Nat /\ v[2] \in Nat /\ v[3] \in Nat
      /\ w[1] \in Nat /\ w[2] \in Nat /\ w[3] \in Nat
      /\ v = <<v[1], v[2], v[3]>> /\ w = <<w[1], w[2], w[3]>>
  BY DEF Versions
<1>2. v = w <=> v[1] = w[1] /\ v[2] = w[2] /\ v[3] = w[3]
  BY <1>1
<1>3. \A i \in 1..3 : i = 1 \/ i = 2 \/ i = 3
  OBVIOUS
<1>4. 1 \in 1..3 /\ 2 \in 1..3 /\ 3 \in 1..3
  OBVIOUS
<1>5. \A i \in 1..3 : i \in differ <=> v[i] # w[i]
  OBVIOUS
<1>6. ASSUME NEW i \in differ, \A j \in differ : i <= j PROVE first = i
  <2>1. \A k \in differ : (\A j \in differ : k <= j) => k = i
    BY <1>6
  <2> HIDE DEF differ
  <2> QED BY <1>6, <2>1
<1>7. Compare(v, w) = IF differ = {} THEN 0 ELSE IF v[first] < w[first] THEN -1 ELSE 1
  BY DEF Compare
<1>8. differ = {} <=> v = w
  BY <1>2, <1>3, <1>4
<1>9. CASE v[1] # w[1]
  <2>1. 1 \in differ /\ \A j \in differ : 1 <= j
    BY <1>9
  <2>2. first = 1
    <3> HIDE DEF differ, first
    <3> QED BY <1>6, <2>1
  <2> HIDE DEF differ, first
  <2> QED BY <1>1, <1>2, <1>7, <1>8, <1>9, <2>2
<1>10. CASE v[1] = w[1] /\ v[2] # w[2]
  <2>1. 2 \in differ /\ \A j \in differ : 2 <= j
    BY <1>3, <1>10
  <2>2. first = 2
    <3> HIDE DEF differ, first
    <3> QED BY <1>6, <2>1
  <2> HIDE DEF differ, first
  <2> QED BY <1>1, <1>2, <1>7, <1>8, <1>10, <2>2
<1>11. CASE v[1] = w[1] /\ v[2] = w[2] /\ v[3] # w[3]
  <2>1. 3 \in differ /\ \A j \in differ : 3 <= j
    BY <1>3, <1>11
  <2>2. first = 3
    <3> HIDE DEF differ, first
    <3> QED BY <1>6, <2>1
  <2> HIDE DEF differ, first
  <2> QED BY <1>1, <1>2, <1>7, <1>8, <1>11, <2>2
<1>12. CASE v = w
  <2> HIDE DEF differ, first
  <2> QED BY <1>7, <1>8, <1>12
<1> QED BY <1>2, <1>9, <1>10, <1>11, <1>12

\* A plugin is compatible with exactly the runtimes of its major version that
\* are not older than what it requires.
THEOREM CompatibleIsSameMajorNotOlder ==
  ASSUME NEW runtime \in Versions, NEW required \in Versions
  PROVE  CompatibleWith(runtime, required) <=>
           /\ ValidVersion(runtime) /\ ValidVersion(required) /\ runtime[1] = required[1]
           /\ \/ required[2] < runtime[2]
              \/ required[2] = runtime[2] /\ required[3] <= runtime[3]
<1>1. /\ runtime[1] \in Nat /\ runtime[2] \in Nat /\ runtime[3] \in Nat
      /\ required[1] \in Nat /\ required[2] \in Nat /\ required[3] \in Nat
      /\ required = runtime <=> /\ required[1] = runtime[1] /\ required[2] = runtime[2]
                                /\ required[3] = runtime[3]
  BY DEF Versions
<1>2. Compare(required, runtime) =
        IF required = runtime THEN 0
        ELSE IF \/ required[1] < runtime[1]
                \/ required[1] = runtime[1] /\ required[2] < runtime[2]
                \/ required[1] = runtime[1] /\ required[2] = runtime[2] /\ required[3] < runtime[3]
             THEN -1 ELSE 1
  BY CompareIsLexicographic
<1> QED BY <1>1, <1>2 DEF CompatibleWith
=============================================================================
