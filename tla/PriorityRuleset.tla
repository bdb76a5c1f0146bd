---------------------------- MODULE PriorityRuleset ----------------------------
(***************************************************************************)
(* The bounded rule language of domain/predicate.go and the validation of  *)
(* a rule set before it is published (domain/priority_rules.go).  An       *)
(* operator hands in four definitions, trees of conditions over the        *)
(* factors of a signal; the validation is to tell, from finitely many      *)
(* probes, whether every class can be awarded.                             *)
(*                                                                         *)
(* A node of a tree has the fields of RuleDefinition; the value is <<>> or *)
(* <<kind, scalar>>.  CVSS and EPSS are counted in halves of the distance  *)
(* between the thresholds that are used.                                   *)
(***************************************************************************)
EXTENDS Integers, SequencesExt

CONSTANTS Levels,        \* nodes by height: conditions, groups of these, and so on
          Definitions,   \* the definitions an operator chooses from, a sequence
          FieldValues,   \* [field -> values] of confidence, criticality, exposure
          Uppers         \* [cvss, epss]: the greatest value of each

VARIABLES ruleIds,       \* the ids of the handed-in rules
          disabled,      \* those that are handed in disabled, as indices
          chosen,        \* their definitions, as indices
          verdict        \* "draft", "published" or "rejected"

rulesetVars == <<ruleIds, disabled, chosen, verdict>>

Classes == <<"P1", "P2", "P3", "P4">>

Nodes == UNION {Levels[k] : k \in DOMAIN Levels}
Children(n) == ToSet(n.all) \union ToSet(n.any)

\* AsNumber is ok.
IsNumber(n) == n.value # <<>> /\ n.value[1] = "number"

ASSUME TreesAssumption ==
    /\ Levels \in Seq(SUBSET Nodes) /\ Definitions \in Seq(Nodes)
    /\ \A k \in DOMAIN Levels : \A n \in Levels[k] : \A c \in Children(n) :
           \E j \in 1..(k - 1) : c \in Levels[j]
    /\ \A n \in Nodes : /\ n.all \in Seq(Nodes) /\ n.any \in Seq(Nodes)
                        /\ n.op = "ge" /\ IsNumber(n) => n.value[2] \in Int

ASSUME FactorsAssumption ==
    /\ DOMAIN FieldValues = {"confidence", "criticality", "exposure"}
    /\ Uppers \in [{"cvss", "epss"} -> Nat]

-------------------------------------------------------------------------------
(* predicate.go *)

validateRuleAtom(n) ==
    \/ /\ n.op = "eq" /\ n.value # <<>> /\ n.values = {}
       /\ \/ n.field = "kev" /\ n.value[1] = "bool"
          \/ /\ n.field \in DOMAIN FieldValues /\ n.value[1] = "string"
             /\ n.value[2] \in FieldValues[n.field]
    \/ /\ n.op = "in" /\ n.value = <<>> /\ n.values # {}
       /\ n.field \in DOMAIN FieldValues /\ n.values \subseteq FieldValues[n.field]
    \/ /\ n.op = "ge" /\ n.values = {} /\ IsNumber(n)
       /\ n.field \in DOMAIN Uppers

\* The nodes of a tree.
Subtree(n) ==
    LET tree[m \in Nodes] == {m} \union UNION {tree[c] : c \in Children(m)} IN tree[n]

\* Each node is a group or a condition, and not both.
validateRuleNode(n) ==
    \A m \in Subtree(n) : /\ (Children(m) # {}) # (m.op # "")
                          /\ m.op # "" => validateRuleAtom(m)

evalRuleAtom(n, f) ==
    CASE n.op = "eq" -> f[n.field] = n.value[2]
      [] n.op = "in" -> f[n.field] \in n.values
      [] n.op = "ge" -> f[n.field] >= n.value[2]

evalRuleNode(n, f) ==
    LET eval[m \in Nodes] ==
            IF Children(m) = {} THEN evalRuleAtom(m, f)
            ELSE /\ \A c \in ToSet(m.all) : eval[c]
                 /\ m.any # <<>> => \E c \in ToSet(m.any) : eval[c]
    IN eval[n]

-------------------------------------------------------------------------------
(* priority_rules.go *)

Definition(i) == Definitions[chosen[i]]

\* The first enabled rule that matches; P4 when none does.
EvaluatePriority(f) ==
    LET matching == {i \in DOMAIN chosen \ disabled : evalRuleNode(Definition(i), f)}
    IN IF matching = {} THEN "P4" ELSE ruleIds[Min(matching)]

collectRuleThresholds(n, field) ==
    {m.value[2] : m \in {m \in Subtree(n) : m.op = "ge" /\ IsNumber(m) /\ m.field = field}}

\* Mutant of numericProbes: between the thresholds, but not at them.
ProbesBetween(thresholds, upper) ==
    LET used == {t \in thresholds : t > 0 /\ t <= upper} \union {upper}
    IN {0} \union {(Max({0} \union {u \in used : u < t}) + t) \div 2 : t \in used}

\* 0, each threshold, and a value between each two neighbours.
numericProbes(thresholds, upper) ==
    LET used == {t \in thresholds : t > 0 /\ t <= upper}
        before(t) == Max({0} \union {u \in used : u < t})
        last == Max({0} \union used)
    IN {0} \union used \union {(before(t) + t) \div 2 : t \in used}
           \union (IF last < upper THEN {(last + upper) \div 2} ELSE {})

\* The factors that take their scores from the given sets.
Factors(cvss, epss) ==
    [confidence : FieldValues["confidence"], kev : BOOLEAN, cvss : cvss, epss : epss,
     criticality : FieldValues["criticality"], exposure : FieldValues["exposure"]]

rulesetProbeFactors ==
    LET probes(field) == numericProbes(UNION {collectRuleThresholds(Definition(i), field) :
                                                i \in DOMAIN chosen}, Uppers[field])
    IN Factors(probes("cvss"), probes("epss"))

validateRulesetDistinct ==
    ToSet(Classes) \subseteq {EvaluatePriority(f) : f \in rulesetProbeFactors}

WellFormed == ruleIds = Classes /\ \A i \in DOMAIN chosen : validateRuleNode(Definition(i))

ValidateRuleset == WellFormed /\ validateRulesetDistinct

-------------------------------------------------------------------------------

\* Any ids: an order of the classes, or one of them twice, or one missing.
RulesetInit == /\ ruleIds \in {Classes, Reverse(Classes), <<"P1", "P1", "P3", "P4">>, <<"P1", "P2", "P3">>}
               /\ disabled \in {{}, {3}, {4}}
               /\ chosen = <<>> /\ verdict = "draft"

Choose(d) == /\ Len(chosen) < Len(ruleIds)
             /\ chosen' = Append(chosen, d)
             /\ UNCHANGED <<ruleIds, disabled, verdict>>

PublishPriorityRules ==
    /\ Len(chosen) = Len(ruleIds) /\ verdict = "draft"
    /\ verdict' = IF ValidateRuleset THEN "published" ELSE "rejected"
    /\ UNCHANGED <<ruleIds, disabled, chosen>>

RulesetNext == PublishPriorityRules \/ \E d \in DOMAIN Definitions : Choose(d)

RulesetSpec == RulesetInit /\ [][RulesetNext]_rulesetVars

-------------------------------------------------------------------------------
(* Properties *)

RulesetTypeOK == /\ ruleIds \in Seq(ToSet(Classes)) /\ disabled \subseteq 1..4
                 /\ chosen \in Seq(DOMAIN Definitions)
                 /\ verdict \in {"draft", "published", "rejected"}

AllFactors == Factors(0..Uppers["cvss"], 0..Uppers["epss"])

\* A condition tree by the meaning of its words.
Holds(n, f) ==
    LET holds[m \in Nodes] ==
            \/ m.op = "eq" /\ f[m.field] = m.value[2]
            \/ m.op = "in" /\ f[m.field] \in m.values
            \/ m.op = "ge" /\ f[m.field] >= m.value[2]
            \/ /\ m.op = "" /\ \A i \in DOMAIN m.all : holds[m.all[i]]
               /\ m.any = <<>> \/ \E i \in DOMAIN m.any : holds[m.any[i]]
    IN holds[n]

Awarded(i) ==
    \E f \in AllFactors :
        /\ i < 4 => i \notin disabled /\ Holds(Definition(i), f)
        /\ \A j \in 1..(i - 1) : j \in disabled \/ ~Holds(Definition(j), f)

\* Among the well-formed rule sets, those are published whose rules award every
\* class to some factors, probed or not (priority_rules.go, rulesetProbeFactors:
\* "no rule can be reachable on a factor cell the grid misses").
ProbesDecide ==
    verdict # "draft" /\ WellFormed => (verdict = "published" <=> \A i \in 1..4 : Awarded(i))

\* priority_rules.go, ValidateRuleset: "two identical predicates, a rule that
\* can never fire ... is rejected".  P4 is awarded without its definition.
EveryRuleFires ==
    verdict = "published" =>
        /\ IsInjective(chosen)
        /\ \A i \in 1..4 : \E f \in AllFactors :
               Holds(Definition(i), f) /\ \A j \in 1..(i - 1) : ~Holds(Definition(j), f)
===============================================================================
