------------------------------ MODULE MatchEngine ------------------------------
(***************************************************************************)
(* The matching engine of application/matching: what is known of one       *)
(* vulnerability and one component is weighed statement by statement, the  *)
(* strongest evidence wins, and a decision rule of an analyst may stand    *)
(* over it.                                                                *)
(*                                                                         *)
(* Names, identifiers and images are compared only.  A version is its      *)
(* place in the order of its scheme; Odd is one the scheme cannot parse    *)
(* and NoVersion none (or a wildcard).  The name of a product is the       *)
(* sequence of its words.  Inputs that validate() refuses are left out.    *)
(***************************************************************************)
EXTENDS Integers, SequencesExt

CONSTANTS Components,        \* what may be in the inventory
          AffectedProducts,  \* the statements a vulnerability may consist of
          AliasRules,        \* enabled alias rules [scope, from, to], no chains
          Corrections,       \* sets of decision rules
          MatchInstants,     \* the instants at which the engine may be asked
          MaxStatements      \* bound on the statements of a vulnerability

ASSUME MatchAssumption ==
    /\ MaxStatements \in Nat \ {0}
    /\ \A r, q \in AliasRules : r.scope = q.scope => r.from # q.to

\* Versions are places, names sequences of words; rules have ids.
ASSUME InputsAssumption ==
    /\ \A c \in Components : c.versions \in Seq(Nat) /\ c.product \in Seq(STRING)
    /\ \A a \in AffectedProducts : /\ a.product \in Seq(STRING)
                                   /\ \A w \in a.windows : w.from \in Nat /\ w.to \in Nat
    /\ \A set \in Corrections : \A r \in set : r.id # 0

VARIABLES component, rules, instant, statements,
          best,        \* the strongest evidence yet [method, similarity]
          outcome      \* <<>>, or what is stored of the match

matchVars == <<component, rules, instant, statements, best, outcome>>

NoVersion == 0
Odd == 99

-------------------------------------------------------------------------------
(* ADR-015: methods, confidences and scores. *)

Rank == [exact_identifier |-> 100, container_digest |-> 95, alias_exact_version |-> 90,
         canonical_product_range |-> 80, product_uncertain_version |-> 65,
         controlled_alias_only |-> 55, no_match |-> 0]

Score(e) == IF e.method = "candidate" THEN e.similarity ELSE Rank[e.method]

Confidence(method) ==
    CASE method \in {"exact_identifier", "container_digest", "alias_exact_version",
                     "canonical_product_range"} -> "high"
      [] method \in {"product_uncertain_version", "controlled_alias_only"} -> "medium"
      [] method = "candidate" -> "low"
      [] method = "no_match" -> "none"

Derive(e) == [method |-> e.method, confidence |-> Confidence(e.method), score |-> Score(e)]
Evidence(method) == [method |-> method, similarity |-> 0]

-------------------------------------------------------------------------------
(* The version of the component against the versions of a statement. *)

\* The comparison key, the column, the CPE's version, the purl's.
componentVersion ==
    LET known == {i \in DOMAIN component.versions : component.versions[i] # NoVersion}
    IN IF known = {} THEN NoVersion ELSE component.versions[Min(known)]

\* The purl's version counts when the CPE cannot be parsed.
statementExactVersions(a) ==
    a.exacts \union ({IF a.cpe # "" THEN a.cpeVersion ELSE a.purlVersion} \ {NoVersion})

versionEqual(v, w) == v = w

Comparable(v, w) == component.orderable /\ Odd \notin {v, w}

\* "in", "out", or "unknown" when a bound that is looked at cannot be compared.
inVersionRange(v, window) ==
    LET below == IF window.fromIncluding THEN v < window.from ELSE v <= window.from
        above == IF window.toIncluding THEN v > window.to ELSE v >= window.to
        end == CASE window.to = NoVersion -> "in"
                 [] window.to # NoVersion /\ ~Comparable(v, window.to) -> "unknown"
                 [] OTHER -> IF above THEN "out" ELSE "in"
    IN CASE window.from = NoVersion -> end
         [] window.from # NoVersion /\ ~Comparable(v, window.from) -> "unknown"
         [] OTHER -> IF below THEN "out" ELSE end

\* Mutant of classifyVersion: what cannot be decided does not affect.
classifyUndecided(a) ==
    LET v == componentVersion IN
    CASE statementExactVersions(a) = {} /\ a.windows = {} -> "no expression"
      [] v = NoVersion -> "missing"
      [] \/ \E e \in statementExactVersions(a) : versionEqual(v, e)
         \/ \E w \in a.windows : inVersionRange(v, w) = "in" -> "affected"
      [] OTHER -> "not affected"

classifyVersion(a) ==
    LET v == componentVersion
        exacts == statementExactVersions(a)
        results == {inVersionRange(v, w) : w \in a.windows}
    IN IF exacts = {} /\ a.windows = {} THEN "no expression"
       ELSE IF v = NoVersion THEN "missing"
       ELSE IF (\E e \in exacts : versionEqual(v, e)) \/ "in" \in results THEN "affected"
       ELSE IF "unknown" \in results THEN "ambiguous" ELSE "not affected"

-------------------------------------------------------------------------------
(* One statement: the strongest tier that holds. *)

\* Registry, repository and digest.
SameImage(a) == a.image # "" /\ a.image = component.image
SameIdentifier(a) == \/ a.cpe # "" /\ a.cpe = component.cpe
                     \/ a.purl # "" /\ a.purl = component.purl
Named(p) == p.vendor # "" /\ p.product # <<>>
Canonical(a) == Named(component) /\ a.vendor = component.vendor /\ a.product = component.product

\* One hop, in both directions.
AliasClosure(scope, name) ==
    {name} \union {r.to : r \in {q \in AliasRules : q.scope = scope /\ q.from = name}}
           \union {r.from : r \in {q \in AliasRules : q.scope = scope /\ q.to = name}}

namesOverlap(scope, s, t) == AliasClosure(scope, s) \intersect AliasClosure(scope, t) # {}

AliasOnly(a) == /\ Named(a) /\ Named(component)
                /\ namesOverlap("vendor", a.vendor, component.vendor)
                /\ namesOverlap("product", a.product, component.product)

ByVersion(a, affected, uncertain) ==
    LET relation == classifyVersion(a) IN
    Evidence(CASE relation = "affected" -> affected
               [] relation = "not affected" -> "no_match"
               [] OTHER -> uncertain)

\* boundedDamerauLevenshtein, by words: the last equal words may be transposed.
LastSame(u, n, word) == Max({0} \union {x \in 1..(n - 1) : u[x] = word})

\* The distance of the first i words of s and the first j of t, from those of
\* fewer words.
Cell(s, t, d, i, j) ==
    LET k == LastSame(s, i, t[j])
        l == LastSame(t, j, s[i])
    IN IF i = -1 \/ j = -1 THEN Len(s) + Len(t)
       ELSE IF i = 0 \/ j = 0 THEN i + j
       ELSE Min({d[<<i - 1, j - 1>>] + (IF s[i] = t[j] THEN 0 ELSE 1), d[<<i, j - 1>>] + 1,
                 d[<<i - 1, j>>] + 1, d[<<k - 1, l - 1>>] + (i - k - 1) + 1 + (j - l - 1)})

Cells(s, t) ==
    LET d[at \in (-1..Len(s)) \X (-1..Len(t))] == Cell(s, t, d, at[1], at[2]) IN d

Distance(s, t) == Min({3, Cells(s, t)[<<Len(s), Len(t)>>]})

\* 1 + floor(53 * (3/5 common words + 2/5 (1 - distance/3))).
CandidateSimilarity(s, t) ==
    LET common == Cardinality(ToSet(s) \intersect ToSet(t))
        all == Cardinality(ToSet(s) \union ToSet(t))
    IN IF s = <<>> \/ t = <<>> THEN 1
       ELSE 1 + (53 * (9 * common + 2 * all * (3 - Distance(s, t)))) \div (15 * all)

evaluateStatement(a) ==
    IF SameImage(a) THEN Evidence("container_digest")
    ELSE IF SameIdentifier(a) THEN ByVersion(a, "exact_identifier", "product_uncertain_version")
    ELSE IF Canonical(a) THEN ByVersion(a, "canonical_product_range", "product_uncertain_version")
    ELSE IF AliasOnly(a) THEN ByVersion(a, "alias_exact_version", "controlled_alias_only")
    ELSE [method |-> "candidate", similarity |-> CandidateSimilarity(a.product, component.product)]

-------------------------------------------------------------------------------
(* Decision rules of this vulnerability: exclusions and overrides, on a    *)
(* target, in a half-open window of time (0 is an open end).               *)

AppliesAt(r) == ~r.revoked /\ r.validFrom <= instant /\ (r.validUntil = 0 \/ instant < r.validUntil)

decisionRuleApplies(r) ==
    /\ AppliesAt(r)
    /\ r.component \in {"", component.id}
    /\ r.vendor \in {"", component.vendor}
    /\ r.product \in {<<>>, component.product}

applicableDecisionRule ==
    {r \in rules : /\ decisionRuleApplies(r)
                   /\ \A q \in rules : decisionRuleApplies(q) =>
                        r.version < q.version \/ (r.version = q.version /\ r.id <= q.id)}

\* An exclusion is a visible no_match; an override keeps the computed triple.
applyDecisionRules(raw) ==
    IF applicableDecisionRule = {} THEN [effective |-> raw, rule |-> 0, auto |-> <<>>]
    ELSE LET r == CHOOSE r \in applicableDecisionRule : TRUE IN
         IF r.type = "exclude"
         THEN [effective |-> Derive(Evidence("no_match")), rule |-> r.id, auto |-> <<>>]
         ELSE [effective |-> Derive(r.action), rule |-> r.id, auto |-> <<raw>>]

-------------------------------------------------------------------------------

MatchInit ==
    /\ component \in Components /\ rules \in Corrections /\ instant \in MatchInstants
    /\ statements = <<>> /\ best = Evidence("") /\ outcome = <<>>

\* The loop of Evaluate over the statements.
EvaluateStatement(a) ==
    /\ outcome = <<>> /\ Len(statements) < MaxStatements
    /\ statements' = Append(statements, a)
    /\ LET e == evaluateStatement(a) IN
         best' = IF best.method = "" \/ Score(e) > Score(best) THEN e ELSE best
    /\ UNCHANGED <<component, rules, instant, outcome>>

Evaluate ==
    /\ statements # <<>> /\ outcome = <<>>
    /\ outcome' = <<applyDecisionRules(Derive(best))>>
    /\ UNCHANGED <<component, rules, instant, statements, best>>

MatchNext == Evaluate \/ \E a \in AffectedProducts : EvaluateStatement(a)

MatchSpec == MatchInit /\ [][MatchNext]_matchVars

-------------------------------------------------------------------------------
(* Properties *)

MatchTypeOK ==
    /\ component \in Components /\ statements \in Seq(AffectedProducts)
    /\ best.method \in DOMAIN Rank \union {"candidate", ""} /\ best.similarity \in 0..54

\* What a statement says of the component, without its tiers and scores.
Related(a) == SameIdentifier(a) \/ Canonical(a) \/ AliasOnly(a)

Outside(w) == LET v == componentVersion IN
    \/ /\ w.from # NoVersion /\ Comparable(v, w.from)
       /\ v < w.from \/ (v = w.from /\ ~w.fromIncluding)
    \/ /\ w.to # NoVersion /\ Comparable(v, w.to) /\ (w.from = NoVersion \/ Comparable(v, w.from))
       /\ v > w.to \/ (v = w.to /\ ~w.toIncluding)

Inside(w) == LET v == componentVersion IN
    /\ v # NoVersion
    /\ w.from # NoVersion => Comparable(v, w.from) /\ (v > w.from \/ (v = w.from /\ w.fromIncluding))
    /\ w.to # NoVersion => Comparable(v, w.to) /\ (v < w.to \/ (v = w.to /\ w.toIncluding))

Affects(a) == SameImage(a) \/ /\ Related(a)
                              /\ \/ componentVersion \in statementExactVersions(a) \ {NoVersion}
                                 \/ \E w \in a.windows : Inside(w)

Clears(a) == /\ ~SameImage(a) /\ Related(a) /\ componentVersion # NoVersion
             /\ statementExactVersions(a) # {} \/ a.windows # {}
             /\ componentVersion \notin statementExactVersions(a)
             /\ \A w \in a.windows : Outside(w)

\* Whatever the order of the statements, the computed confidence is high just
\* when one of them is shown to hold for the component, and a component is
\* cleared only when all of them are shown not to; an override keeps it visible
\* (evaluate.go, Evaluate: "a provable negative ... only wins when no other
\* statement yields any evidence"; decision.go: auto_*).
OutcomeFollowsEvidence ==
    \A o \in ToSet(outcome) : ~(o.rule # 0 /\ o.auto = <<>>) =>
        LET said == ToSet(statements)
            computed == (IF o.auto = <<>> THEN o.effective ELSE o.auto[1]).confidence
            cleared == \A a \in said : Clears(a)
            shown == \E a \in said : Affects(a)
        IN computed = CASE shown -> "high"
                        [] cleared -> "none"
                        [] OTHER -> IF \A a \in said : Clears(a) \/ ~Related(a) THEN "low" ELSE "medium"

\* version.go: "a statement pinning cpe:2.3:a:acme:widget:1.2.3 (or a purl with
\* @1.2.3) names 1.2.3 as exactly affected".  The version of a purl is passed
\* over when there is a CPE, even one without a version.
PinnedIsAffected ==
    \A a \in ToSet(statements) :
        a.purl # "" /\ a.purl = component.purl /\ a.purlVersion = componentVersion
            /\ componentVersion # NoVersion => Confidence(best.method) = "high"
===============================================================================
