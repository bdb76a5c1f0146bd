------------------------------- MODULE MCWindows -------------------------------
(* What is decided by comparing, for TLC: the modification windows of the     *)
(* incremental sources, the version windows of the rules, the matches of      *)
(* components and statements, and the rule sets that may be published.  Each  *)
(* behaviour looks at one kind.  No liveness is checked, so the symmetry of   *)
(* the fetchers is sound.                                                     *)
EXTENDS MCIncrementalIngest, MCVersionOrder, MatchEngine, PriorityRuleset

VARIABLE kind    \* what this behaviour decides

-------------------------------------------------------------------------------
(* MatchEngine: one vendor, its alias, and two products. *)

Product == <<"web", "server">>
Swapped == <<"server", "web">>
Other == <<"mail">>

Component(vendor, product, versions, orderable) ==
    [id |-> "c", vendor |-> vendor, product |-> product, versions |-> versions, orderable |-> orderable,
     cpe |-> "cpe", purl |-> "purl", image |-> "image"]

Inventory ==
    {Component("acme", Product, <<0, 2>>, TRUE), Component("acme", Product, <<0, 2>>, FALSE),
     Component("acme", Product, <<0, 0>>, TRUE), Component("acme", Product, <<Odd, 0>>, TRUE),
     Component("acme inc", Product, <<1, 2>>, TRUE), Component("", Other, <<2, 0>>, TRUE)}

Window(from, to, in1, in2) == [from |-> from, to |-> to, fromIncluding |-> in1, toIncluding |-> in2]

Statement(vendor, product, exacts, windows) ==
    [vendor |-> vendor, product |-> product, exacts |-> exacts, windows |-> windows,
     cpe |-> "", cpeVersion |-> 0, purl |-> "", purlVersion |-> 0, image |-> ""]

Advisories ==
    {Statement("acme", Product, {}, {Window(1, 2, TRUE, FALSE)}),
     Statement("acme", Product, {}, {Window(2, Odd, TRUE, TRUE), Window(0, 1, TRUE, TRUE)}),
     Statement("acme", Product, {}, {Window(0, 0, FALSE, FALSE)}),
     Statement("acme", Swapped, {2}, {}), Statement("acme", Product, {}, {}),
     [Statement("", <<>>, {}, {}) EXCEPT !.cpe = "cpe", !.cpeVersion = 2],
     [Statement("", <<>>, {}, {Window(3, 0, TRUE, TRUE)}) EXCEPT !.cpe = "cpe", !.purl = "purl", !.purlVersion = 2],
     [Statement("acme", Other, {1}, {}) EXCEPT !.purl = "purl", !.purlVersion = 1],
     [Statement("acme", Product, {1}, {}) EXCEPT !.image = "image"],
     [Statement("acme", Product, {1}, {}) EXCEPT !.image = "other image"]}

Aliases == {[scope |-> "vendor", from |-> "acme inc", to |-> "acme"],
            [scope |-> "product", from |-> Swapped, to |-> Product]}

Correction(id, version, type, action) ==
    [id |-> id, version |-> version, type |-> type, action |-> action, vendor |-> "acme",
     product |-> <<>>, component |-> "", validFrom |-> 0, validUntil |-> 2, revoked |-> FALSE]

Exclusion == Correction(1, 2, "exclude", Evidence("no_match"))
Override == Correction(2, 1, "override", [method |-> "candidate", similarity |-> 9])

Rulings == {{}, {Exclusion, Override}, {Exclusion, [Override EXCEPT !.revoked = TRUE]}}

-------------------------------------------------------------------------------
(* PriorityRuleset: conditions of the ch. 9.3 rules and their mistakes. *)

Node == [all |-> <<>>, any |-> <<>>, op |-> "", field |-> "", value |-> <<>>, values |-> {}]
Eq(field, v) == [Node EXCEPT !.op = "eq", !.field = field, !.value = v]
Ge(field, n) == [Node EXCEPT !.op = "ge", !.field = field, !.value = <<"number", n>>]
In(field, vs) == [Node EXCEPT !.op = "in", !.field = field, !.values = vs]
Kev == Eq("kev", <<"bool", TRUE>>)
High == In("confidence", {"high"})
Exposed == [Node EXCEPT !.any = <<In("criticality", {"critical"}), Eq("exposure", <<"string", "internet">>)>>]

RuleTrees ==
    <<[Node EXCEPT !.all = <<High, Kev, Exposed>>],
      [Node EXCEPT !.all = <<High>>, !.any = <<Kev, Ge("cvss", 2), Ge("epss", 4)>>],
      [Node EXCEPT !.any = <<High, [Node EXCEPT !.all = <<Ge("cvss", 4), Ge("epss", 2)>>]>>],
      In("confidence", {"high", "medium"}), Ge("cvss", 4), Ge("cvss", 5), Ge("cvss", 0),
      [Node EXCEPT !.all = <<Eq("cvss", <<"number", 2>>)>>]>>

\* The nodes of the trees above by their height, the deepest with two groups
\* below them.
RECURSIVE Height(_)
Height(n) == 1 + Max({0} \union {Height(c) : c \in Children(n)})
RECURSIVE Below(_)
Below(n) == {n} \union UNION {Below(c) : c \in Children(n)}
RuleLevels == [k \in 1..3 |-> {n \in UNION {Below(RuleTrees[i]) : i \in DOMAIN RuleTrees} : Height(n) = k}]

Vocabulary == [confidence |-> {"high", "medium", "low"}, criticality |-> {"critical", "low"},
               exposure |-> {"internet", "isolated"}]
ScoreLimits == [cvss |-> 4, epss |-> 4]

-------------------------------------------------------------------------------

WindowsInit == /\ kind \in {"fetches", "pages", "versions", "matches", "rules"}
               /\ Init /\ VersionInit /\ MatchInit /\ RulesetInit
               \* One initial state for each kind but its own.
               /\ kind # "versions" => scheme = "semver"
               /\ kind # "matches" => /\ component = Component("", Other, <<2, 0>>, TRUE)
                                      /\ rules = {} /\ instant = 1
               /\ kind # "rules" => ruleIds = Classes /\ disabled = {}

\* Fetches overlap while one record changes, or come one after the other while
\* all do.  One job is delivered, or none: no fetch depends on what becomes of them.
OneRecord == \A r \in Records \ {1} : modified'[r] = 0
OneFetch == \A f, g \in Fetchers : f # g => NotFetching \in {fetch'[f], fetch'[g]}
Undelivered(jobs) == \A j \in jobs : phase'[j] \in {"absent", "queued"} /\ ~handled'[j]

WindowsNext ==
    \/ /\ kind = "fetches" /\ Next /\ OneRecord /\ Undelivered(Jobs \ {1})
       /\ UNCHANGED <<kind, versionVars, matchVars, rulesetVars>>
    \/ /\ kind = "pages" /\ Next /\ OneFetch /\ Undelivered(Jobs)
       /\ UNCHANGED <<kind, versionVars, matchVars, rulesetVars>>
    \/ /\ kind = "versions" /\ VersionNext
       /\ UNCHANGED <<kind, vars, matchVars, rulesetVars>>
    \/ /\ kind = "matches" /\ MatchNext
       /\ UNCHANGED <<kind, vars, versionVars, rulesetVars>>
    \/ /\ kind = "rules" /\ RulesetNext
       /\ UNCHANGED <<kind, vars, versionVars, matchVars>>

WindowsSpec == WindowsInit /\ [][WindowsNext]_<<kind, vars, versionVars, matchVars, rulesetVars>>

\* The vulnerability rows are only written here: no step and no property of the
\* run reads them, so that states that differ in them alone are the same.
WithoutRows == <<kind, now, modified, shown, cursor, raws, fetch, slipped, phase, handled,
                 versionVars, matchVars, rulesetVars>>
===============================================================================
