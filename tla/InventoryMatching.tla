--------------------------- MODULE InventoryMatching ---------------------------
(***************************************************************************)
(* Inventory imports and the matching they set off: inventory_staged.go,   *)
(* inventory_commit.go, matching_rebuild.go, matching_run.go and the end   *)
(* of a full import (full_import_source.go).                               *)
(*                                                                         *)
(* Committing a staged import is three steps of a server process: read the *)
(* record, run the commit transaction, mark the record.  The transaction   *)
(* compares the file with the inventory, writes what differs and appends a *)
(* matching.rebuild job whose dedupe key is the state of the inventory.    *)
(* The rebuild walks the components page by page and inserts a match of    *)
(* every pair that has none.                                               *)
(*                                                                         *)
(* Abstracted: assets (a component stands for its asset too), the rules,   *)
(* which nothing in the code changes, and the engine: Outcome.             *)
(***************************************************************************)
EXTENDS Integers, FiniteSets, FiniteSetsExt

CONSTANTS Components,    \* ids, natural numbers above zero
          Vulnerabilities,
          Outcome,       \* Outcome[content][v]: the match, or NoCandidate
          NoCandidate,   \* the names of content and v do not meet
          Imports,       \* staged imports
          File,          \* File[i][c]: what import i says of its components
          Committers,    \* server processes at work on a commit
          RebuildWorkers,
          FirstInventory, \* what is there before the imports
          PageSize,      \* components to a page
          MaxFullImports, \* bound: full imports that find a new snapshot
          MaxCommits,    \* bound: commit transactions begun
          MaxMatchFaults \* bound: failures and crashes

ASSUME PageAssumption == PageSize \in Nat \ {0}
ASSUME ComponentsAssumption == Components \subseteq Nat \ {0} /\ IsFiniteSet(Components)
ASSUME FirstInventoryAssumption == DOMAIN FirstInventory \subseteq Components
ASSUME FileAssumption == \A i \in Imports : DOMAIN File[i] \subseteq Components
ASSUME MatchBounds == {MaxFullImports, MaxCommits, MaxMatchFaults} \subseteq Nat

VARIABLES inventory,     \* components: content and updated_at of the rows there are
          imports,       \* status of the staged imports
          committer,     \* what each process has read
          vulns,         \* rows of vulnerabilities
          rebuildKeys,   \* dedupe keys of matching.rebuild jobs, whatever became of them
          rebuildQueue,  \* those not done
          walk,          \* the walk of each worker
          matches,       \* rows of matches: pairs with their outcome
          known,         \* history: vulnerabilities there were when a row was written
          instants, fullImports, matchFaults

stock == <<inventory, imports, committer, known, instants>>
work == <<rebuildKeys, rebuildQueue>>
matchVars == <<stock, work, vulns, walk, matches, fullImports, matchFaults>>

AtRest == [stage |-> "idle"]
Pairs == Components \X Vulnerabilities
Contents == DOMAIN Outcome

\* rowMeetsComponent: the candidate pre-filter.
Candidate(content, v) == Outcome[content][v] # NoCandidate
IsCandidate(c, v) == c \in DOMAIN inventory /\ Candidate(inventory[c].content, v)

InventoryTypeOK ==
    /\ DOMAIN inventory \subseteq Components
    /\ \A c \in DOMAIN inventory : inventory[c].content \in Contents /\ inventory[c].stamp \in 0..instants
    /\ imports \in [Imports -> {"pending", "committed"}]
    /\ \A a \in Committers : committer[a].stage = "commit" =>
         /\ committer[a].jobs \intersect rebuildKeys = {}
         /\ committer[a].changes # {}
    /\ vulns \subseteq Vulnerabilities
    /\ rebuildQueue \subseteq rebuildKeys
    /\ \A w \in RebuildWorkers : walk[w] # AtRest => walk[w].key \in rebuildKeys
    /\ DOMAIN matches \subseteq (DOMAIN inventory) \X vulns
    /\ known \in [DOMAIN inventory -> SUBSET vulns]

MatchInit ==
    /\ inventory = [c \in DOMAIN FirstInventory |-> [content |-> FirstInventory[c], stamp |-> 0]]
    /\ imports = [i \in Imports |-> "pending"]
    /\ committer = [a \in Committers |-> AtRest]
    /\ vulns = {} /\ matches = [p \in {} |-> NoCandidate]
    /\ rebuildKeys = {} /\ rebuildQueue = {}
    /\ walk = [w \in RebuildWorkers |-> AtRest]
    /\ known = [c \in DOMAIN FirstInventory |-> {}]
    /\ instants = 0 /\ fullImports = 0 /\ matchFaults = 0

-------------------------------------------------------------------------------
(* Committing a staged import. *)

\* inventorySnapshotHash: the number of rows and the latest stamp.
Snapshot(inv) == <<Cardinality(DOMAIN inv), Max({inv[c].stamp : c \in DOMAIN inv} \union {0})>>

Process(a, state) == committer' = [committer EXCEPT ![a] = state]

\* CommitStagedInventory reads the record; of a committed one it returns the
\* stored result.
ReadImport(a, i) ==
    /\ committer[a] = AtRest
    /\ imports[i] = "pending"
    /\ Process(a, [stage |-> "begin", import |-> i])
    /\ UNCHANGED <<inventory, imports, known, instants, work, vulns, walk, matches, fullImports, matchFaults>>

\* CommitInventory takes the instant and compares the file with the rows.
DiffAsset(a) ==
    /\ committer[a].stage = "begin" /\ instants < MaxCommits
    /\ instants' = instants + 1
    /\ LET i == committer[a].import
           changes == {c \in DOMAIN File[i] :
                         c \notin DOMAIN inventory \/ inventory[c].content # File[i][c]}
       IN Process(a, [stage |-> IF changes = {} THEN "mark" ELSE "write", import |-> i,
                      now |-> instants + 1, changes |-> changes, jobs |-> {}])
    /\ UNCHANGED <<inventory, imports, known, work, vulns, walk, matches, fullImports, matchFaults>>

\* The inventory a's transaction sees once it has written.
Written(a) ==
    [c \in DOMAIN inventory \union committer[a].changes |->
        IF c \in committer[a].changes
          THEN [content |-> File[committer[a].import][c], stamp |-> committer[a].now]
          ELSE inventory[c]]

Writing(b) == committer[b].stage = "commit"

\* Mutant of AppendRebuild: the check the full import makes, instead of an error.
AppendRebuildOnce(a, key) ==
    Process(a, [committer[a] EXCEPT !.stage = "commit", !.jobs = {key} \ rebuildKeys])

\* A key that is taken fails the commit, whatever became of its job.
AppendRebuild(a, key) ==
    Process(a, IF key \in rebuildKeys THEN AtRest
               ELSE [committer[a] EXCEPT !.stage = "commit", !.jobs = {key}])

\* The upserts and the append of the job wait for transactions that hold the
\* rows or the key.
WriteInventory(a) ==
    /\ committer[a].stage = "write"
    /\ LET key == Snapshot(Written(a)) IN
         /\ \A b \in Committers : Writing(b) =>
              /\ committer[b].changes \intersect committer[a].changes = {}
              /\ key \notin committer[b].jobs
         /\ AppendRebuild(a, key)
    /\ UNCHANGED <<inventory, imports, known, instants, work, vulns, walk, matches, fullImports, matchFaults>>

CommitInventory(a) ==
    /\ Writing(a)
    /\ inventory' = Written(a)
    /\ known' = [c \in DOMAIN inventory' |-> IF c \in committer[a].changes THEN vulns ELSE known[c]]
    /\ rebuildKeys' = rebuildKeys \union committer[a].jobs
    /\ rebuildQueue' = rebuildQueue \union committer[a].jobs
    /\ Process(a, [committer[a] EXCEPT !.stage = "mark"])
    /\ UNCHANGED <<imports, instants, vulns, walk, matches, fullImports, matchFaults>>

\* MarkCommitted is guarded by the pending status, the commit before it is not.
MarkCommitted(a) ==
    /\ committer[a].stage = "mark"
    /\ imports' = [imports EXCEPT ![committer[a].import] = "committed"]
    /\ Process(a, AtRest)
    /\ UNCHANGED <<inventory, known, instants, work, vulns, walk, matches, fullImports, matchFaults>>

Fault == matchFaults < MaxMatchFaults /\ matchFaults' = matchFaults + 1

\* A statement fails or the process dies: the open transaction is rolled back.
CommitterFails(a) ==
    /\ committer[a] # AtRest /\ Fault
    /\ Process(a, AtRest)
    /\ UNCHANGED <<inventory, imports, known, instants, work, vulns, walk, matches, fullImports>>

-------------------------------------------------------------------------------
(* Vulnerabilities. *)

\* A source run or a normalize job writes a vulnerability; neither enqueues
\* matching work.
Learn(v) ==
    /\ v \notin vulns
    /\ vulns' = vulns \union {v}
    /\ UNCHANGED <<stock, work, walk, matches, fullImports, matchFaults>>

\* The walk of a full import has reached the present: appendFullImportRebuild.
FinishFullImport ==
    /\ LET key == Snapshot(inventory) IN
         /\ key \notin rebuildKeys => fullImports < MaxFullImports
         /\ \A b \in Committers : Writing(b) => key \notin committer[b].jobs
         /\ fullImports' = fullImports + Cardinality({key} \ rebuildKeys)
         /\ rebuildKeys' = rebuildKeys \union {key}
         /\ rebuildQueue' = rebuildQueue \union ({key} \ rebuildKeys)
    /\ UNCHANGED <<stock, vulns, walk, matches, matchFaults>>

-------------------------------------------------------------------------------
(* The matching.rebuild job. *)

Walk(w, state) == walk' = [walk EXCEPT ![w] = state]

StartRebuild(w) ==
    /\ walk[w] = AtRest
    /\ \E key \in rebuildQueue :
         Walk(w, [stage |-> "page", key |-> key, cursor |-> 0, todo |-> {},
                  began |-> [inventory |-> inventory, vulns |-> vulns]])
    /\ UNCHANGED <<stock, work, vulns, matches, fullImports, matchFaults>>

\* ListComponentsPage: the first rows behind the cursor.
PageAfter(cursor) ==
    LET behind == {c \in DOMAIN inventory : c > cursor}
    IN {c \in behind : Cardinality({d \in behind : d < c}) < PageSize}

\* Mutant of RebuildPage: a page without candidates ends the walk.
RebuildPageEnds(w) ==
    /\ walk[w].stage = "page"
    /\ LET page == PageAfter(walk[w].cursor)
           candidates == {[pair |-> p, content |-> inventory[p[1]].content] :
                            p \in {q \in page \X vulns : Candidate(inventory[q[1]].content, q[2])}}
       IN /\ Walk(w, [walk[w] EXCEPT !.stage = IF candidates = {} THEN "done" ELSE "store",
                                     !.cursor = Max(page \union {@}), !.todo = candidates])
    /\ UNCHANGED <<stock, work, vulns, matches, fullImports, matchFaults>>

\* rebuildPage: the candidates of a page, with the components as they are now;
\* a page without any is passed over, an empty page is the end.
RebuildPage(w) ==
    /\ walk[w].stage = "page"
    /\ LET page == PageAfter(walk[w].cursor)
           candidates == {[pair |-> p, content |-> inventory[p[1]].content] :
                            p \in {q \in page \X vulns : Candidate(inventory[q[1]].content, q[2])}}
       IN Walk(w, [walk[w] EXCEPT !.stage = IF page = {} THEN "done"
                                            ELSE IF candidates = {} THEN "page" ELSE "store",
                                  !.cursor = Max(page \union {@}), !.todo = candidates])
    /\ UNCHANGED <<stock, work, vulns, matches, fullImports, matchFaults>>

\* RunMatching commits a batch, InsertMatch leaves a row alone that is there.
InsertMatches(w) ==
    /\ walk[w].stage = "store"
    /\ \E batch \in walk[w].todo :
         /\ matches' = [p \in DOMAIN matches \union {batch.pair} |->
                          IF p \in DOMAIN matches THEN matches[p]
                          ELSE Outcome[batch.content][batch.pair[2]]]
         /\ Walk(w, [walk[w] EXCEPT !.todo = @ \ {batch},
                                    !.stage = IF walk[w].todo = {batch} THEN "page" ELSE "store"])
    /\ UNCHANGED <<stock, work, vulns, fullImports, matchFaults>>

AckRebuild(w) ==
    /\ walk[w].stage = "done"
    /\ rebuildQueue' = rebuildQueue \ {walk[w].key}
    /\ Walk(w, AtRest)
    /\ UNCHANGED <<stock, rebuildKeys, vulns, matches, fullImports, matchFaults>>

\* The attempt fails or the worker dies; the relay brings the job again.
RebuildFails(w) ==
    /\ walk[w] # AtRest /\ Fault
    /\ Walk(w, AtRest)
    /\ UNCHANGED <<stock, work, vulns, matches, fullImports>>

Commit(a) == DiffAsset(a) \/ WriteInventory(a) \/ CommitInventory(a) \/ MarkCommitted(a)
Rebuild(w) == RebuildPage(w) \/ InsertMatches(w) \/ AckRebuild(w)

MatchNext ==
    \/ \E a \in Committers : Commit(a) \/ CommitterFails(a) \/ \E i \in Imports : ReadImport(a, i)
    \/ \E v \in Vulnerabilities : Learn(v)
    \/ FinishFullImport
    \/ \E w \in RebuildWorkers : StartRebuild(w) \/ Rebuild(w) \/ RebuildFails(w)

MatchSpec == MatchInit /\ [][MatchNext]_matchVars

\* The relay brings every job to a worker, and handlers return.
MatchFairness == \A w \in RebuildWorkers : /\ WF_matchVars(StartRebuild(w))
                                          /\ WF_matchVars(Rebuild(w))

-------------------------------------------------------------------------------
(* Properties *)

\* A component is matched in the end with every vulnerability that was known
\* when it was written, unless a later import takes the candidate away
\* (inventory.sql, InventorySnapshot: any inventory mutation bumps it and the
\* next change enqueues a fresh rebuild).
WrittenIsMatched ==
    \A c \in Components, v \in Vulnerabilities :
        (c \in DOMAIN inventory /\ v \in known[c])
        ~> (<<c, v>> \in DOMAIN matches \/ ~IsCandidate(c, v))

\* A rebuild that is acknowledged has left a match of every pair that was there
\* when it began and still is a candidate, although imports write while it
\* walks and attempts break off between pages (matching_rebuild.go).
RebuildIsComplete ==
    [][\A w \in RebuildWorkers : walk[w].stage = "done" /\ rebuildQueue' # rebuildQueue =>
         \A c \in DOMAIN walk[w].began.inventory, v \in walk[w].began.vulns :
            /\ inventory[c] = walk[w].began.inventory[c]
            /\ Candidate(inventory[c].content, v)
            => <<c, v>> \in DOMAIN matches]_matchVars

-------------------------------------------------------------------------------
(* What the code's own comments say of it. *)

\* inventory_staged.go: the guarded commit-mark "makes a concurrent second
\* commit a no-op too".  The commit of an import that is already marked changes
\* no component.
RecommitChangesNothing ==
    [][\A a \in Committers, c \in DOMAIN inventory :
         Writing(a) /\ committer'[a] # committer[a] /\ inventory'[c].content # inventory[c].content
         => imports[committer[a].import] = "pending"]_matchVars

\* matching_rebuild.go: the walk "recomputes every match of the current
\* inventory under the current ruleset".  With no work left, every match is the
\* outcome for the component as it is.
MatchesFollowInventory ==
    (/\ rebuildQueue = {} /\ \A w \in RebuildWorkers : walk[w] = AtRest
     /\ \A a \in Committers : committer[a] = AtRest)
    => \A p \in DOMAIN matches : matches[p] = Outcome[inventory[p[1]].content][p[2]]
===============================================================================
