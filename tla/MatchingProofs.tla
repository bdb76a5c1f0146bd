---------------------------- MODULE MatchingProofs ----------------------------
(***************************************************************************)
(* Proofs about what is made of the imported rows: the rebuild walk of the *)
(* inventory (InventoryMatching), for any number of components, imports,   *)
(* server processes, workers, failures and any page size, and the          *)
(* recomputed priorities (RecomputeFanIn), for any number of signals,      *)
(* rules, factors and jobs, and one worker.                                *)
(***************************************************************************)
EXTENDS InventoryMatching, RecomputeFanIn, FiniteSetTheorems, TLAPS

-------------------------------------------------------------------------------
(* Finite sets *)

\* A finite set of integers has a greatest element: one that the fewest
\* elements exceed.
LEMMA GreatestOf ==
    ASSUME NEW T \in SUBSET Int, IsFiniteSet(T), T # {}
    PROVE  \E m \in T : \A x \in T : x <= m
<1> DEFINE Above(m) == {x \in T : x > m}
           Sizes == {Cardinality(Above(m)) : m \in T}
           Below == {p \in Nat \X Nat : p[1] < p[2]}
<1>1. \A m \in T : IsFiniteSet(Above(m)) /\ Cardinality(Above(m)) \in Nat
  <2> SUFFICES ASSUME NEW m \in T PROVE IsFiniteSet(Above(m)) /\ Cardinality(Above(m)) \in Nat
    OBVIOUS
  <2>1. Above(m) \in SUBSET T
    OBVIOUS
  <2> HIDE DEF Above
  <2> QED
    BY <2>1, FS_Subset, FS_CardinalityType
<1>2. Sizes \subseteq Nat /\ Sizes # {}
  BY <1>1
<1>3. IsWellFoundedOn(Below, Nat)
  BY NatLessThanWellFounded DEF OpToRel
<1>4. PICK n \in Sizes : \A k \in Sizes : <<k, n>> \notin Below
  <2> HIDE DEF Below, Sizes
  <2> QED
    BY <1>2, <1>3, WFMin
<1>5. PICK m \in T : n = Cardinality(Above(m))
  OBVIOUS
<1> SUFFICES ASSUME NEW x \in T, ~(x <= m) PROVE FALSE
  BY <1>5
<1>6. Above(x) \in SUBSET Above(m) /\ Above(x) # Above(m)
  <2>1. x > m /\ x \in Int /\ m \in Int
    OBVIOUS
  <2>2. \A y \in T : y > x => y > m
    BY <2>1
  <2>3. x \in Above(m) /\ x \notin Above(x)
    BY <2>1
  <2> QED
    BY <2>2, <2>3
<1>7. Cardinality(Above(x)) < n
  <2>1. IsFiniteSet(Above(m)) /\ Cardinality(Above(m)) \in Nat /\ Cardinality(Above(x)) \in Nat
    BY <1>1
  <2> HIDE DEF Above
  <2>2. /\ Cardinality(Above(x)) <= Cardinality(Above(m))
        /\ Cardinality(Above(m)) = Cardinality(Above(x)) => Above(m) = Above(x)
    BY <1>6, <2>1, FS_Subset
  <2> QED
    BY <1>5, <1>6, <2>1, <2>2
<1>8. Cardinality(Above(x)) \in Sizes /\ Cardinality(Above(x)) \in Nat /\ n \in Nat
  BY <1>1, <1>2
<1>9. <<Cardinality(Above(x)), n>> \in Below
  BY <1>7, <1>8
<1> QED
  BY <1>4, <1>8, <1>9
-------------------------------------------------------------------------------
(* InventoryMatching: stamps *)

\* The committer is about to write, or has written and not committed.
Busy(a) == committer[a].stage \in {"write", "commit"}

CommitterOK(a) ==
    \/ committer[a] = AtRest
    \/ \E i \in Imports : committer[a] = [stage |-> "begin", import |-> i]
    \/ \E st, i, n, changes, jobs :
            /\ st \in {"write", "commit", "mark"} /\ i \in Imports /\ n \in 1..instants
            /\ changes \in SUBSET Components
            /\ committer[a] = [stage |-> st, import |-> i, now |-> n,
                               changes |-> changes, jobs |-> jobs]

\* The instant a committer is to write is its own, and no row bears it yet.
OwnInstant(a) ==
    Busy(a) => /\ \A c \in DOMAIN inventory : inventory[c].stamp # committer[a].now
               /\ \A b \in Committers \ {a} : Busy(b) => committer[b].now # committer[a].now

StampInv ==
    /\ instants \in Nat
    /\ DOMAIN inventory \subseteq Components
    /\ \A c \in DOMAIN inventory : inventory[c].stamp \in 0..instants
    /\ DOMAIN committer = Committers
    /\ \A a \in Committers : CommitterOK(a) /\ OwnInstant(a)

\* What a step does to the inventory: a row that is written gets the instant of
\* a committer that was busy; an instant that is taken is new.
StampStep ==
    /\ instants' \in Nat /\ instants <= instants'
    /\ DOMAIN inventory \subseteq DOMAIN inventory'
    /\ \A c \in DOMAIN inventory :
         \/ inventory'[c] = inventory[c]
         \/ \E a \in Committers : Busy(a) /\ inventory'[c].stamp = committer[a].now
    /\ \A a \in Committers :
         Busy(a)' => \/ Busy(a) /\ committer'[a].now = committer[a].now
                     \/ committer'[a].now > instants

\* A committer with a plan is as it should be.
LEMMA HandOK ==
    ASSUME NEW a, NEW st \in {"write", "commit", "mark"}, NEW i \in Imports, NEW n \in 1..instants',
           NEW changes \in SUBSET Components, NEW jobs,
           committer'[a] = [stage |-> st, import |-> i, now |-> n,
                            changes |-> changes, jobs |-> jobs]
    PROVE  CommitterOK(a)'
<1> SUFFICES \E s, j, m, ch, js :
               /\ s \in {"write", "commit", "mark"} /\ j \in Imports /\ m \in 1..instants'
               /\ ch \in SUBSET Components
               /\ committer'[a] = [stage |-> s, import |-> j, now |-> m, changes |-> ch, jobs |-> js]
  BY DEF CommitterOK
<1> WITNESS st, i, n, changes, jobs
<1> QED
  OBVIOUS

\* What a busy committer holds.
LEMMA BusyHand ==
    ASSUME NEW a, CommitterOK(a), Busy(a)
    PROVE  \E i, n, changes, jobs :
             /\ i \in Imports /\ n \in 1..instants /\ changes \in SUBSET Components
             /\ committer[a] = [stage |-> committer[a].stage, import |-> i, now |-> n,
                                changes |-> changes, jobs |-> jobs]
<1>1. PICK st, i, n, changes, jobs :
            /\ st \in {"write", "commit", "mark"} /\ i \in Imports /\ n \in 1..instants
            /\ changes \in SUBSET Components
            /\ committer[a] = [stage |-> st, import |-> i, now |-> n,
                               changes |-> changes, jobs |-> jobs]
  <2>1. committer[a] # AtRest
    BY DEF Busy, AtRest
  <2>2. ~\E i \in Imports : committer[a] = [stage |-> "begin", import |-> i]
    <3> SUFFICES ASSUME NEW i \in Imports, committer[a] = [stage |-> "begin", import |-> i]
                 PROVE  FALSE
      OBVIOUS
    <3>1. committer[a].stage = "begin"
      OBVIOUS
    <3> QED
      BY ONLY <3>1, Busy(a) DEF Busy
  <2> QED
    BY ONLY CommitterOK(a), <2>1, <2>2 DEF CommitterOK
<1>2. committer[a].stage = st
  BY <1>1
<1> QED
  BY <1>1, <1>2

\* Instants only grow: a committer that does nothing stays as it should be.
LEMMA HandKept ==
    ASSUME NEW a, CommitterOK(a), committer'[a] = committer[a],
           instants \in Nat, instants' \in Nat, instants <= instants'
    PROVE  CommitterOK(a)' /\ (Busy(a)' => Busy(a))
<1>1. Busy(a)' => Busy(a)
  BY DEF Busy
<1>2. 1..instants \subseteq 1..instants'
  OBVIOUS
<1>3. CASE \E st, i, n, changes, jobs :
                /\ st \in {"write", "commit", "mark"} /\ i \in Imports /\ n \in 1..instants
                /\ changes \in SUBSET Components
                /\ committer[a] = [stage |-> st, import |-> i, now |-> n,
                                   changes |-> changes, jobs |-> jobs]
  <2>1. PICK st, i, n, changes, jobs :
               /\ st \in {"write", "commit", "mark"} /\ i \in Imports /\ n \in 1..instants
               /\ changes \in SUBSET Components
               /\ committer[a] = [stage |-> st, import |-> i, now |-> n,
                                  changes |-> changes, jobs |-> jobs]
    BY <1>3
  <2>2. n \in 1..instants'
    BY <1>2, <2>1
  <2>3. committer'[a] = [stage |-> st, import |-> i, now |-> n,
                         changes |-> changes, jobs |-> jobs]
    BY <2>1
  <2>4. CommitterOK(a)'
    BY <2>1, <2>2, <2>3, HandOK
  <2> QED
    BY <1>1, <2>4
<1>4. CASE committer[a] = AtRest \/ \E i \in Imports : committer[a] = [stage |-> "begin", import |-> i]
  BY <1>1, <1>4 DEF CommitterOK
<1> QED
  BY <1>3, <1>4 DEF CommitterOK

\* Steps that leave the stock alone.
LEMMA StockKept ==
    ASSUME StampInv, UNCHANGED stock PROVE StampInv' /\ StampStep
<1>1. UNCHANGED <<inventory, committer, instants>>
  BY DEF stock
<1>2. \A a \in Committers : CommitterOK(a)' /\ OwnInstant(a)'
  BY <1>1 DEF StampInv, CommitterOK, OwnInstant, Busy
<1> QED
  BY <1>1, <1>2 DEF StampInv, StampStep, Busy

\* Steps that leave the inventory alone and give one committer a new state that
\* is not busy, or as busy as before.
LEMMA CommitterMoves ==
    ASSUME StampInv, NEW a \in Committers, NEW state,
           committer' = [committer EXCEPT ![a] = state],
           UNCHANGED <<inventory, instants>>, CommitterOK(a)',
           Busy(a)' => Busy(a) /\ state.now = committer[a].now
    PROVE  StampInv' /\ StampStep
<1>1. /\ DOMAIN committer' = Committers /\ committer'[a] = state
      /\ \A b \in Committers \ {a} : committer'[b] = committer[b]
  BY DEF StampInv
<1>2. \A b \in Committers : Busy(b)' => Busy(b) /\ committer'[b].now = committer[b].now
  BY <1>1 DEF Busy
<1>3. ASSUME NEW b \in Committers \ {a} PROVE CommitterOK(b)'
  BY <1>1, <1>3 DEF StampInv, CommitterOK
<1>4. \A b \in Committers : OwnInstant(b)'
  BY <1>2 DEF StampInv, OwnInstant
<1>5. StampInv'
  BY <1>1, <1>3, <1>4 DEF StampInv
<1>6. StampStep
  BY <1>2 DEF StampStep, StampInv
<1> QED
  BY <1>5, <1>6

\* Every step keeps the invariant of the stamps and is a stamp step.
LEMMA StampsStep == StampInv /\ [MatchNext]_matchVars => StampInv' /\ StampStep
<1> SUFFICES ASSUME StampInv, [MatchNext]_matchVars PROVE StampInv' /\ StampStep
  OBVIOUS
<1>1. CASE UNCHANGED stock
  BY <1>1, StockKept
<1>2. ASSUME NEW a \in Committers, NEW i \in Imports, ReadImport(a, i)
      PROVE  StampInv' /\ StampStep
  <2> DEFINE state == [stage |-> "begin", import |-> i]
  <2>1. committer' = [committer EXCEPT ![a] = state] /\ UNCHANGED <<inventory, instants>>
    BY <1>2 DEF ReadImport, Process
  <2>2. committer'[a] = state
    BY <2>1 DEF StampInv
  <2>3. CommitterOK(a)' /\ ~Busy(a)'
    BY <2>2 DEF CommitterOK, Busy
  <2> HIDE DEF state
  <2> QED
    BY <2>1, <2>3, CommitterMoves
<1>3. ASSUME NEW a \in Committers, DiffAsset(a) PROVE StampInv' /\ StampStep
  <2>1. PICK i \in Imports : committer[a] = [stage |-> "begin", import |-> i]
    BY <1>3 DEF DiffAsset, StampInv, CommitterOK, AtRest
  <2> DEFINE changes == {c \in DOMAIN File[i] :
                           c \notin DOMAIN inventory \/ inventory[c].content # File[i][c]}
             state == [stage |-> IF changes = {} THEN "mark" ELSE "write", import |-> i,
                       now |-> instants + 1, changes |-> changes, jobs |-> {}]
  <2>2. changes \in SUBSET Components
    BY FileAssumption
  <2>3. committer' = [committer EXCEPT ![a] = state] /\ instants' = instants + 1
        /\ UNCHANGED inventory
    BY <1>3, <2>1 DEF DiffAsset, Process
  <2> HIDE DEF changes
  <2>4. committer'[a] = state /\ instants \in Nat
    BY <2>3 DEF StampInv
  <2>5. /\ DOMAIN committer' = Committers
        /\ \A b \in Committers \ {a} : committer'[b] = committer[b]
    BY <2>3 DEF StampInv
  <2>6. CommitterOK(a)' /\ state.now = instants + 1
    <3>1. instants + 1 \in 1..instants'
      BY <2>3, <2>4
    <3>2. (IF changes = {} THEN "mark" ELSE "write") \in {"write", "commit", "mark"}
      OBVIOUS
    <3> QED
      BY <2>2, <2>4, <3>1, <3>2, HandOK
  <2> HIDE DEF state
  <2>7. ASSUME NEW b \in Committers \ {a}
        PROVE  CommitterOK(b)' /\ (Busy(b)' => Busy(b))
               /\ (Busy(b) => committer[b].now \in 1..instants)
    <3>1. CommitterOK(b) /\ committer'[b] = committer[b]
      BY <2>5 DEF StampInv
    <3>2. instants' \in Nat /\ instants <= instants'
      BY <2>3, <2>4
    <3>3. CommitterOK(b)' /\ (Busy(b)' => Busy(b))
      BY <2>4, <3>1, <3>2, HandKept
    <3>4. ASSUME Busy(b) PROVE committer[b].now \in 1..instants
      <4>1. PICK j, n, ch, jobs :
              /\ j \in Imports /\ n \in 1..instants /\ ch \in SUBSET Components
              /\ committer[b] = [stage |-> committer[b].stage, import |-> j, now |-> n,
                                 changes |-> ch, jobs |-> jobs]
        BY <3>1, <3>4, BusyHand
      <4> QED
        BY <4>1
    <3> QED
      BY <3>3, <3>4
  <2>8. OwnInstant(a)'
    <3>1. \A c \in DOMAIN inventory : inventory[c].stamp \in 0..instants
      BY DEF StampInv
    <3>2. \A c \in DOMAIN inventory : inventory[c].stamp # state.now
      BY <2>4, <2>6, <3>1
    <3>3. \A b \in Committers \ {a} : Busy(b)' => committer'[b].now # state.now
      BY <2>4, <2>5, <2>6, <2>7
    <3> QED
      BY <2>3, <2>4, <3>2, <3>3 DEF OwnInstant
  <2>9. ASSUME NEW b \in Committers \ {a} PROVE OwnInstant(b)'
    <3> SUFFICES ASSUME Busy(b)'
                 PROVE  /\ \A c \in DOMAIN inventory' : inventory'[c].stamp # committer'[b].now
                        /\ \A d \in Committers \ {b} : Busy(d)' => committer'[d].now # committer'[b].now
      BY DEF OwnInstant
    <3>1. OwnInstant(b) /\ Busy(b) /\ committer'[b] = committer[b]
      BY <2>5, <2>7 DEF StampInv
    <3>2. ASSUME NEW d \in Committers \ {b}, Busy(d)' PROVE committer'[d].now # committer'[b].now
      <4>1. CASE d = a
        BY <2>4, <2>6, <2>7, <3>1, <4>1
      <4>2. CASE d # a
        BY <2>5, <2>7, <3>1, <3>2, <4>2 DEF OwnInstant
      <4> QED
        BY <4>1, <4>2
    <3> QED
      BY <2>3, <3>1, <3>2 DEF OwnInstant
  <2>10. StampInv'
    <3>1. \A c \in DOMAIN inventory' : inventory'[c].stamp \in 0..instants'
      BY <2>3, <2>4 DEF StampInv
    <3>2. \A b \in Committers : CommitterOK(b)' /\ OwnInstant(b)'
      BY <2>6, <2>7, <2>8, <2>9
    <3> QED
      BY <2>3, <2>4, <2>5, <3>1, <3>2 DEF StampInv
  <2>11. StampStep
    <3>1. committer'[a].now > instants
      BY <2>4, <2>6
    <3>2. \A b \in Committers \ {a} : Busy(b)' => Busy(b) /\ committer'[b].now = committer[b].now
      BY <2>5, <2>7
    <3> QED
      BY <2>3, <2>4, <3>1, <3>2 DEF StampStep
  <2> QED
    BY <2>10, <2>11
<1>4. ASSUME NEW a \in Committers, WriteInventory(a) PROVE StampInv' /\ StampStep
  <2> DEFINE key == Snapshot(Written(a))
  <2>1. PICK i, n, changes, jobs :
          /\ i \in Imports /\ n \in 1..instants /\ changes \in SUBSET Components
          /\ committer[a] = [stage |-> "write", import |-> i, now |-> n,
                             changes |-> changes, jobs |-> jobs]
    BY <1>4 DEF WriteInventory, StampInv, CommitterOK, AtRest
  <2> DEFINE state == [stage |-> "commit", import |-> i, now |-> n,
                       changes |-> changes, jobs |-> {key}]
  <2>2. UNCHANGED <<inventory, instants>> /\ Busy(a)
    BY <1>4, <2>1 DEF WriteInventory, Busy
  <2>3. \/ committer' = [committer EXCEPT ![a] = AtRest]
        \/ committer' = [committer EXCEPT ![a] = [committer[a] EXCEPT !.stage = "commit", !.jobs = {key}]]
    BY <1>4 DEF WriteInventory, AppendRebuild, Process
  <2> HIDE DEF key
  <2>4. [committer[a] EXCEPT !.stage = "commit", !.jobs = {key}] = state
    <3> DEFINE u == [committer[a] EXCEPT !.stage = "commit", !.jobs = {key}]
    <3>1. u = [x \in DOMAIN u |-> u[x]] /\ state = [x \in DOMAIN state |-> state[x]]
      BY ONLY <2>1
    <3>2. DOMAIN u = DOMAIN state /\ DOMAIN state = {"stage", "import", "now", "changes", "jobs"}
      BY ONLY <2>1
    <3>3. u["stage"] = state["stage"] /\ u["import"] = state["import"] /\ u["now"] = state["now"]
      BY ONLY <2>1
    <3>4. u["changes"] = state["changes"] /\ u["jobs"] = state["jobs"]
      BY ONLY <2>1
    <3> HIDE DEF u, state
    <3>5. u = state
      BY ONLY <3>1, <3>2, <3>3, <3>4
    <3> QED
      BY ONLY <3>5 DEF u
  <2>5. CASE committer' = [committer EXCEPT ![a] = AtRest]
    <3>1. committer'[a] = AtRest
      BY <2>5 DEF StampInv
    <3> QED
      BY <2>2, <2>5, <3>1, CommitterMoves DEF CommitterOK, Busy, AtRest
  <2>6. CASE committer' = [committer EXCEPT ![a] = state]
    <3>1. committer'[a] = state
      BY <2>6 DEF StampInv
    <3>2. CommitterOK(a)'
      BY <2>1, <2>2, <3>1, HandOK
    <3>3. state.now = committer[a].now
      BY <2>1
    <3> HIDE DEF state
    <3> QED
      BY <2>2, <2>6, <3>2, <3>3, CommitterMoves
  <2> QED
    BY <2>3, <2>4, <2>5, <2>6
<1>5. ASSUME NEW a \in Committers, CommitInventory(a) PROVE StampInv' /\ StampStep
  <2>1. PICK i, n, changes, jobs :
          /\ i \in Imports /\ n \in 1..instants /\ changes \in SUBSET Components
          /\ committer[a] = [stage |-> "commit", import |-> i, now |-> n,
                             changes |-> changes, jobs |-> jobs]
    BY <1>5 DEF CommitInventory, Writing, StampInv, CommitterOK, AtRest
  <2> DEFINE state == [stage |-> "mark", import |-> i, now |-> n, changes |-> changes, jobs |-> jobs]
  <2>2. inventory' = [c \in DOMAIN inventory \union changes |->
                        IF c \in changes THEN [content |-> File[i][c], stamp |-> n] ELSE inventory[c]]
    BY <1>5, <2>1 DEF CommitInventory, Written
  <2>3. committer' = [committer EXCEPT ![a] = state] /\ instants' = instants /\ Busy(a)
    <3>1. [committer[a] EXCEPT !.stage = "mark"] = state
      BY ONLY <2>1
    <3>2. committer' = [committer EXCEPT ![a] = [committer[a] EXCEPT !.stage = "mark"]]
      BY <1>5 DEF CommitInventory, Process
    <3>3. instants' = instants /\ Busy(a)
      BY <1>5, <2>1 DEF CommitInventory, Busy
    <3> HIDE DEF state
    <3> QED
      BY <3>1, <3>2, <3>3
  <2>4. /\ committer'[a] = state /\ DOMAIN committer' = Committers
        /\ \A b \in Committers \ {a} : committer'[b] = committer[b]
    BY <2>3 DEF StampInv
  <2>5. CommitterOK(a)' /\ ~Busy(a)' /\ committer[a].now = n
    <3>1. n \in 1..instants'
      BY <2>1, <2>3
    <3>2. CommitterOK(a)'
      BY <2>1, <2>4, <3>1, HandOK
    <3> QED
      BY <2>1, <2>4, <3>2 DEF Busy
  <2> HIDE DEF state
  <2>6. \A c \in DOMAIN inventory : inventory'[c] = inventory[c] \/ inventory'[c].stamp = n
    BY <2>2
  <2>7. /\ DOMAIN inventory \subseteq DOMAIN inventory' /\ DOMAIN inventory' \subseteq Components
        /\ \A c \in DOMAIN inventory' : \/ inventory'[c].stamp = n
                                        \/ c \in DOMAIN inventory /\ inventory'[c] = inventory[c]
    BY <2>1, <2>2 DEF StampInv
  <2>8. ASSUME NEW b \in Committers \ {a}
        PROVE  CommitterOK(b)' /\ OwnInstant(b)' /\ (Busy(b)' => Busy(b))
    <3>1. CommitterOK(b) /\ OwnInstant(b) /\ OwnInstant(a) /\ committer'[b] = committer[b]
      BY <2>4 DEF StampInv
    <3>2. CommitterOK(b)' /\ (Busy(b)' => Busy(b))
      BY <2>3, <3>1, HandKept DEF StampInv
    <3>3. \A d \in Committers : Busy(d)' => Busy(d) /\ committer'[d] = committer[d]
      BY <2>4, <2>5 DEF Busy
    <3>4. Busy(b) => committer[b].now # n
      BY <2>3, <2>5, <3>1 DEF OwnInstant
    <3> QED
      BY <2>7, <3>1, <3>2, <3>3, <3>4 DEF OwnInstant
  <2>9. StampInv'
    <3>1. \A c \in DOMAIN inventory' : inventory'[c].stamp \in 0..instants'
      BY <2>1, <2>3, <2>7 DEF StampInv
    <3> QED
      BY <2>3, <2>4, <2>5, <2>7, <2>8, <3>1 DEF StampInv, OwnInstant
  <2>10. StampStep
    <3>1. \A b \in Committers : Busy(b)' => Busy(b) /\ committer'[b] = committer[b]
      BY <2>4, <2>5, <2>8
    <3> QED
      BY <2>3, <2>5, <2>6, <2>7, <3>1 DEF StampStep, StampInv
  <2> QED
    BY <2>9, <2>10
<1>6. ASSUME NEW a \in Committers, MarkCommitted(a) \/ CommitterFails(a)
      PROVE  StampInv' /\ StampStep
  <2>1. committer' = [committer EXCEPT ![a] = AtRest] /\ UNCHANGED <<inventory, instants>>
    BY <1>6 DEF MarkCommitted, CommitterFails, Process
  <2>2. committer'[a] = AtRest
    BY <2>1 DEF StampInv
  <2>3. CommitterOK(a)' /\ ~Busy(a)'
    BY <2>2 DEF CommitterOK, Busy, AtRest
  <2> QED
    BY <2>1, <2>3, CommitterMoves
<1>7. CASE UNCHANGED matchVars
  BY <1>1, <1>7 DEF matchVars
<1>8. CASE \E v \in Vulnerabilities : Learn(v)
  BY <1>1, <1>8 DEF Learn
<1>9. CASE FinishFullImport
  BY <1>1, <1>9 DEF FinishFullImport
<1>10. CASE \E w \in RebuildWorkers : StartRebuild(w) \/ Rebuild(w) \/ RebuildFails(w)
  BY <1>1, <1>10 DEF StartRebuild, Rebuild, RebuildPage, InsertMatches, AckRebuild, RebuildFails
<1> QED
  BY <1>2, <1>3, <1>4, <1>5, <1>6, <1>7, <1>8, <1>9, <1>10 DEF MatchNext, Commit

-------------------------------------------------------------------------------
(* InventoryMatching: the walk *)

\* A pair that is still a candidate lies ahead, is matched or is in hand.
Ahead(w) ==
    \A c \in DOMAIN walk[w].began.inventory, v \in walk[w].began.vulns :
        inventory[c] = walk[w].began.inventory[c] /\ Candidate(inventory[c].content, v) =>
          \/ c > walk[w].cursor
          \/ <<c, v>> \in DOMAIN matches
          \/ \E t \in walk[w].todo : t.pair = <<c, v>>

\* No committer that is busy can bring back a row the walk has read.
NoReturn(w) ==
    /\ DOMAIN walk[w].began.inventory \subseteq DOMAIN inventory
    /\ \A c \in DOMAIN walk[w].began.inventory :
         /\ walk[w].began.inventory[c].stamp \in 0..instants
         /\ \A a \in Committers : Busy(a) => walk[w].began.inventory[c].stamp # committer[a].now

WalkShape(w) ==
    \E st, key, cursor, todo, inv, vs :
       /\ st \in {"page", "store", "done"} /\ cursor \in Nat /\ vs \in SUBSET Vulnerabilities
       /\ walk[w] = [stage |-> st, key |-> key, cursor |-> cursor, todo |-> todo,
                     began |-> [inventory |-> inv, vulns |-> vs]]

WalkOK(w) ==
    walk[w] = AtRest \/ /\ WalkShape(w)
                        /\ walk[w].began.vulns \subseteq vulns
                        /\ NoReturn(w) /\ Ahead(w)
                        /\ walk[w].stage # "store" => walk[w].todo = {}
                        /\ walk[w].stage = "done" =>
                             \A c \in DOMAIN walk[w].began.inventory : c <= walk[w].cursor

MatchInv ==
    /\ StampInv /\ vulns \subseteq Vulnerabilities
    /\ DOMAIN walk = RebuildWorkers
    /\ \A w \in RebuildWorkers : WalkOK(w)

\* The instants of other committers keep clear of what the walk has read.
LEMMA NoReturnKept ==
    ASSUME StampInv, StampStep, NEW w, walk'[w].began = walk[w].began, NoReturn(w)
    PROVE  /\ NoReturn(w)'
           /\ \A c \in DOMAIN walk[w].began.inventory :
                inventory'[c] = walk[w].began.inventory[c] => inventory[c] = walk[w].began.inventory[c]
<1> DEFINE inv == walk[w].began.inventory
<1>1. /\ walk'[w].began.inventory = inv
      /\ DOMAIN inv \subseteq DOMAIN inventory
      /\ \A c \in DOMAIN inv :
           /\ inv[c].stamp \in 0..instants
           /\ \A a \in Committers : Busy(a) => inv[c].stamp # committer[a].now
  BY DEF NoReturn
<1>2. walk'[w].began.inventory = inv
  OBVIOUS
<1> HIDE DEF inv
<1>3. /\ instants \in Nat /\ instants' \in Nat /\ instants <= instants'
      /\ DOMAIN inventory \subseteq DOMAIN inventory'
      /\ \A c \in DOMAIN inventory :
           \/ inventory'[c] = inventory[c]
           \/ \E a \in Committers : Busy(a) /\ inventory'[c].stamp = committer[a].now
  BY DEF StampStep, StampInv
<1>4. ASSUME NEW c \in DOMAIN inv, NEW a \in Committers, Busy(a)'
      PROVE  inv[c].stamp # committer'[a].now
  <2>1. inv[c].stamp \in 0..instants
    BY <1>1
  <2>2. \/ Busy(a) /\ committer'[a].now = committer[a].now
        \/ committer'[a].now > instants
    BY <1>4 DEF StampStep
  <2>3. CASE Busy(a) /\ committer'[a].now = committer[a].now
    BY <1>1, <2>3
  <2>4. CASE committer'[a].now > instants
    BY <1>3, <2>1, <2>4
  <2> QED
    BY <2>2, <2>3, <2>4
<1>5. \A c \in DOMAIN inv : inv[c].stamp \in 0..instants'
  BY <1>1, <1>3
<1>6. NoReturn(w)'
  BY <1>1, <1>2, <1>3, <1>4, <1>5 DEF NoReturn
<1>7. \A c \in DOMAIN inv : inventory'[c] = inv[c] => inventory[c] = inv[c]
  BY <1>1, <1>3
<1> QED
  BY <1>6, <1>7 DEF inv

\* A new state of a walk has the shape of one.
LEMMA ShapeOf ==
    ASSUME NEW w, NEW st \in {"page", "store", "done"}, NEW key, NEW cursor \in Nat, NEW todo,
           NEW inv, NEW vs \in SUBSET Vulnerabilities,
           walk'[w] = [stage |-> st, key |-> key, cursor |-> cursor, todo |-> todo,
                       began |-> [inventory |-> inv, vulns |-> vs]]
    PROVE  WalkShape(w)'
<1> SUFFICES \E s, k, cu, td, iv, vu :
               /\ s \in {"page", "store", "done"} /\ cu \in Nat /\ vu \in SUBSET Vulnerabilities
               /\ walk'[w] = [stage |-> s, key |-> k, cursor |-> cu, todo |-> td,
                              began |-> [inventory |-> iv, vulns |-> vu]]
  BY DEF WalkShape
<1> WITNESS st, key, cursor, todo, inv, vs
<1> QED
  OBVIOUS

\* Steps that leave a walk alone.
LEMMA WalkKept ==
    ASSUME StampInv, StampStep, NEW w \in RebuildWorkers, WalkOK(w), walk'[w] = walk[w],
           vulns \subseteq vulns', DOMAIN matches \subseteq DOMAIN matches'
    PROVE  WalkOK(w)'
<1>1. CASE walk[w] = AtRest
  BY <1>1 DEF WalkOK
<1>2. CASE walk[w] # AtRest
  <2>1. NoReturn(w) /\ Ahead(w) /\ walk[w].began.vulns \subseteq vulns /\ WalkShape(w)
        /\ (walk[w].stage # "store" => walk[w].todo = {})
        /\ (walk[w].stage = "done" =>
              \A c \in DOMAIN walk[w].began.inventory : c <= walk[w].cursor)
    BY <1>2 DEF WalkOK
  <2>2. /\ NoReturn(w)'
        /\ \A c \in DOMAIN walk[w].began.inventory :
             inventory'[c] = walk[w].began.inventory[c] => inventory[c] = walk[w].began.inventory[c]
    BY <2>1, NoReturnKept
  <2>3. Ahead(w)'
    <3> SUFFICES ASSUME NEW c \in DOMAIN walk[w].began.inventory, NEW v \in walk[w].began.vulns,
                        inventory'[c] = walk[w].began.inventory[c],
                        Candidate(inventory'[c].content, v)
                 PROVE  \/ c > walk[w].cursor
                        \/ <<c, v>> \in DOMAIN matches'
                        \/ \E t \in walk[w].todo : t.pair = <<c, v>>
      BY DEF Ahead, Candidate
    <3>1. inventory[c] = walk[w].began.inventory[c]
      BY <2>2
    <3>2. Candidate(inventory[c].content, v)
      BY <3>1
    <3> QED
      BY <2>1, <3>1, <3>2 DEF Ahead
  <2>4. WalkShape(w)'
    <3>1. PICK st, key, cursor, todo, inv, vs :
            /\ st \in {"page", "store", "done"} /\ cursor \in Nat /\ vs \in SUBSET Vulnerabilities
            /\ walk[w] = [stage |-> st, key |-> key, cursor |-> cursor, todo |-> todo,
                          began |-> [inventory |-> inv, vulns |-> vs]]
      BY <2>1 DEF WalkShape
    <3>2. walk'[w] = [stage |-> st, key |-> key, cursor |-> cursor, todo |-> todo,
                      began |-> [inventory |-> inv, vulns |-> vs]]
      BY <3>1
    <3> QED
      BY <3>1, <3>2, ShapeOf
  <2>5. walk'[w].began.vulns \subseteq vulns'
    BY <2>1
  <2> QED
    BY <2>1, <2>2, <2>3, <2>4, <2>5 DEF WalkOK
<1> QED
  BY <1>1, <1>2

\* A page holds everything between the cursor and its greatest component, and
\* is empty only at the end.
LEMMA PageCovers ==
    ASSUME StampInv, NEW cursor \in Nat
    PROVE  LET page == PageAfter(cursor)
               next == Max(page \union {cursor})
           IN  /\ page \subseteq DOMAIN inventory
               /\ next \in Nat
               /\ \A c \in DOMAIN inventory : c <= cursor \/ c \in page \/ c > next
               /\ page = {} => \A c \in DOMAIN inventory : c <= cursor
<1> DEFINE page == PageAfter(cursor)
           next == Max(page \union {cursor})
           behind == {c \in DOMAIN inventory : c > cursor}
           before(c) == {d \in behind : d < c}
<1>1. Components \subseteq Nat /\ IsFiniteSet(Components) /\ DOMAIN inventory \subseteq Components
  BY ComponentsAssumption DEF StampInv
<1>2. page = {c \in behind : Cardinality(before(c)) < PageSize}
  BY DEF PageAfter
<1>3. behind \in SUBSET Components /\ behind \subseteq Nat
  BY <1>1
<1>4. IsFiniteSet(behind)
  <2> HIDE DEF behind
  <2> QED
    BY <1>1, <1>3, FS_Subset
<1>5. \A c : before(c) \in SUBSET behind
  OBVIOUS
<1>6. \A c : IsFiniteSet(before(c)) /\ Cardinality(before(c)) \in Nat
  <2> HIDE DEF before, behind
  <2> QED
    BY <1>4, <1>5, FS_Subset, FS_CardinalityType
<1>7. ASSUME NEW c \in page, NEW d \in behind, d < c PROVE d \in page
  <2>1. before(d) \in SUBSET before(c)
    BY <1>2, <1>3, <1>7
  <2>2. Cardinality(before(d)) <= Cardinality(before(c))
    <3> HIDE DEF before
    <3> QED
      BY <1>6, <2>1, FS_Subset
  <2>3. Cardinality(before(c)) < PageSize /\ PageSize \in Nat
    BY <1>2, PageAssumption
  <2>4. Cardinality(before(d)) < PageSize
    <3> HIDE DEF before, page, behind
    <3> QED
      BY <1>6, <2>2, <2>3
  <2> QED
    BY <1>2, <2>4
<1>8. page \union {cursor} \in SUBSET Int /\ page \in SUBSET behind
  BY <1>2, <1>3
<1>9. IsFiniteSet(page \union {cursor})
  <2>1. IsFiniteSet(page)
    <3> HIDE DEF page, behind
    <3> QED
      BY <1>4, <1>8, FS_Subset
  <2> HIDE DEF page
  <2> QED
    BY <2>1, FS_AddElement
<1>10. next \in page \union {cursor} /\ \A x \in page \union {cursor} : next >= x
  <2> HIDE DEF page
  <2>1. PICK m \in page \union {cursor} : \A x \in page \union {cursor} : x <= m
    BY <1>8, <1>9, GreatestOf
  <2>2. m \in page \union {cursor} /\ \A x \in page \union {cursor} : m >= x
    BY <1>8, <2>1
  <2> QED
    BY <2>2 DEF Max
<1>11. next \in Nat
  BY <1>3, <1>8, <1>10
<1>12. ASSUME NEW c \in DOMAIN inventory, ~(c <= cursor), c \notin page PROVE c > next
  <2>1. c \in Nat /\ c \in behind
    <3>1. c \in Nat
      BY <1>1
    <3>2. c > cursor
      BY <1>12, <3>1
    <3> QED
      BY <3>1, <3>2
  <2>2. next \in page \/ next = cursor
    BY <1>10
  <2>3. CASE next = cursor
    BY <1>12, <2>1, <2>3
  <2>4. CASE next \in page
    <3>1. ~(c < next)
      BY <1>7, <1>12, <2>1, <2>4
    <3>2. c # next
      BY <1>12, <2>4
    <3> QED
      BY <1>11, <2>1, <3>1, <3>2
  <2> QED
    BY <2>2, <2>3, <2>4
<1>13. ASSUME page = {} PROVE \A c \in DOMAIN inventory : c <= cursor
  <2> SUFFICES ASSUME NEW c \in DOMAIN inventory, ~(c <= cursor) PROVE FALSE
    OBVIOUS
  <2>1. c \in Nat
    BY <1>1
  <2>2. c \in behind
    BY <2>1
  <2> DEFINE Below == {p \in Nat \X Nat : p[1] < p[2]}
  <2>3. PICK m \in behind : \A x \in behind : <<x, m>> \notin Below
    <3>1. IsWellFoundedOn(Below, Nat)
      BY NatLessThanWellFounded DEF OpToRel
    <3> HIDE DEF behind, Below
    <3> QED
      BY <1>3, <2>2, <3>1, WFMin
  <2>4. before(m) = {}
    BY <1>3, <2>3
  <2>5. Cardinality(before(m)) = 0
    <3> HIDE DEF before
    <3> QED
      BY <2>4, FS_EmptySet
  <2>6. 0 < PageSize
    BY PageAssumption
  <2>7. m \in page
    BY <1>2, <2>5, <2>6
  <2> QED
    BY <1>13, <2>7
<1> QED
  BY <1>8, <1>11, <1>12, <1>13

\* A walk begins with everything ahead of it (matching_rebuild.go).
LEMMA StartStep ==
    ASSUME MatchInv, StampInv', StampStep, NEW w \in RebuildWorkers, StartRebuild(w)
    PROVE  WalkOK(w)'
<1>1. PICK key :
        walk' = [walk EXCEPT ![w] =
                   [stage |-> "page", key |-> key, cursor |-> 0, todo |-> {},
                    began |-> [inventory |-> inventory, vulns |-> vulns]]]
  BY DEF StartRebuild, Walk
<1>2. UNCHANGED <<inventory, committer, instants, vulns, matches>>
  BY DEF StartRebuild, stock
<1>3. walk'[w] = [stage |-> "page", key |-> key, cursor |-> 0, todo |-> {},
                  began |-> [inventory |-> inventory, vulns |-> vulns]]
  BY <1>1 DEF MatchInv
<1>4. vulns \in SUBSET Vulnerabilities
  BY DEF MatchInv
<1>5. WalkShape(w)'
  BY <1>3, <1>4, ShapeOf
<1>6. NoReturn(w)'
  <2>1. \A c \in DOMAIN inventory : inventory[c].stamp \in 0..instants
    BY DEF MatchInv, StampInv
  <2>2. \A a \in Committers : Busy(a)' => Busy(a) /\ committer'[a].now = committer[a].now
    BY <1>2 DEF Busy
  <2>3. \A a \in Committers, c \in DOMAIN inventory : Busy(a) => inventory[c].stamp # committer[a].now
    BY DEF MatchInv, StampInv, OwnInstant
  <2>4. walk'[w].began.inventory = inventory
    BY <1>3
  <2> QED
    BY <1>2, <2>1, <2>2, <2>3, <2>4 DEF NoReturn
<1>7. Ahead(w)'
  <2>1. \A c \in DOMAIN inventory : c > 0
    <3>1. \A c \in Components : c > 0
      BY ONLY ComponentsAssumption
    <3>2. DOMAIN inventory \subseteq Components
      BY DEF MatchInv, StampInv
    <3> QED
      BY ONLY <3>1, <3>2
  <2>2. walk'[w].began.inventory = inventory /\ walk'[w].cursor = 0
    BY <1>3
  <2> QED
    BY <1>2, <2>1, <2>2 DEF Ahead
<1>8. /\ walk'[w].began.vulns \subseteq vulns' /\ walk'[w].todo = {} /\ walk'[w].stage = "page"
  BY <1>2, <1>3
<1> QED
  BY <1>5, <1>6, <1>7, <1>8 DEF WalkOK

\* What a walk keeps while it goes on: the inventory and the rows it began with.
LEMMA WalkGoesOn ==
    ASSUME MatchInv, NEW w \in RebuildWorkers, walk[w].stage \in {"page", "store", "done"},
           UNCHANGED <<inventory, committer, instants, vulns>>
    PROVE  /\ WalkShape(w)
           /\ walk[w].began.vulns \subseteq vulns'
           /\ NoReturn(w) /\ Ahead(w)
           /\ walk[w].stage # "store" => walk[w].todo = {}
           /\ walk'[w].began = walk[w].began => NoReturn(w)'
<1>1. walk[w] # AtRest
  BY DEF AtRest
<1>2. WalkOK(w)
  BY DEF MatchInv
<1>3. WalkShape(w) /\ NoReturn(w) /\ Ahead(w) /\ walk[w].began.vulns \subseteq vulns
      /\ (walk[w].stage # "store" => walk[w].todo = {})
  BY <1>1, <1>2 DEF WalkOK
<1>4. walk'[w].began = walk[w].began => NoReturn(w)'
  BY <1>3 DEF NoReturn, Busy
<1> QED
  BY <1>3, <1>4

\* A page: its candidates are in hand, what lies behind it stays ahead.
LEMMA PageStep ==
    ASSUME MatchInv, NEW w \in RebuildWorkers, RebuildPage(w)
    PROVE  WalkOK(w)'
<1>1. walk[w].stage = "page" /\ UNCHANGED <<inventory, committer, instants, vulns, matches>>
  BY DEF RebuildPage, stock
<1>2. PICK st, key, cursor, todo, inv, vs :
        /\ st \in {"page", "store", "done"} /\ cursor \in Nat /\ vs \in SUBSET Vulnerabilities
        /\ walk[w] = [stage |-> st, key |-> key, cursor |-> cursor, todo |-> todo,
                      began |-> [inventory |-> inv, vulns |-> vs]]
  BY <1>1, WalkGoesOn DEF WalkShape
<1>3. walk[w].cursor = cursor /\ walk[w].began = [inventory |-> inv, vulns |-> vs]
  BY <1>2
<1> DEFINE page == PageAfter(cursor)
           candidates == {[pair |-> p, content |-> inventory[p[1]].content] :
                            p \in {q \in page \X vulns : Candidate(inventory[q[1]].content, q[2])}}
           stage == IF page = {} THEN "done" ELSE IF candidates = {} THEN "page" ELSE "store"
           next == Max(page \union {cursor})
           state == [stage |-> stage, key |-> key, cursor |-> next, todo |-> candidates,
                     began |-> [inventory |-> inv, vulns |-> vs]]
<1>4. walk' = [walk EXCEPT ![w] = [walk[w] EXCEPT !.stage = stage,
                                                  !.cursor = Max(page \union {@}),
                                                  !.todo = candidates]]
  BY <1>3 DEF RebuildPage, Walk
<1>5. walk'[w] = [walk[w] EXCEPT !.stage = stage, !.cursor = Max(page \union {@}), !.todo = candidates]
  BY <1>4 DEF MatchInv
<1>6. /\ page \subseteq DOMAIN inventory /\ next \in Nat
      /\ \A c \in DOMAIN inventory : c <= cursor \/ c \in page \/ c > next
      /\ page = {} => \A c \in DOMAIN inventory : c <= cursor
  BY <1>2, PageCovers DEF MatchInv
<1>7. \A c \in page, v \in vulns :
        Candidate(inventory[c].content, v) => \E t \in candidates : t.pair = <<c, v>>
  <2> SUFFICES ASSUME NEW c \in page, NEW v \in vulns, Candidate(inventory[c].content, v)
               PROVE  \E t \in candidates : t.pair = <<c, v>>
    OBVIOUS
  <2>1. <<c, v>> \in {q \in page \X vulns : Candidate(inventory[q[1]].content, q[2])}
    OBVIOUS
  <2>2. [pair |-> <<c, v>>, content |-> inventory[c].content] \in candidates
    BY <2>1
  <2> QED
    BY <2>2
<1>8. candidates = {} <=> candidates \subseteq {}
  OBVIOUS
<1>9. page = {} => candidates = {}
  OBVIOUS
<1>10. /\ stage \in {"page", "store", "done"}
       /\ stage # "store" => candidates = {}
       /\ stage = "done" => page = {}
  BY <1>9
<1> HIDE DEF page, candidates, stage
<1>11. walk'[w] = state
  <2> DEFINE u == [walk[w] EXCEPT !.stage = stage, !.cursor = Max(page \union {@}), !.todo = candidates]
  <2>1. u = [x \in DOMAIN u |-> u[x]] /\ state = [x \in DOMAIN state |-> state[x]]
    BY ONLY <1>2
  <2>2. DOMAIN u = DOMAIN state /\ DOMAIN state = {"stage", "key", "cursor", "todo", "began"}
    BY ONLY <1>2
  <2>3. u["stage"] = state["stage"] /\ u["key"] = state["key"] /\ u["began"] = state["began"]
    BY ONLY <1>2
  <2>4. u["todo"] = state["todo"] /\ u["cursor"] = state["cursor"]
    BY ONLY <1>2
  <2>5. walk'[w] = u
    BY <1>5
  <2> HIDE DEF u, state
  <2>6. u = state
    BY ONLY <2>1, <2>2, <2>3, <2>4
  <2> QED
    BY <2>5, <2>6
<1> HIDE DEF next
<1>12. WalkShape(w)'
  BY <1>2, <1>6, <1>10, <1>11, ShapeOf
<1>13. /\ walk'[w].began = walk[w].began /\ walk'[w].began.inventory = inv /\ walk'[w].began.vulns = vs
       /\ walk'[w].cursor = next /\ walk'[w].todo = candidates /\ walk'[w].stage = stage
  BY <1>3, <1>11
<1>14. NoReturn(w)' /\ vs \subseteq vulns /\ DOMAIN inv \subseteq DOMAIN inventory
  BY <1>1, <1>3, <1>13, WalkGoesOn DEF NoReturn
<1>15. Ahead(w)'
  <2> SUFFICES ASSUME NEW c \in DOMAIN inv, NEW v \in vs,
                      inventory[c] = inv[c], Candidate(inventory[c].content, v)
               PROVE  \/ c > next
                      \/ <<c, v>> \in DOMAIN matches
                      \/ \E t \in candidates : t.pair = <<c, v>>
    BY <1>1, <1>13 DEF Ahead, Candidate
  <2>1. \/ c > cursor \/ <<c, v>> \in DOMAIN matches
        \/ \E t \in walk[w].todo : t.pair = <<c, v>>
    BY <1>1, <1>3, WalkGoesOn DEF Ahead
  <2>2. walk[w].todo = {}
    BY <1>1, WalkGoesOn
  <2>3. CASE c > cursor
    <3>1. c \in DOMAIN inventory /\ c \in Nat /\ cursor \in Nat
      BY <1>2, <1>14, ComponentsAssumption DEF MatchInv, StampInv
    <3>2. c \in page \/ c > next
      BY <1>6, <2>3, <3>1
    <3> QED
      BY <1>7, <1>14, <3>2
  <2> QED
    BY <2>1, <2>2, <2>3
<1>16. stage = "done" => \A c \in DOMAIN inv : c <= next
  <2> SUFFICES ASSUME stage = "done", NEW c \in DOMAIN inv PROVE c <= next
    OBVIOUS
  <2>1. page = {} /\ c \in DOMAIN inventory /\ c <= cursor
    BY <1>6, <1>10, <1>14
  <2>2. next = cursor
    <3>1. next = Max({cursor})
      BY <2>1 DEF next
    <3> QED
      BY <3>1 DEF Max
  <2> QED
    BY <2>1, <2>2
<1> QED
  BY <1>1, <1>10, <1>12, <1>13, <1>14, <1>15, <1>16 DEF WalkOK

\* A batch: a pair that leaves the hand is matched.
LEMMA InsertStep ==
    ASSUME MatchInv, NEW w \in RebuildWorkers, InsertMatches(w)
    PROVE  WalkOK(w)' /\ DOMAIN matches \subseteq DOMAIN matches'
<1>1. walk[w].stage = "store" /\ UNCHANGED <<inventory, committer, instants, vulns>>
  BY DEF InsertMatches, stock
<1>2. PICK st, key, cursor, todo, inv, vs :
        /\ st \in {"page", "store", "done"} /\ cursor \in Nat /\ vs \in SUBSET Vulnerabilities
        /\ walk[w] = [stage |-> st, key |-> key, cursor |-> cursor, todo |-> todo,
                      began |-> [inventory |-> inv, vulns |-> vs]]
  BY <1>1, WalkGoesOn DEF WalkShape
<1>3. walk[w].cursor = cursor /\ walk[w].began = [inventory |-> inv, vulns |-> vs] /\ walk[w].todo = todo
  BY <1>2
<1>4. PICK batch \in todo :
        /\ matches' = [p \in DOMAIN matches \union {batch.pair} |->
                         IF p \in DOMAIN matches THEN matches[p]
                         ELSE Outcome[batch.content][batch.pair[2]]]
        /\ walk' = [walk EXCEPT ![w] = [walk[w] EXCEPT !.todo = @ \ {batch},
                                    !.stage = IF walk[w].todo = {batch} THEN "page" ELSE "store"]]
  BY <1>3 DEF InsertMatches, Walk
<1>5. DOMAIN matches' = DOMAIN matches \union {batch.pair}
  BY <1>4
<1> DEFINE stage == IF todo = {batch} THEN "page" ELSE "store"
           state == [stage |-> stage, key |-> key, cursor |-> cursor, todo |-> todo \ {batch},
                     began |-> [inventory |-> inv, vulns |-> vs]]
<1>6. walk'[w] = [walk[w] EXCEPT !.todo = @ \ {batch}, !.stage = stage]
  BY <1>3, <1>4 DEF MatchInv
<1>7. stage \in {"page", "store", "done"} /\ stage # "done" /\ (stage # "store" => todo \ {batch} = {})
  OBVIOUS
<1> HIDE DEF stage
<1>8. walk'[w] = state
  <2> DEFINE u == [walk[w] EXCEPT !.todo = @ \ {batch}, !.stage = stage]
  <2>1. u = [x \in DOMAIN u |-> u[x]] /\ state = [x \in DOMAIN state |-> state[x]]
    BY ONLY <1>2
  <2>2. DOMAIN u = DOMAIN state /\ DOMAIN state = {"stage", "key", "cursor", "todo", "began"}
    BY ONLY <1>2
  <2>3. u["stage"] = state["stage"] /\ u["key"] = state["key"] /\ u["began"] = state["began"]
    BY ONLY <1>2
  <2>4. u["todo"] = state["todo"] /\ u["cursor"] = state["cursor"]
    BY ONLY <1>2
  <2>5. walk'[w] = u
    BY <1>6
  <2> HIDE DEF u, state
  <2>6. u = state
    BY ONLY <2>1, <2>2, <2>3, <2>4
  <2> QED
    BY <2>5, <2>6
<1>9. WalkShape(w)'
  BY <1>2, <1>7, <1>8, ShapeOf
<1>10. /\ walk'[w].began = walk[w].began /\ walk'[w].began.inventory = inv /\ walk'[w].began.vulns = vs
       /\ walk'[w].cursor = cursor /\ walk'[w].todo = todo \ {batch} /\ walk'[w].stage = stage
  BY <1>3, <1>8
<1>11. NoReturn(w)' /\ vs \subseteq vulns
  BY <1>1, <1>3, <1>10, WalkGoesOn
<1>12. Ahead(w)'
  <2> SUFFICES ASSUME NEW c \in DOMAIN inv, NEW v \in vs,
                      inventory[c] = inv[c], Candidate(inventory[c].content, v)
               PROVE  \/ c > cursor
                      \/ <<c, v>> \in DOMAIN matches'
                      \/ \E t \in todo \ {batch} : t.pair = <<c, v>>
    BY <1>1, <1>10 DEF Ahead, Candidate
  <2>1. \/ c > cursor \/ <<c, v>> \in DOMAIN matches
        \/ \E t \in todo : t.pair = <<c, v>>
    <3>1. Ahead(w) /\ walk[w].began.inventory = inv /\ walk[w].began.vulns = vs
      BY <1>1, <1>3, WalkGoesOn
    <3> QED
      BY <1>3, <3>1 DEF Ahead
  <2> QED
    BY <1>5, <2>1
<1> QED
  BY <1>1, <1>5, <1>7, <1>9, <1>10, <1>11, <1>12 DEF WalkOK

\* The invariant the theorem about the rebuild rests on.
LEMMA MatchInvariant == MatchSpec => []MatchInv
<1>1. MatchInit => MatchInv
  <2> SUFFICES ASSUME MatchInit PROVE MatchInv
    OBVIOUS
  <2>1. /\ inventory = [c \in DOMAIN FirstInventory |-> [content |-> FirstInventory[c], stamp |-> 0]]
        /\ committer = [a \in Committers |-> AtRest] /\ vulns = {} /\ instants = 0
        /\ walk = [w \in RebuildWorkers |-> AtRest]
    BY DEF MatchInit
  <2>2. \A a \in Committers : committer[a] = AtRest /\ ~Busy(a)
    BY <2>1 DEF Busy, AtRest
  <2>3. StampInv
    BY <2>1, <2>2, FirstInventoryAssumption DEF StampInv, CommitterOK, OwnInstant
  <2> QED
    BY <2>1, <2>3 DEF MatchInv, WalkOK
<1>2. MatchInv /\ [MatchNext]_matchVars => MatchInv'
  <2> SUFFICES ASSUME MatchInv, [MatchNext]_matchVars PROVE MatchInv'
    OBVIOUS
  <2>1. StampInv' /\ StampStep /\ StampInv
    BY StampsStep DEF MatchInv
  <2>2. /\ vulns' \subseteq Vulnerabilities /\ vulns \subseteq vulns'
        /\ DOMAIN walk' = RebuildWorkers
    <3>1. CASE UNCHANGED <<vulns, walk>>
      BY <3>1 DEF MatchInv
    <3>2. ASSUME NEW v \in Vulnerabilities, Learn(v) PROVE vulns' = vulns \union {v} /\ UNCHANGED walk
      BY <3>2 DEF Learn
    <3>3. ASSUME NEW w \in RebuildWorkers, StartRebuild(w) \/ Rebuild(w) \/ RebuildFails(w)
          PROVE  UNCHANGED vulns /\ DOMAIN walk' = DOMAIN walk
      BY <3>3 DEF StartRebuild, Rebuild, RebuildPage, InsertMatches, AckRebuild, RebuildFails, Walk
    <3>4. ASSUME NEW a \in Committers,
                 Commit(a) \/ CommitterFails(a) \/ \E i \in Imports : ReadImport(a, i)
          PROVE  UNCHANGED <<vulns, walk>>
      BY <3>4 DEF Commit, DiffAsset, WriteInventory, CommitInventory, MarkCommitted,
                  CommitterFails, ReadImport
    <3>5. CASE FinishFullImport
      BY <3>1, <3>5 DEF FinishFullImport
    <3>6. CASE UNCHANGED matchVars
      BY <3>1, <3>6 DEF matchVars
    <3> QED
      BY <3>1, <3>2, <3>3, <3>4, <3>5, <3>6 DEF MatchNext, MatchInv
  <2>3. ASSUME UNCHANGED <<walk, matches>> PROVE \A w \in RebuildWorkers : WalkOK(w)'
    BY <2>1, <2>2, <2>3, WalkKept DEF MatchInv
  <2>4. ASSUME NEW w \in RebuildWorkers, StartRebuild(w) \/ Rebuild(w) \/ RebuildFails(w)
        PROVE  \A u \in RebuildWorkers : WalkOK(u)'
    <3>1. WalkOK(w)' /\ DOMAIN matches \subseteq DOMAIN matches'
      <4>1. CASE StartRebuild(w)
        BY <2>1, <4>1, StartStep DEF StartRebuild
      <4>2. CASE RebuildPage(w)
        BY <4>2, PageStep DEF RebuildPage
      <4>3. CASE InsertMatches(w)
        BY <4>3, InsertStep
      <4>4. CASE AckRebuild(w) \/ RebuildFails(w)
        <5>1. walk' = [walk EXCEPT ![w] = AtRest] /\ UNCHANGED matches
          BY <4>4 DEF AckRebuild, RebuildFails, Walk
        <5>2. walk'[w] = AtRest
          BY <5>1 DEF MatchInv
        <5> QED
          BY <5>1, <5>2 DEF WalkOK
      <4> QED
        BY <2>4, <4>1, <4>2, <4>3, <4>4 DEF Rebuild
    <3>2. \A u \in RebuildWorkers \ {w} : walk'[u] = walk[u]
      BY <2>4 DEF StartRebuild, Rebuild, RebuildPage, InsertMatches, AckRebuild, RebuildFails, Walk,
                  MatchInv
    <3>3. \A u \in RebuildWorkers \ {w} : WalkOK(u)'
      BY <2>1, <2>2, <3>1, <3>2, WalkKept DEF MatchInv
    <3> QED
      BY <3>1, <3>3
  <2>5. CASE \E v \in Vulnerabilities : Learn(v)
    BY <2>1, <2>2, <2>3, <2>5 DEF Learn, MatchInv
  <2>6. ASSUME NEW a \in Committers,
               Commit(a) \/ CommitterFails(a) \/ \E i \in Imports : ReadImport(a, i)
        PROVE  UNCHANGED <<walk, matches>>
    BY <2>6 DEF Commit, DiffAsset, WriteInventory, CommitInventory, MarkCommitted,
                CommitterFails, ReadImport
  <2>7. CASE FinishFullImport \/ UNCHANGED matchVars
    BY <2>1, <2>2, <2>3, <2>7 DEF FinishFullImport, matchVars, MatchInv
  <2> QED
    BY <2>1, <2>2, <2>3, <2>4, <2>5, <2>6, <2>7 DEF MatchNext, MatchInv
<1> QED
  BY <1>1, <1>2, PTL DEF MatchSpec

\* An acknowledged rebuild has matched every candidate that was there when it
\* began and is as it was, for any page size, any number of imports that write
\* while it walks, any number of walks at once and attempts that break off
\* (matching_rebuild.go).
THEOREM RebuildsAreComplete == MatchSpec => RebuildIsComplete
<1> DEFINE Complete ==
      \A w \in RebuildWorkers : walk[w].stage = "done" /\ rebuildQueue' # rebuildQueue =>
         \A c \in DOMAIN walk[w].began.inventory, v \in walk[w].began.vulns :
            /\ inventory[c] = walk[w].began.inventory[c]
            /\ Candidate(inventory[c].content, v)
            => <<c, v>> \in DOMAIN matches
<1>1. MatchInv => Complete
  <2> SUFFICES ASSUME MatchInv, NEW w \in RebuildWorkers, walk[w].stage = "done",
                      NEW c \in DOMAIN walk[w].began.inventory, NEW v \in walk[w].began.vulns,
                      inventory[c] = walk[w].began.inventory[c],
                      Candidate(inventory[c].content, v)
               PROVE  <<c, v>> \in DOMAIN matches
    OBVIOUS
  <2>1. WalkOK(w) /\ walk[w] # AtRest
    BY DEF MatchInv, AtRest
  <2>2. Ahead(w) /\ walk[w].todo = {} /\ c <= walk[w].cursor /\ NoReturn(w) /\ WalkShape(w)
    BY <2>1 DEF WalkOK
  <2>3. walk[w].cursor \in Nat
    <3>1. PICK st, key, cursor, todo, inv, vs :
            /\ st \in {"page", "store", "done"} /\ cursor \in Nat /\ vs \in SUBSET Vulnerabilities
            /\ walk[w] = [stage |-> st, key |-> key, cursor |-> cursor, todo |-> todo,
                          began |-> [inventory |-> inv, vulns |-> vs]]
      BY <2>2 DEF WalkShape
    <3> QED
      BY <3>1
  <2>4. c \in Nat
    BY <2>2, ComponentsAssumption DEF NoReturn, MatchInv, StampInv
  <2>5. ~(c > walk[w].cursor)
    BY <2>2, <2>3, <2>4
  <2> QED
    BY <2>2, <2>5 DEF Ahead
<1> QED
  BY <1>1, MatchInvariant, PTL DEF RebuildIsComplete

-------------------------------------------------------------------------------
(* RecomputeFanIn *)

\* Keys are those of signals there are; a signal never goes away.
KeyOK(k) == k[1] \in Signals /\ life[k[1]] # "absent"

RowOK(s) == /\ \E f, v, p : row[s] = [factors |-> f, version |-> v, priority |-> p]
            /\ row[s].version \in 0..ruleVersion

JobShape(w) ==
    \E st, k, l, sn, f, v, p :
       job[w] = [stage |-> st, key |-> k, life |-> l, seen |-> sn,
                 result |-> [factors |-> f, version |-> v, priority |-> p]]

\* What a handler holds is of the rules it has read, no older than the row's:
\* nobody else writes the row meanwhile.
JobOK(w) ==
    job[w] = NotWorking \/
      /\ JobShape(w) /\ KeyOK(job[w].key)
      /\ job[w].stage \in {"version", "rules", "write"}
      /\ job[w].stage # "version" =>
           job[w].result.version \in row[job[w].key[1]].version..ruleVersion

FanInInv ==
    /\ ruleVersion \in Nat
    /\ DOMAIN life = Signals /\ DOMAIN row = Signals
    /\ DOMAIN fanIn = FanIns /\ DOMAIN job = RecomputeWorkers
    /\ \A s \in Signals : RowOK(s)
    /\ \A k \in queue : KeyOK(k)
    /\ publishing # NotPublishing => \A k \in publishing : KeyOK(k)
    /\ \A p \in FanIns : fanIn[p] # NotWorking => \A k \in fanIn[p].keys : KeyOK(k)
    /\ \A w \in RecomputeWorkers : JobOK(w)

\* Keys of signals that are there.
LEMMA JobKeysOK ==
    ASSUME NEW targets \in SUBSET {s \in Signals : life[s] # "absent"}, NEW v
    PROVE  \A k \in JobKeys(targets, v) : KeyOK(k)
BY DEF JobKeys, DedupeKey, KeyOK

\* Steps that leave rules, signals and rows alone.
LEMMA FanKept ==
    ASSUME FanInInv, UNCHANGED <<ruleVersion, life, row>>,
           DOMAIN fanIn' = FanIns, DOMAIN job' = RecomputeWorkers,
           \A k \in queue' : KeyOK(k),
           publishing' # NotPublishing => \A k \in publishing' : KeyOK(k),
           \A p \in FanIns : fanIn'[p] # NotWorking => \A k \in fanIn'[p].keys : KeyOK(k),
           \A w \in RecomputeWorkers : job'[w] = job[w] \/ JobOK(w)'
    PROVE  FanInInv'
<1>1. \A k : KeyOK(k)' <=> KeyOK(k)
  BY DEF KeyOK
<1>2. \A s \in Signals : RowOK(s)'
  BY DEF FanInInv, RowOK
<1>3. ASSUME NEW w \in RecomputeWorkers, job'[w] = job[w] PROVE JobOK(w)'
  <2>1. JobOK(w)
    BY DEF FanInInv
  <2>2. CASE job[w] = NotWorking
    BY <1>3, <2>2 DEF JobOK
  <2>3. CASE job[w] # NotWorking
    <3>1. /\ JobShape(w) /\ KeyOK(job[w].key)
          /\ job[w].stage \in {"version", "rules", "write"}
          /\ job[w].stage # "version" =>
               job[w].result.version \in row[job[w].key[1]].version..ruleVersion
      BY <2>1, <2>3 DEF JobOK
    <3>2. JobShape(w)'
      <4>1. job'[w] = job[w] /\ JobShape(w)
        BY <1>3, <3>1
      <4> QED
        BY ONLY <4>1 DEF JobShape
    <3> QED
      BY <1>3, <3>1, <3>2 DEF JobOK, KeyOK
  <2> QED
    BY <2>2, <2>3
<1>4. \A w \in RecomputeWorkers : JobOK(w)'
  BY <1>3
<1>5. /\ \A k \in queue' : KeyOK(k)'
      /\ publishing' # NotPublishing => \A k \in publishing' : KeyOK(k)'
      /\ \A p \in FanIns : fanIn'[p] # NotWorking => \A k \in fanIn'[p].keys : KeyOK(k)'
  BY <1>1
<1> QED
  BY <1>2, <1>4, <1>5 DEF FanInInv

\* What no step takes back: signals, rules and, but for the worker that has a
\* result in hand, the version of a row.
FanStep ==
    \A s \in Signals : life[s] # "absent" => row'[s].version >= row[s].version

\* Steps in which signals come and go, rules are published or facts change.
LEMMA LifeStep ==
    ASSUME FanInInv, UNCHANGED <<ruleVersion, publishing, queue, fanIn, job>>,
           NEW s \in Signals, DOMAIN life' = Signals, DOMAIN row' = Signals,
           \A t \in Signals \ {s} : life'[t] = life[t] /\ row'[t] = row[t],
           life'[s] # "absent", RowOK(s)', life[s] # "absent" => row'[s] = row[s]
    PROVE  FanInInv' /\ FanStep
<1>1. \A k : KeyOK(k) => KeyOK(k)'
  BY DEF KeyOK
<1>2. \A t \in Signals : RowOK(t)'
  BY DEF FanInInv, RowOK
<1>3. ASSUME NEW w \in RecomputeWorkers PROVE JobOK(w)'
  <2>1. JobOK(w)
    BY DEF FanInInv
  <2>2. CASE job[w] = NotWorking
    BY <2>2 DEF JobOK
  <2>3. CASE job[w] # NotWorking
    <3>1. /\ JobShape(w) /\ KeyOK(job[w].key)
          /\ job[w].stage \in {"version", "rules", "write"}
          /\ job[w].stage # "version" =>
               job[w].result.version \in row[job[w].key[1]].version..ruleVersion
      BY <2>1, <2>3 DEF JobOK
    <3>2. row'[job[w].key[1]] = row[job[w].key[1]] /\ life'[job[w].key[1]] # "absent"
          /\ job[w].key[1] \in Signals
      BY <3>1 DEF KeyOK
    <3>3. JobShape(w)'
      <4>1. job' = job /\ JobShape(w)
        BY <3>1
      <4> QED
        BY ONLY <4>1 DEF JobShape
    <3>4. KeyOK(job[w].key)'
      BY <3>2 DEF KeyOK
    <3> QED
      BY <3>1, <3>2, <3>3, <3>4 DEF JobOK, KeyOK
  <2> QED
    BY <2>2, <2>3
<1>4. /\ \A k \in queue' : KeyOK(k)'
      /\ publishing' # NotPublishing => \A k \in publishing' : KeyOK(k)'
      /\ \A p \in FanIns : fanIn'[p] # NotWorking => \A k \in fanIn'[p].keys : KeyOK(k)'
  BY <1>1 DEF FanInInv
<1>5. FanInInv'
  BY <1>2, <1>3, <1>4 DEF FanInInv
<1>6. FanStep
  <2>1. \A t \in Signals : row[t].version \in Int
    BY DEF FanInInv, RowOK
  <2>2. \A t \in Signals : life[t] # "absent" => row'[t] = row[t]
    OBVIOUS
  <2> QED
    BY <2>1, <2>2 DEF FanStep
<1> QED
  BY <1>5, <1>6

\* Nothing that leaves rows alone takes them back.
LEMMA RowsKept == ASSUME FanInInv, UNCHANGED row PROVE FanStep
<1>1. \A s \in Signals : row[s].version \in Int
  BY DEF FanInInv, RowOK
<1> QED
  BY <1>1 DEF FanStep

\* A publish only adds to the rules.
LEMMA PublishStep ==
    ASSUME FanInInv, PublishPriorityRules PROVE FanInInv' /\ FanStep
<1>1. /\ ruleVersion' = ruleVersion + 1 /\ publishing # NotPublishing /\ publishing' = NotPublishing
      /\ queue' \subseteq queue \union publishing /\ UNCHANGED <<life, row, fanIn, job>>
  BY DEF PublishPriorityRules, EnqueueRecompute
<1>2. ruleVersion \in Nat /\ \A n : 0..ruleVersion \subseteq 0..ruleVersion'
  BY <1>1 DEF FanInInv
<1>3. \A k : KeyOK(k) => KeyOK(k)'
  BY <1>1 DEF KeyOK
<1>4. \A s \in Signals : RowOK(s)'
  BY <1>1, <1>2 DEF FanInInv, RowOK
<1>5. ASSUME NEW w \in RecomputeWorkers PROVE JobOK(w)'
  <2>1. JobOK(w)
    BY DEF FanInInv
  <2>2. CASE job[w] = NotWorking
    BY <1>1, <2>2 DEF JobOK
  <2>3. CASE job[w] # NotWorking
    <3>1. /\ JobShape(w) /\ KeyOK(job[w].key)
          /\ job[w].stage \in {"version", "rules", "write"}
          /\ job[w].stage # "version" =>
               job[w].result.version \in row[job[w].key[1]].version..ruleVersion
      BY <2>1, <2>3 DEF JobOK
    <3>2. JobShape(w)'
      <4>1. job' = job /\ JobShape(w)
        BY <1>1, <3>1
      <4> QED
        BY ONLY <4>1 DEF JobShape
    <3>3. row[job[w].key[1]].version \in Nat
      BY <3>1 DEF KeyOK, FanInInv, RowOK
    <3>4. job[w].stage # "version" =>
            job[w].result.version \in row[job[w].key[1]].version..(ruleVersion + 1)
      BY <1>2, <3>1, <3>3
    <3> QED
      BY <1>1, <3>1, <3>2, <3>4 DEF JobOK, KeyOK
  <2> QED
    BY <2>2, <2>3
<1>6. /\ \A k \in queue' : KeyOK(k)'
      /\ \A p \in FanIns : fanIn'[p] # NotWorking => \A k \in fanIn'[p].keys : KeyOK(k)'
  BY <1>1, <1>3 DEF FanInInv
<1>7. FanInInv'
  BY <1>1, <1>2, <1>4, <1>5, <1>6 DEF FanInInv
<1> QED
  BY <1>1, <1>7, RowsKept

\* A job of the shape of one.
LEMMA ShapeOfJob ==
    ASSUME NEW w, NEW st, NEW k, NEW l, NEW sn, NEW f, NEW v, NEW p,
           job'[w] = [stage |-> st, key |-> k, life |-> l, seen |-> sn,
                      result |-> [factors |-> f, version |-> v, priority |-> p]]
    PROVE  JobShape(w)'
<1> SUFFICES \E t, kk, ll, ss, ff, vv, pp :
       job'[w] = [stage |-> t, key |-> kk, life |-> ll, seen |-> ss,
                  result |-> [factors |-> ff, version |-> vv, priority |-> pp]]
  BY DEF JobShape
<1> WITNESS st, k, l, sn, f, v, p
<1> QED
  OBVIOUS

\* What a handler in a given stage holds.
LEMMA JobHolds ==
    ASSUME FanInInv, NEW w \in RecomputeWorkers, job[w].stage \in {"version", "rules", "write"}
    PROVE  /\ JobShape(w) /\ KeyOK(job[w].key)
           /\ job[w].stage # "version" =>
                job[w].result.version \in row[job[w].key[1]].version..ruleVersion
<1>1. job[w] # NotWorking
  BY DEF NotWorking
<1>2. JobOK(w)
  BY DEF FanInInv
<1> QED
  BY <1>1, <1>2 DEF JobOK

\* A step of a handler that only reads.
LEMMA HandlerReads ==
    ASSUME FanInInv, NEW w \in RecomputeWorkers, NEW state, JobStep(w, state),
           UNCHANGED <<ruleVersion, life, row, publishing, queue, fanIn>>, JobOK(w)'
    PROVE  FanInInv' /\ FanStep
<1>1. DOMAIN job' = RecomputeWorkers /\ \A u \in RecomputeWorkers \ {w} : job'[u] = job[u]
  BY DEF JobStep, FanInInv
<1>2. \A u \in RecomputeWorkers : job'[u] = job[u] \/ JobOK(u)'
  BY <1>1
<1>3. /\ \A k \in queue' : KeyOK(k)
      /\ publishing' # NotPublishing => \A k \in publishing' : KeyOK(k)
      /\ \A p \in FanIns : fanIn'[p] # NotWorking => \A k \in fanIn'[p].keys : KeyOK(k)
      /\ DOMAIN fanIn' = FanIns
  BY DEF FanInInv
<1>4. FanInInv'
  BY <1>1, <1>2, <1>3, FanKept
<1> QED
  BY <1>4, RowsKept

\* The signal is read.
LEMMA ReadSignalStep ==
    ASSUME FanInInv, NEW w \in RecomputeWorkers, ReadSignal(w) PROVE FanInInv' /\ FanStep
<1>1. PICK k \in queue : JobStep(w, [stage |-> "version", key |-> k, life |-> life[k[1]],
                                     seen |-> row[k[1]], result |-> row[k[1]]])
  BY DEF ReadSignal
<1>2. UNCHANGED <<ruleVersion, life, row, publishing, queue, fanIn>>
  BY DEF ReadSignal, ruleVars
<1>3. job'[w] = [stage |-> "version", key |-> k, life |-> life[k[1]],
                 seen |-> row[k[1]], result |-> row[k[1]]]
  BY <1>1 DEF JobStep, FanInInv
<1>4. KeyOK(k) /\ k[1] \in Signals
  BY DEF FanInInv, KeyOK
<1>5. PICK f, v, p : row[k[1]] = [factors |-> f, version |-> v, priority |-> p]
  BY <1>4 DEF FanInInv, RowOK
<1>6. job'[w] = [stage |-> "version", key |-> k, life |-> life[k[1]], seen |-> row[k[1]],
                 result |-> [factors |-> f, version |-> v, priority |-> p]]
  BY <1>3, <1>5
<1>7. JobShape(w)'
  BY <1>6, ShapeOfJob
<1>8. job'[w].key = k /\ job'[w].stage = "version"
  BY <1>3
<1>9. JobOK(w)'
  BY <1>2, <1>4, <1>7, <1>8 DEF JobOK, KeyOK
<1> QED
  BY <1>1, <1>2, <1>9, HandlerReads

\* The version is read: it is that of the newest rules.
LEMMA ReadVersionStep ==
    ASSUME FanInInv, NEW w \in RecomputeWorkers, ReadVersion(w) PROVE FanInInv' /\ FanStep
<1>1. job[w].stage = "version" /\ UNCHANGED <<ruleVersion, life, row, publishing, queue, fanIn>>
      /\ JobStep(w, [job[w] EXCEPT !.stage = "rules", !.result.version = ruleVersion])
  BY DEF ReadVersion, ruleVars
<1>2. JobShape(w) /\ KeyOK(job[w].key)
  BY <1>1, JobHolds
<1>3. PICK st, k, l, sn, f, v, p :
        job[w] = [stage |-> st, key |-> k, life |-> l, seen |-> sn,
                  result |-> [factors |-> f, version |-> v, priority |-> p]]
  BY <1>2 DEF JobShape
<1> DEFINE result == [factors |-> f, version |-> ruleVersion, priority |-> p]
           state == [stage |-> "rules", key |-> k, life |-> l, seen |-> sn, result |-> result]
           u == [job[w] EXCEPT !.stage = "rules", !.result.version = ruleVersion]
<1>4. u = state
  <2>1. u = [x \in DOMAIN u |-> u[x]] /\ state = [x \in DOMAIN state |-> state[x]]
    BY ONLY <1>3
  <2>2. DOMAIN u = DOMAIN state /\ DOMAIN state = {"stage", "key", "life", "seen", "result"}
    BY ONLY <1>3
  <2>3. u["stage"] = state["stage"] /\ u["key"] = state["key"] /\ u["life"] = state["life"]
        /\ u["seen"] = state["seen"]
    BY ONLY <1>3
  <2>4. u["result"] = result
    <3>1. job[w].result = [factors |-> f, version |-> v, priority |-> p]
      BY ONLY <1>3
    <3>2. u["result"] = [job[w].result EXCEPT !.version = ruleVersion]
      BY ONLY <1>3
    <3> DEFINE r == [job[w].result EXCEPT !.version = ruleVersion]
    <3>3. r = [x \in DOMAIN r |-> r[x]] /\ result = [x \in DOMAIN result |-> result[x]]
      BY ONLY <3>1
    <3>4. DOMAIN r = DOMAIN result /\ DOMAIN result = {"factors", "version", "priority"}
      BY ONLY <3>1
    <3>5. r["factors"] = result["factors"] /\ r["version"] = result["version"]
          /\ r["priority"] = result["priority"]
      BY ONLY <3>1
    <3>6. r = result
      <4> HIDE DEF r, result
      <4> QED
        BY ONLY <3>3, <3>4, <3>5
    <3> QED
      BY ONLY <3>2, <3>6 DEF r
  <2>5. state["result"] = result
    OBVIOUS
  <2> HIDE DEF u, state, result
  <2> QED
    BY ONLY <2>1, <2>2, <2>3, <2>4, <2>5
<1>5. job'[w] = state
  <2>1. job'[w] = u
    BY <1>1 DEF JobStep, FanInInv
  <2> HIDE DEF u, state
  <2> QED
    BY <1>4, <2>1
<1>6. JobShape(w)'
  BY <1>5, ShapeOfJob
<1>7. job'[w].stage = "rules" /\ job'[w].key = k /\ job'[w].result.version = ruleVersion
  BY <1>5
<1>8. row[k[1]].version \in 0..ruleVersion /\ ruleVersion \in Nat /\ KeyOK(k)
  BY <1>2, <1>3 DEF KeyOK, FanInInv, RowOK
<1>9. ruleVersion \in row[k[1]].version..ruleVersion
  BY <1>8
<1>10. JobOK(w)'
  BY <1>1, <1>6, <1>7, <1>8, <1>9 DEF JobOK, KeyOK
<1> HIDE DEF u
<1> QED
  BY <1>1, <1>10, HandlerReads

\* Rules and factors are read; the version stays.
LEMMA RebuildFactorsStep ==
    ASSUME FanInInv, NEW w \in RecomputeWorkers, RebuildFactors(w) PROVE FanInInv' /\ FanStep
<1> DEFINE g == facts[job[w].key[1]]
           pr == Evaluate[ruleVersion][g]
           u == [job[w] EXCEPT !.stage = "write", !.result.factors = g, !.result.priority = pr]
<1>1. job[w].stage = "rules" /\ UNCHANGED <<ruleVersion, life, row, publishing, queue, fanIn>>
      /\ JobStep(w, u)
  BY DEF RebuildFactors, ruleVars
<1>2. /\ JobShape(w) /\ KeyOK(job[w].key)
      /\ job[w].result.version \in row[job[w].key[1]].version..ruleVersion
  BY <1>1, JobHolds
<1>3. PICK st, k, l, sn, f, v, p :
        job[w] = [stage |-> st, key |-> k, life |-> l, seen |-> sn,
                  result |-> [factors |-> f, version |-> v, priority |-> p]]
  BY <1>2 DEF JobShape
<1> HIDE DEF g, pr
<1> DEFINE result == [factors |-> g, version |-> v, priority |-> pr]
           state == [stage |-> "write", key |-> k, life |-> l, seen |-> sn, result |-> result]
<1>4. u = state
  <2>1. u = [x \in DOMAIN u |-> u[x]] /\ state = [x \in DOMAIN state |-> state[x]]
    BY ONLY <1>3
  <2>2. DOMAIN u = DOMAIN state /\ DOMAIN state = {"stage", "key", "life", "seen", "result"}
    BY ONLY <1>3
  <2>3. u["stage"] = state["stage"] /\ u["key"] = state["key"] /\ u["life"] = state["life"]
        /\ u["seen"] = state["seen"]
    BY ONLY <1>3
  <2>4. u["result"] = result
    <3> DEFINE r == [job[w].result EXCEPT !.factors = g, !.priority = pr]
    <3>1. job[w].result = [factors |-> f, version |-> v, priority |-> p]
      BY ONLY <1>3
    <3>2. u["result"] = r
      BY ONLY <1>3
    <3>3. r = [x \in DOMAIN r |-> r[x]] /\ result = [x \in DOMAIN result |-> result[x]]
      BY ONLY <3>1
    <3>4. DOMAIN r = DOMAIN result /\ DOMAIN result = {"factors", "version", "priority"}
      BY ONLY <3>1
    <3>5. r["factors"] = result["factors"] /\ r["version"] = result["version"]
          /\ r["priority"] = result["priority"]
      BY ONLY <3>1
    <3> HIDE DEF r, result, u
    <3>6. r = result
      BY ONLY <3>3, <3>4, <3>5
    <3> QED
      BY ONLY <3>2, <3>6
  <2>5. state["result"] = result
    OBVIOUS
  <2> HIDE DEF u, state, result
  <2> QED
    BY ONLY <2>1, <2>2, <2>3, <2>4, <2>5
<1>5. job'[w] = state
  <2>1. job'[w] = u
    BY <1>1 DEF JobStep, FanInInv
  <2> HIDE DEF u, state
  <2> QED
    BY <1>4, <2>1
<1>6. JobShape(w)'
  BY <1>5, ShapeOfJob
<1>7. job'[w].stage = "write" /\ job'[w].key = k /\ job'[w].result.version = v
  BY <1>5
<1>8. KeyOK(k) /\ v \in row[k[1]].version..ruleVersion
  BY <1>2, <1>3
<1>9. JobOK(w)'
  BY <1>1, <1>6, <1>7, <1>8 DEF JobOK, KeyOK
<1> HIDE DEF u
<1> QED
  BY <1>1, <1>9, HandlerReads

\* The only worker writes what it read: nothing newer was written meanwhile.
LEMMA RecomputeStep ==
    ASSUME FanInInv, NEW w \in RecomputeWorkers, \A u \in RecomputeWorkers : u = w,
           RecomputePriority(w)
    PROVE  FanInInv' /\ FanStep
<1> DEFINE j == job[w]
           s == job[w].key[1]
<1>1. /\ j.stage = "write" /\ UNCHANGED <<ruleVersion, publishing, life, fanIn>>
      /\ UNCHANGED row \/ row' = [row EXCEPT ![s] = j.result]
      /\ queue' \subseteq queue /\ job' = [job EXCEPT ![w] = NotWorking]
  BY DEF RecomputePriority, ruleVars, JobStep
<1>2. /\ JobShape(w) /\ KeyOK(job[w].key) /\ s \in Signals
      /\ j.result.version \in row[s].version..ruleVersion
  BY <1>1, JobHolds DEF KeyOK
<1>3. PICK f, v, p : j.result = [factors |-> f, version |-> v, priority |-> p]
  <2>1. PICK st, k, l, sn, f, v, p :
          job[w] = [stage |-> st, key |-> k, life |-> l, seen |-> sn,
                    result |-> [factors |-> f, version |-> v, priority |-> p]]
    BY <1>2 DEF JobShape
  <2>2. j.result = [factors |-> f, version |-> v, priority |-> p]
    BY <2>1
  <2> QED
    BY <2>2
<1>4. row[s].version \in 0..ruleVersion /\ ruleVersion \in Nat
  BY <1>2 DEF FanInInv, RowOK
<1>5. j.result.version \in 0..ruleVersion /\ j.result.version >= row[s].version
  BY <1>2, <1>4
<1> HIDE DEF j, s
<1>6. /\ DOMAIN row' = Signals
      /\ \A t \in Signals : row'[t] = row[t] \/ (t = s /\ row'[t] = j.result)
  BY <1>1, <1>2 DEF FanInInv
<1>7. ASSUME NEW t \in Signals PROVE RowOK(t)' /\ row'[t].version >= row[t].version
  <2>1. CASE row'[t] = row[t]
    <3>1. RowOK(t)
      BY DEF FanInInv
    <3>2. row[t].version \in Int
      BY <3>1, <1>4 DEF RowOK
    <3>3. \E ff, vv, pp : row'[t] = [factors |-> ff, version |-> vv, priority |-> pp]
      BY ONLY <2>1, <3>1 DEF RowOK
    <3>4. row'[t].version \in 0..ruleVersion'
      BY <1>1, <2>1, <3>1 DEF RowOK
    <3>5. RowOK(t)'
      BY ONLY <3>3, <3>4 DEF RowOK
    <3> QED
      BY ONLY <2>1, <3>2, <3>5
  <2>2. CASE t = s /\ row'[t] = j.result
    <3>1. \E ff, vv, pp : row'[t] = [factors |-> ff, version |-> vv, priority |-> pp]
      BY <1>3, <2>2
    <3> QED
      BY <1>1, <1>5, <2>2, <3>1 DEF RowOK
  <2> QED
    BY <1>6, <2>1, <2>2
<1>8. /\ DOMAIN job' = RecomputeWorkers /\ \A u \in RecomputeWorkers : job'[u] = NotWorking
  BY <1>1 DEF FanInInv
<1>9. \A u \in RecomputeWorkers : JobOK(u)'
  BY <1>8 DEF JobOK
<1>10. /\ \A k \in queue' : KeyOK(k)'
       /\ publishing' # NotPublishing => \A k \in publishing' : KeyOK(k)'
       /\ \A q \in FanIns : fanIn'[q] # NotWorking => \A k \in fanIn'[q].keys : KeyOK(k)'
       /\ DOMAIN fanIn' = FanIns /\ DOMAIN life' = Signals /\ ruleVersion' \in Nat
  BY <1>1 DEF FanInInv, KeyOK
<1> QED
  BY <1>6, <1>7, <1>8, <1>9, <1>10 DEF FanInInv, FanStep

\* A run reads keys of signals that are there.
LEMMA FanInReadsStep ==
    ASSUME FanInInv, NEW p \in FanIns, FanInReads(p) PROVE FanInInv' /\ FanStep
<1>1. PICK targets \in SUBSET {s \in Signals : life[s] # "absent"} :
        fanIn' = [fanIn EXCEPT ![p] = [stage |-> "enqueue", known |-> keys,
                                       keys |-> JobKeys(targets, ruleVersion)]]
  BY DEF FanInReads
<1>2. UNCHANGED <<ruleVersion, publishing, life, row, queue, job>>
  BY DEF FanInReads, ruleVars
<1>3. \A k \in JobKeys(targets, ruleVersion) : KeyOK(k)
  BY JobKeysOK
<1>4. /\ DOMAIN fanIn' = FanIns /\ fanIn'[p].keys = JobKeys(targets, ruleVersion)
      /\ \A q \in FanIns \ {p} : fanIn'[q] = fanIn[q]
  BY <1>1 DEF FanInInv
<1>5. \A q \in FanIns : fanIn'[q] # NotWorking => \A k \in fanIn'[q].keys : KeyOK(k)
  BY <1>3, <1>4 DEF FanInInv
<1>6. FanInInv'
  BY <1>2, <1>4, <1>5, FanKept DEF FanInInv
<1> QED
  BY <1>2, <1>6, RowsKept

\* Other steps of publishers, runs and handlers that leave rows alone.
LEMMA QueueStep ==
    ASSUME FanInInv,
           \/ PublishReads
           \/ \E p \in FanIns : EnqueueForVulnerabilities(p) \/ FanInConflicts(p)
           \/ \E w \in RecomputeWorkers : JobFails(w)
           \/ UNCHANGED recomputeVars
    PROVE  FanInInv' /\ FanStep
<1>1. CASE PublishReads
  <2>1. /\ publishing' = JobKeys({s \in Signals : life[s] = "open"}, ruleVersion + 1)
        /\ UNCHANGED <<ruleVersion, life, row, queue, fanIn, job>>
    BY <1>1 DEF PublishReads, fanVars
  <2>2. {s \in Signals : life[s] = "open"} \in SUBSET {s \in Signals : life[s] # "absent"}
    OBVIOUS
  <2>3. \A k \in publishing' : KeyOK(k)
    BY <2>1, <2>2, JobKeysOK
  <2> QED
    BY <2>1, <2>3, FanKept, RowsKept DEF FanInInv
<1>2. ASSUME NEW p \in FanIns, EnqueueForVulnerabilities(p) \/ FanInConflicts(p)
      PROVE  FanInInv' /\ FanStep
  <2>1. /\ fanIn[p] # NotWorking /\ fanIn' = [fanIn EXCEPT ![p] = NotWorking]
        /\ queue' \subseteq queue \union fanIn[p].keys
        /\ UNCHANGED <<ruleVersion, publishing, life, row, job>>
    BY <1>2 DEF EnqueueForVulnerabilities, FanInConflicts, EnqueueRecompute, ruleVars
  <2>2. /\ DOMAIN fanIn' = FanIns /\ fanIn'[p] = NotWorking
        /\ \A q \in FanIns \ {p} : fanIn'[q] = fanIn[q]
    BY <2>1 DEF FanInInv
  <2>3. \A k \in queue' : KeyOK(k)
    BY <2>1 DEF FanInInv
  <2>4. \A q \in FanIns : fanIn'[q] # NotWorking => \A k \in fanIn'[q].keys : KeyOK(k)
    BY <2>2 DEF FanInInv
  <2>5. FanInInv'
    BY <2>1, <2>2, <2>3, <2>4, FanKept DEF FanInInv
  <2> QED
    BY <2>1, <2>5, RowsKept
<1>3. ASSUME NEW w \in RecomputeWorkers, JobFails(w) PROVE FanInInv' /\ FanStep
  <2>1. JobStep(w, NotWorking) /\ UNCHANGED <<ruleVersion, publishing, life, row, queue, fanIn>>
    BY <1>3 DEF JobFails, ruleVars
  <2>2. job'[w] = NotWorking
    BY <2>1 DEF JobStep, FanInInv
  <2>3. JobOK(w)'
    BY <2>2 DEF JobOK
  <2> QED
    BY <2>1, <2>3, HandlerReads
<1>4. CASE UNCHANGED recomputeVars
  BY <1>4, FanKept, RowsKept DEF recomputeVars, ruleVars, fanVars, FanInInv
<1> QED
  BY <1>1, <1>2, <1>3, <1>4

\* Every step keeps the invariant and takes no row back.
LEMMA FanInStep ==
    ASSUME \A u, w \in RecomputeWorkers : u = w
    PROVE  FanInInv /\ [FanInNext]_recomputeVars => FanInInv' /\ FanStep
<1> SUFFICES ASSUME FanInInv, [FanInNext]_recomputeVars PROVE FanInInv' /\ FanStep
  OBVIOUS
<1>1. ASSUME NEW s \in Signals, FactsChange(s) PROVE FanInInv' /\ FanStep
  <2>1. UNCHANGED <<ruleVersion, publishing, life, row, queue, fanIn, job>>
    BY <1>1 DEF FactsChange, ruleVars
  <2> QED
    BY <2>1, FanKept, RowsKept DEF FanInInv
<1>2. ASSUME NEW s \in Signals, CreateSignal(s) PROVE FanInInv' /\ FanStep
  <2> DEFINE new == [factors |-> facts[s], version |-> 0, priority |-> Evaluate[0][facts[s]]]
  <2>1. /\ life[s] = "absent" /\ life' = [life EXCEPT ![s] = "open"]
        /\ row' = [row EXCEPT ![s] = new]
        /\ UNCHANGED <<ruleVersion, publishing, queue, fanIn, job>>
    BY <1>2 DEF CreateSignal, ruleVars
  <2>2. row'[s] = new /\ life'[s] = "open" /\ ruleVersion \in Nat
        /\ DOMAIN life' = Signals /\ DOMAIN row' = Signals
        /\ \A t \in Signals \ {s} : life'[t] = life[t] /\ row'[t] = row[t]
    BY <2>1 DEF FanInInv
  <2>3. RowOK(s)'
    <3>1. \E f, v, p : row'[s] = [factors |-> f, version |-> v, priority |-> p]
      BY <2>2
    <3>2. row'[s].version = 0
      BY <2>2
    <3>3. row'[s].version \in 0..ruleVersion'
      BY <2>1, <2>2, <3>2
    <3> QED
      BY ONLY <3>1, <3>3 DEF RowOK
  <2> QED
    BY <2>1, <2>2, <2>3, LifeStep
<1>3. ASSUME NEW s \in Signals, Move(s) PROVE FanInInv' /\ FanStep
  <2>1. /\ life' = [life EXCEPT ![s] = IF @ = "open" THEN "closed" ELSE "open"]
        /\ UNCHANGED <<ruleVersion, publishing, row, queue, fanIn, job>>
    BY <1>3 DEF Move, ruleVars
  <2>2. life'[s] # "absent" /\ DOMAIN life' = Signals /\ DOMAIN row' = Signals
        /\ \A t \in Signals \ {s} : life'[t] = life[t] /\ row'[t] = row[t]
    BY <2>1 DEF FanInInv
  <2>3. RowOK(s)'
    BY <2>1 DEF FanInInv, RowOK
  <2> QED
    BY <2>1, <2>2, <2>3, LifeStep
<1>4. ASSUME NEW w \in RecomputeWorkers, Worker(w) PROVE FanInInv' /\ FanStep
  BY <1>4, ReadSignalStep, ReadVersionStep, RebuildFactorsStep, RecomputeStep DEF Worker
<1> QED
  BY <1>1, <1>2, <1>3, <1>4, PublishStep, FanInReadsStep, QueueStep DEF FanInNext

\* With one worker no signal goes back to older rules, for any number of
\* signals, publishes, runs, changes of facts, failed attempts and jobs in any
\* order (priority_recompute.go, RecomputePriority).
THEOREM RulesGoForward ==
    ASSUME \A u, w \in RecomputeWorkers : u = w
    PROVE  FanInSpec => RulesNeverRegress
<1>1. FanInInit => FanInInv
  <2> SUFFICES ASSUME FanInInit PROVE FanInInv
    OBVIOUS
  <2>1. /\ ruleVersion = 0 /\ publishing = NotPublishing /\ queue = {}
        /\ life = [s \in Signals |-> "absent"]
        /\ row = [s \in Signals |-> [factors |-> FirstFactors, version |-> 0,
                                     priority |-> Evaluate[0][FirstFactors]]]
        /\ fanIn = [p \in FanIns |-> NotWorking]
        /\ job = [w \in RecomputeWorkers |-> NotWorking]
    BY DEF FanInInit
  <2>2. \A s \in Signals : RowOK(s)
    <3> SUFFICES ASSUME NEW s \in Signals PROVE RowOK(s)
      OBVIOUS
    <3>1. row[s] = [factors |-> FirstFactors, version |-> 0, priority |-> Evaluate[0][FirstFactors]]
      BY <2>1
    <3>2. row[s].version = 0
      BY <3>1
    <3>3. \E f, v, p : row[s] = [factors |-> f, version |-> v, priority |-> p]
      BY ONLY <3>1
    <3>4. row[s].version \in 0..ruleVersion
      BY <2>1, <3>2
    <3> QED
      BY ONLY <3>3, <3>4 DEF RowOK
  <2> QED
    BY <2>1, <2>2 DEF FanInInv, JobOK
<1>2. FanInInv /\ [FanInNext]_recomputeVars => FanInInv' /\ FanStep
  BY FanInStep
<1> QED
  BY <1>1, <1>2, PTL DEF FanInSpec, RulesNeverRegress, FanStep
===============================================================================
