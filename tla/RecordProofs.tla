----------------------------- MODULE RecordProofs -----------------------------
(***************************************************************************)
(* Proofs about the records RiskSignal keeps: the stamps of exports        *)
(* (Exports), for any number of exports, workers, failures and crashes,    *)
(* the deadlines of SLA clocks (SlaClock), for any durations, delays and   *)
(* numbers of pauses, and the hash chain of the audit trail (AuditChain),  *)
(* for any number of rows, writers and restarts.                           *)
(***************************************************************************)
EXTENDS Exports, SlaClock, AuditChain, FiniteSetTheorems, WellFoundedInduction, TLAPS

-------------------------------------------------------------------------------
(* Exports *)

Rows == [status : {"none", "pending", "failed", "completed", "expired"},
         stamp : Nat, created : Nat, expires : Nat]

Generations == [pc : {"idle", "scan", "write", "mark"}, of : ExportIds \union {NoGen.of},
                at : Nat, content : Nat]

Lists == [list : SUBSET ExportIds, removed : SUBSET ExportIds]

ExportTypes ==
    /\ expNow \in Nat /\ version \in Nat /\ overlaps \in Nat
    /\ row \in [ExportIds -> Rows]
    /\ spool \in [ExportIds -> Nat]
    /\ gen \in [Generators -> Generations]
    /\ sweep \in [Sweepers -> Lists]

Stamped(e) == row[e].status \in {"completed", "expired"}

\* A generation in hand is of an export.
GensOK == \A g \in Generators : gen[g].pc # "idle" => gen[g].of \in ExportIds

\* What a sweep has listed is over.
ListsOK == \A v \in Sweepers : /\ sweep[v].removed \subseteq sweep[v].list
                               /\ \A e \in sweep[v].list : Stamped(e) /\ row[e].expires <= expNow

\* Without overlapping deliveries an export has one generation, no stamp while
\* that one runs, and its artifact when it is about to be stamped.
AloneOK ==
    overlaps = 0 =>
      \A g \in Generators : gen[g].pc # "idle" =>
        /\ ~Stamped(gen[g].of)
        /\ gen[g].pc = "mark" => spool[gen[g].of] = gen[g].content
        /\ \A h \in Generators \ {g} : gen[h].pc # "idle" => gen[h].of # gen[g].of

ExportInv == ExportTypes /\ GensOK /\ ListsOK /\ AloneOK /\ StampMatchesArtifact

\* The fields of a row, a generation and a list.
LEMMA ExportFields ==
    ASSUME ExportTypes
    PROVE  /\ \A e \in ExportIds : /\ row[e].stamp \in Nat /\ row[e].expires \in Nat
                                   /\ row[e].created \in Nat
           /\ \A g \in Generators : gen[g].at \in Nat /\ gen[g].content \in Nat
           /\ \A v \in Sweepers : sweep[v].list \subseteq ExportIds
                                  /\ sweep[v].removed \subseteq ExportIds
<1>1. ASSUME NEW e \in ExportIds
      PROVE  row[e].stamp \in Nat /\ row[e].expires \in Nat /\ row[e].created \in Nat
  <2>1. row[e] \in Rows
    BY DEF ExportTypes
  <2> QED
    BY <2>1 DEF Rows
<1>2. ASSUME NEW g \in Generators PROVE gen[g].at \in Nat /\ gen[g].content \in Nat
  <2>1. gen[g] \in Generations
    BY DEF ExportTypes
  <2> QED
    BY <2>1 DEF Generations
<1>3. ASSUME NEW v \in Sweepers
      PROVE  sweep[v].list \subseteq ExportIds /\ sweep[v].removed \subseteq ExportIds
  <2>1. sweep[v] \in Lists
    BY DEF ExportTypes
  <2> QED
    BY <2>1 DEF Lists
<1> QED
  BY <1>1, <1>2, <1>3

\* An idle worker's state.
LEMMA NoGenIsIdle == NoGen \in Generations /\ NoGen.pc = "idle" /\ NoSweep \in Lists
                     /\ NoSweep.list = {} /\ NoSweep.removed = {}
<1>1. NoGen.pc = "idle" /\ NoGen.at \in Nat /\ NoGen.content \in Nat
  BY DEF NoGen, NoContent
<1>2. NoGen = [pc |-> NoGen.pc, of |-> NoGen.of, at |-> NoGen.at, content |-> NoGen.content]
  BY DEF NoGen
<1>3. NoGen \in Generations
  BY <1>1, <1>2 DEF Generations
<1> QED
  BY <1>1, <1>3 DEF NoSweep, Lists

\* The generation a delivery starts.
LEMMA FreshGen ==
    ASSUME NEW e \in ExportIds, NEW at \in Nat
    PROVE  LET fresh == [NoGen EXCEPT !.pc = "scan", !.of = e, !.at = at]
           IN  fresh \in Generations /\ fresh.of = e /\ fresh.pc = "scan"
BY NoGenIsIdle DEF Generations

\* Every action writes rows, generations and lists of their types.
LEMMA ExportTypesStep == ExportTypes /\ GensOK /\ [ExportNext]_exportVars => ExportTypes' /\ GensOK'
<1> SUFFICES ASSUME ExportTypes, GensOK, [ExportNext]_exportVars
             PROVE  ExportTypes' /\ GensOK'
  OBVIOUS
<1> USE ExportFields, NoGenIsIdle
<1>1. CASE UNCHANGED exportVars
  BY <1>1 DEF ExportTypes, GensOK, exportVars
<1>2. CASE TimePasses \/ SignalsChange
  BY <1>2 DEF TimePasses, SignalsChange, ExportTypes, GensOK
<1>3. ASSUME NEW e \in ExportIds, CreateExport(e) PROVE ExportTypes' /\ GensOK'
  <2> DEFINE r == [row[e] EXCEPT !.status = "pending", !.created = expNow]
  <2>a. r \in Rows
    <3>1. row[e] \in Rows /\ expNow \in Nat
      BY DEF ExportTypes
    <3> QED
      BY ONLY <3>1 DEF Rows
  <2>b. row' = [row EXCEPT ![e] = r]
    BY <1>3 DEF CreateExport
  <2> HIDE DEF r
  <2>1. row' \in [ExportIds -> Rows]
    BY <2>a, <2>b DEF ExportTypes
  <2> QED
    BY <1>3, <2>1 DEF CreateExport, ExportTypes, GensOK
<1>4. ASSUME NEW g \in Generators, NEW e \in ExportIds, StartGenerate(g, e)
      PROVE  ExportTypes' /\ GensOK'
  <2> DEFINE fresh == [NoGen EXCEPT !.pc = "scan", !.of = e, !.at = expNow]
  <2>1. fresh \in Generations /\ fresh.of = e
    BY FreshGen DEF fresh, ExportTypes
  <2> HIDE DEF fresh
  <2>2. UNCHANGED gen \/ gen' = [gen EXCEPT ![g] = fresh]
    BY <1>4 DEF StartGenerate, fresh
  <2>3. overlaps' \in Nat
    BY <1>4 DEF StartGenerate, ExportTypes
  <2>4. UNCHANGED <<expNow, version, row, spool, sweep>>
    BY <1>4 DEF StartGenerate
  <2>5. gen' \in [Generators -> Generations]
    BY <2>1, <2>2 DEF ExportTypes
  <2> QED
    BY <2>1, <2>2, <2>3, <2>4, <2>5 DEF ExportTypes, GensOK
<1>5. ASSUME NEW g \in Generators, Scan(g) \/ WriteArtifact(g) PROVE ExportTypes' /\ GensOK'
  <2>1. gen[g] \in Generations
    BY DEF ExportTypes
  <2>2. gen' \in [Generators -> Generations] /\ gen'[g].of = gen[g].of
        /\ \A h \in Generators \ {g} : gen'[h] = gen[h]
    BY <1>5, <2>1 DEF Scan, WriteArtifact, ExportTypes, Generations
  <2>3. spool' \in [ExportIds -> Nat]
    BY <1>5 DEF Scan, WriteArtifact, Stored, ExportTypes
  <2>4. UNCHANGED <<expNow, version, row, sweep, overlaps>> /\ gen[g].pc # "idle"
    BY <1>5 DEF Scan, WriteArtifact
  <2> QED
    BY <2>2, <2>3, <2>4 DEF ExportTypes, GensOK
<1>6. ASSUME NEW g \in Generators, MarkCompleted(g) \/ GenerateFails(g) \/ GeneratorDies(g)
      PROVE  ExportTypes' /\ GensOK'
  <2>1. gen' = [gen EXCEPT ![g] = NoGen] /\ UNCHANGED <<expNow, version, spool, sweep, overlaps>>
    BY <1>6 DEF MarkCompleted, GenerateFails, GeneratorDies
  <2>2. gen[g].pc # "idle"
    BY <1>6 DEF MarkCompleted, GenerateFails, GeneratorDies
  <2>3. gen[g].of \in ExportIds
    BY <2>2 DEF GensOK
  <2>4. row' \in [ExportIds -> Rows]
    <3>1. CASE MarkCompleted(g)
      BY <3>1, <2>3 DEF MarkCompleted, ExportTypes, Rows, ExportBounds
    <3>2. CASE GenerateFails(g)
      BY <3>2, <2>3 DEF GenerateFails, ExportTypes, Rows
    <3>3. CASE GeneratorDies(g)
      BY <3>3 DEF GeneratorDies, ExportTypes
    <3> QED
      BY <1>6, <3>1, <3>2, <3>3
  <2> QED
    BY <2>1, <2>4 DEF ExportTypes, GensOK
<1>7. ASSUME NEW d \in Readers, OpenArtifact(d) \/ \E e \in ExportIds : ReadExport(d, e)
      PROVE  ExportTypes' /\ GensOK'
  BY <1>7 DEF OpenArtifact, ReadExport, ExportTypes, GensOK
<1>8. ASSUME NEW v \in Sweepers, BeginSweep(v) \/ SweeperDies(v) PROVE ExportTypes' /\ GensOK'
  <2>1. PICK l \in Lists : sweep' = [sweep EXCEPT ![v] = l]
    <3>1. CASE BeginSweep(v)
      BY <3>1 DEF BeginSweep, DueForSweep, Lists
    <3>2. CASE SweeperDies(v)
      BY <3>2 DEF SweeperDies
    <3> QED
      BY <1>8, <3>1, <3>2
  <2> QED
    BY <1>8, <2>1 DEF BeginSweep, SweeperDies, ExportTypes, GensOK
<1>9. ASSUME NEW v \in Sweepers, RemoveArtifact(v) PROVE ExportTypes' /\ GensOK'
  <2>1. PICK e \in sweep[v].list \ sweep[v].removed :
           /\ sweep' = [sweep EXCEPT ![v].removed = @ \union {e}]
           /\ spool' = [spool EXCEPT ![e] = NoContent] \/ UNCHANGED spool
    BY <1>9 DEF RemoveArtifact
  <2>2. sweep' \in [Sweepers -> Lists]
    BY <2>1 DEF ExportTypes, Lists
  <2>3. spool' \in [ExportIds -> Nat]
    BY <2>1 DEF ExportTypes, NoContent
  <2> QED
    BY <1>9, <2>2, <2>3 DEF RemoveArtifact, ExportTypes, GensOK
<1>10. ASSUME NEW v \in Sweepers, MarkExpired(v) PROVE ExportTypes' /\ GensOK'
  <2>1. PICK e \in sweep[v].removed :
           IF Markable(v, e)
           THEN /\ row' = [row EXCEPT ![e].status = "expired"]
                /\ sweep' = [sweep EXCEPT ![v] = [list |-> @.list \ {e}, removed |-> {}]]
           ELSE UNCHANGED row /\ sweep' = [sweep EXCEPT ![v] = NoSweep]
    BY <1>10, Zenon DEF MarkExpired
  <2>2. PICK l \in Lists : sweep' = [sweep EXCEPT ![v] = l]
    <3>1. [list |-> sweep[v].list \ {e}, removed |-> {}] \in Lists
      BY DEF Lists
    <3> QED
      BY <2>1, <3>1 DEF ExportTypes
  <2>3. row' \in [ExportIds -> Rows]
    BY <2>1 DEF ExportTypes, Rows
  <2> QED
    BY <1>10, <2>2, <2>3 DEF MarkExpired, ExportTypes, GensOK
<1> QED
  BY <1>1, <1>2, <1>3, <1>4, <1>5, <1>6, <1>7, <1>8, <1>9, <1>10
     DEF ExportNext, Generate, Sweep

\* A step changes no stamp; what it does to the artifacts.
LEMMA ListsStep ==
    ExportTypes /\ GensOK /\ ListsOK /\ [ExportNext]_exportVars
    => /\ ListsOK'
       /\ \A e \in ExportIds : Stamped(e) =>
            /\ row'[e].stamp = row[e].stamp /\ row'[e].expires = row[e].expires
            /\ row'[e].status # row[e].status =>
                 row[e].status = "completed" /\ row'[e].status = "expired"
<1> SUFFICES ASSUME ExportTypes, GensOK, ListsOK, [ExportNext]_exportVars
             PROVE  /\ ListsOK'
                    /\ \A e \in ExportIds : Stamped(e) =>
                         /\ row'[e].stamp = row[e].stamp /\ row'[e].expires = row[e].expires
                         /\ row'[e].status # row[e].status =>
                              row[e].status = "completed" /\ row'[e].status = "expired"
  OBVIOUS
<1> DEFINE Keeps(e) == Stamped(e) =>
                         /\ row'[e].stamp = row[e].stamp /\ row'[e].expires = row[e].expires
                         /\ row'[e].status # row[e].status =>
                              row[e].status = "completed" /\ row'[e].status = "expired"
<1>a. ASSUME NEW e \in ExportIds
      PROVE  row[e].stamp \in Nat /\ row[e].expires \in Nat /\ expNow \in Nat
  BY ExportFields DEF ExportTypes
<1>b. ASSUME NEW v \in Sweepers PROVE sweep[v].list \subseteq ExportIds
  BY ExportFields
<1>1. \A e \in ExportIds : Keeps(e)
  <2>1. CASE UNCHANGED row
    BY <2>1
  <2>2. ASSUME NEW g \in Generators, MarkCompleted(g) \/ GenerateFails(g)
        PROVE  \A e \in ExportIds : Keeps(e)
    <3>1. gen[g].of \in ExportIds
      BY <2>2 DEF GensOK, MarkCompleted, GenerateFails
    <3>2. CASE MarkCompleted(g)
      BY <3>1, <3>2 DEF MarkCompleted, Unstamped, Stamped, ExportTypes
    <3>3. CASE GenerateFails(g)
      BY <3>1, <3>3 DEF GenerateFails, Failable, Stamped, ExportTypes
    <3> QED
      BY <2>2, <3>2, <3>3
  <2>3. ASSUME NEW v \in Sweepers, MarkExpired(v) PROVE \A e \in ExportIds : Keeps(e)
    <3>1. PICK e \in sweep[v].removed :
             UNCHANGED row \/ (row[e].status = "completed" /\ row' = [row EXCEPT ![e].status = "expired"])
      BY <2>3 DEF MarkExpired, Markable
    <3> QED
      BY <3>1 DEF Stamped, ExportTypes, Rows
  <2>4. ASSUME NEW e \in ExportIds, CreateExport(e) PROVE \A f \in ExportIds : Keeps(f)
    BY <2>4 DEF CreateExport, Stamped, ExportTypes
  <2> QED
    BY <2>1, <2>2, <2>3, <2>4
       DEF ExportNext, exportVars, TimePasses, SignalsChange, Generate, Sweep, StartGenerate, Scan,
           WriteArtifact, GeneratorDies, OpenArtifact, ReadExport, BeginSweep, RemoveArtifact,
           SweeperDies
<1>2. expNow' \in Nat /\ expNow' >= expNow
  <2>1. ExportTypes'
    BY ExportTypesStep
  <2>2. expNow' = expNow \/ expNow' = expNow + 1
    BY DEF ExportNext, exportVars, TimePasses, SignalsChange, CreateExport, Generate, Sweep,
           StartGenerate, Scan, WriteArtifact, MarkCompleted, GenerateFails, GeneratorDies,
           OpenArtifact, ReadExport, BeginSweep, RemoveArtifact, MarkExpired, SweeperDies
  <2> QED
    BY <2>1, <2>2 DEF ExportTypes
<1>3. \A e \in ExportIds : Stamped(e) /\ row[e].expires <= expNow
                           => Stamped(e)' /\ row'[e].expires <= expNow'
  BY <1>a, <1>1, <1>2 DEF Stamped
<1>4. ASSUME NEW v \in Sweepers
      PROVE  /\ sweep'[v].removed \subseteq sweep'[v].list
             /\ \A e \in sweep'[v].list : e \in sweep[v].list \/ (e \in DueForSweep)
  <2>1. CASE UNCHANGED sweep
    BY <2>1 DEF ListsOK
  <2>2. ASSUME NEW w \in Sweepers, NEW l \in Lists, sweep' = [sweep EXCEPT ![w] = l],
               l.removed \subseteq l.list, l.list \subseteq sweep[w].list \union DueForSweep
        PROVE  /\ sweep'[v].removed \subseteq sweep'[v].list
               /\ \A e \in sweep'[v].list : e \in sweep[v].list \/ e \in DueForSweep
    BY <2>2 DEF ListsOK, ExportTypes
  <2>3. ASSUME NEW w \in Sweepers, BeginSweep(w) \/ SweeperDies(w)
        PROVE  \E l \in Lists : /\ sweep' = [sweep EXCEPT ![w] = l]
                                /\ l.removed \subseteq l.list
                                /\ l.list \subseteq sweep[w].list \union DueForSweep
    <3>1. CASE BeginSweep(w)
      <4>1. DueForSweep \subseteq ExportIds
        BY DEF DueForSweep
      <4>2. [list |-> DueForSweep, removed |-> {}] \in Lists
        BY <4>1 DEF Lists
      <4> QED
        BY <3>1, <4>2 DEF BeginSweep
    <3>2. CASE SweeperDies(w)
      BY <3>2, NoGenIsIdle DEF SweeperDies
    <3> QED
      BY <2>3, <3>1, <3>2
  <2>4. ASSUME NEW w \in Sweepers, RemoveArtifact(w)
        PROVE  \E l \in Lists : /\ sweep' = [sweep EXCEPT ![w] = l]
                                /\ l.removed \subseteq l.list
                                /\ l.list \subseteq sweep[w].list \union DueForSweep
    <3>1. PICK e \in sweep[w].list \ sweep[w].removed :
             sweep' = [sweep EXCEPT ![w].removed = @ \union {e}]
      BY <2>4 DEF RemoveArtifact
    <3>2. sweep[w] \in Lists /\ sweep[w].removed \subseteq sweep[w].list
      BY DEF ExportTypes, ListsOK
    <3> DEFINE l == [sweep[w] EXCEPT !.removed = @ \union {e}]
    <3>3. /\ l \in Lists /\ l.list = sweep[w].list
          /\ l.removed = sweep[w].removed \union {e}
      BY <3>1, <3>2 DEF Lists
    <3>4. sweep' = [sweep EXCEPT ![w] = l]
      BY <3>1
    <3> HIDE DEF l
    <3> QED
      BY <3>2, <3>3, <3>4
  <2>5. ASSUME NEW w \in Sweepers, MarkExpired(w)
        PROVE  \E l \in Lists : /\ sweep' = [sweep EXCEPT ![w] = l]
                                /\ l.removed \subseteq l.list
                                /\ l.list \subseteq sweep[w].list \union DueForSweep
    <3>1. PICK e \in sweep[w].removed :
             \/ sweep' = [sweep EXCEPT ![w] = NoSweep]
             \/ sweep' = [sweep EXCEPT ![w] = [list |-> @.list \ {e}, removed |-> {}]]
      BY <2>5, Zenon DEF MarkExpired
    <3>2. CASE sweep' = [sweep EXCEPT ![w] = NoSweep]
      BY <3>2, NoGenIsIdle
    <3>3. CASE sweep' = [sweep EXCEPT ![w] = [list |-> @.list \ {e}, removed |-> {}]]
      <4>1. [list |-> sweep[w].list \ {e}, removed |-> {}] \in Lists
        BY <1>b DEF Lists
      <4> QED
        BY <3>3, <4>1 DEF ExportTypes
    <3> QED
      BY <3>1, <3>2, <3>3
  <2> QED
    BY <2>1, <2>2, <2>3, <2>4, <2>5
       DEF ExportNext, exportVars, TimePasses, SignalsChange, CreateExport, Generate, Sweep,
           StartGenerate, Scan, WriteArtifact, MarkCompleted, GenerateFails, GeneratorDies,
           OpenArtifact, ReadExport
<1>5. ListsOK'
  <2> SUFFICES ASSUME NEW v \in Sweepers, NEW e \in sweep'[v].list
               PROVE  Stamped(e)' /\ row'[e].expires <= expNow'
    BY <1>4 DEF ListsOK
  <2>1. e \in ExportIds /\ Stamped(e) /\ row[e].expires <= expNow
    BY <1>4, <1>b DEF ListsOK, DueForSweep, Stamped
  <2> QED
    BY <1>3, <2>1
<1> QED
  BY <1>1, <1>5

\* An artifact is where its export's stamp says.  A generation writes the
\* artifact of an export that has no stamp; a sweep removes those of exports
\* whose time is up.
LEMMA ArtifactsStep ==
    ExportInv /\ [ExportNext]_exportVars /\ overlaps' = 0 => AloneOK' /\ StampMatchesArtifact'
<1> SUFFICES ASSUME ExportInv, [ExportNext]_exportVars, overlaps' = 0
             PROVE  AloneOK' /\ StampMatchesArtifact'
  OBVIOUS
<1> DEFINE Alone == \A g \in Generators : gen[g].pc # "idle" =>
                      /\ ~Stamped(gen[g].of)
                      /\ gen[g].pc = "mark" => spool[gen[g].of] = gen[g].content
                      /\ \A h \in Generators \ {g} : gen[h].pc # "idle" => gen[h].of # gen[g].of
           Matches == \A e \in ExportIds :
                        row[e].status = "completed" /\ expNow < row[e].expires
                        => spool[e] = row[e].stamp
<1>0. ExportTypes /\ GensOK /\ ListsOK /\ ExportTypes' /\ GensOK'
  BY ExportTypesStep DEF ExportInv
<1>a. overlaps = 0
  <2>1. overlaps' \in {overlaps, overlaps + 1} /\ overlaps \in Nat
    BY <1>0 DEF ExportTypes, ExportNext, exportVars, TimePasses, SignalsChange, CreateExport,
          Generate, Sweep, StartGenerate, Scan, WriteArtifact, MarkCompleted, GenerateFails,
          GeneratorDies, OpenArtifact, ReadExport, BeginSweep, RemoveArtifact, MarkExpired,
          SweeperDies
  <2> QED
    BY <2>1
<1>b. Alone /\ Matches
  BY <1>a DEF ExportInv, AloneOK, StampMatchesArtifact
<1>c. \A e \in ExportIds : row[e].expires \in Nat /\ expNow \in Nat
  BY <1>0, ExportFields DEF ExportTypes
<1>d. NoGen.pc = "idle"
  BY NoGenIsIdle
<1> SUFFICES Alone' /\ Matches'
  BY DEF AloneOK, StampMatchesArtifact
<1>1. CASE UNCHANGED <<expNow, row, spool, gen>>
  BY <1>1, <1>b DEF Stamped
<1>2. CASE TimePasses
  BY <1>2, <1>b, <1>c DEF TimePasses, Stamped
<1>3. ASSUME NEW e \in ExportIds, CreateExport(e) PROVE Alone' /\ Matches'
  BY <1>3, <1>0, <1>b DEF CreateExport, Stamped, ExportTypes, GensOK
<1>4. ASSUME NEW g \in Generators, NEW e \in ExportIds, StartGenerate(g, e)
      PROVE  Alone' /\ Matches'
  <2>1. UNCHANGED <<expNow, row, spool>>
    BY <1>4 DEF StartGenerate
  <2>2. CASE UNCHANGED gen
    BY <1>1, <2>1, <2>2
  <2>3. CASE ~UNCHANGED gen
    <3>1. \A h \in Generators : gen[h].pc # "idle" => gen[h].of # e
      BY <1>4, <1>a, <1>0 DEF StartGenerate, ExportTypes
    <3>2. ~Stamped(e)
      BY <1>4, <2>3 DEF StartGenerate, Stamped
    <3>3. PICK fresh : gen' = [gen EXCEPT ![g] = fresh] /\ fresh.of = e /\ fresh.pc = "scan"
      <4>1. gen' = [gen EXCEPT ![g] = [NoGen EXCEPT !.pc = "scan", !.of = e, !.at = expNow]]
        BY <1>4, <2>3 DEF StartGenerate
      <4>2. expNow \in Nat
        BY <1>0 DEF ExportTypes
      <4> DEFINE fresh == [NoGen EXCEPT !.pc = "scan", !.of = e, !.at = expNow]
      <4>3. fresh \in Generations /\ fresh.of = e /\ fresh.pc = "scan"
        BY <4>2, FreshGen
      <4>4. gen' = [gen EXCEPT ![g] = fresh]
        BY <4>1
      <4> HIDE DEF fresh
      <4> QED
        BY <4>3, <4>4
    <3>4. gen'[g] = fresh /\ \A h \in Generators \ {g} : gen'[h] = gen[h]
      BY <3>3, <1>0 DEF ExportTypes
    <3>5. \A f : Stamped(f)' <=> Stamped(f)
      BY <2>1 DEF Stamped
    <3>6. Alone'
      BY <1>b, <2>1, <3>1, <3>2, <3>3, <3>4, <3>5
    <3> QED
      BY <3>6, <2>1, <1>b
  <2> QED
    BY <2>2, <2>3
<1>5. ASSUME NEW g \in Generators, Scan(g) PROVE Alone' /\ Matches'
  <2>1. /\ gen'[g].pc = "write" /\ gen'[g].of = gen[g].of
        /\ \A h \in Generators \ {g} : gen'[h] = gen[h]
    <3>1. gen[g] \in Generations
      BY <1>0 DEF ExportTypes
    <3> QED
      BY <1>5, <3>1, <1>0 DEF Scan, ExportTypes, Generations
  <2>2. gen[g].pc # "idle" /\ UNCHANGED <<expNow, row, spool>>
    BY <1>5 DEF Scan
  <2>3. Alone'
    BY <2>1, <2>2, <1>b DEF Stamped
  <2> QED
    BY <2>2, <2>3, <1>b
<1>6. ASSUME NEW g \in Generators, WriteArtifact(g) PROVE Alone' /\ Matches'
  <2>1. /\ gen'[g].pc = "mark" /\ gen'[g].of = gen[g].of /\ gen'[g].content = gen[g].content
        /\ \A h \in Generators \ {g} : gen'[h] = gen[h]
    <3>1. gen[g] \in Generations
      BY <1>0 DEF ExportTypes
    <3> QED
      BY <1>6, <3>1, <1>0 DEF WriteArtifact, ExportTypes, Generations
  <2>2. gen[g].pc # "idle" /\ UNCHANGED <<expNow, row>> /\ gen[g].of \in ExportIds
    BY <1>6, <1>0 DEF WriteArtifact, GensOK
  <2>3. /\ spool'[gen[g].of] = gen[g].content
        /\ \A e \in ExportIds \ {gen[g].of} : spool'[e] = spool[e]
    BY <1>6, <1>0, <2>2 DEF WriteArtifact, Stored, ExportTypes
  <2>4. \A h \in Generators \ {g} : gen[h].pc # "idle" =>
             gen[h].of \in ExportIds \ {gen[g].of}
    BY <1>b, <1>0, <2>2 DEF GensOK
  <2>5. Alone'
    BY <2>1, <2>2, <2>3, <2>4, <1>b DEF Stamped
  <2> QED
    BY <2>2, <2>3, <2>5, <1>b DEF Stamped
<1>7. ASSUME NEW g \in Generators, MarkCompleted(g) PROVE Alone' /\ Matches'
  <2>1. /\ gen'[g].pc = "idle" /\ \A h \in Generators \ {g} : gen'[h] = gen[h]
        /\ gen[g].pc = "mark" /\ UNCHANGED <<expNow, spool>> /\ gen[g].of \in ExportIds
    BY <1>7, <1>0, <1>d DEF MarkCompleted, ExportTypes, GensOK
  <2>2. \A e \in ExportIds \ {gen[g].of} : row'[e] = row[e]
    BY <1>7, <1>0 DEF MarkCompleted, ExportTypes
  <2>3. row'[gen[g].of].status = "completed" => row'[gen[g].of].stamp = gen[g].content
    <3>1. CASE Unstamped(gen[g].of)
      BY <1>7, <1>0, <2>1, <3>1 DEF MarkCompleted, ExportTypes, Rows
    <3>2. CASE ~Unstamped(gen[g].of)
      BY <1>7, <1>b, <2>1, <3>2 DEF MarkCompleted, Stamped
    <3> QED
      BY <3>1, <3>2
  <2>4. \A h \in Generators \ {g} : gen[h].pc # "idle" =>
             gen[h].of \in ExportIds \ {gen[g].of}
    BY <1>b, <1>0, <2>1 DEF GensOK
  <2>5. Alone'
    BY <2>1, <2>2, <2>4, <1>b DEF Stamped
  <2> QED
    BY <2>1, <2>2, <2>3, <2>5, <1>b
<1>8. ASSUME NEW g \in Generators, GenerateFails(g) \/ GeneratorDies(g) PROVE Alone' /\ Matches'
  <2>1. /\ gen'[g].pc = "idle" /\ \A h \in Generators \ {g} : gen'[h] = gen[h]
        /\ UNCHANGED <<expNow, spool>>
    BY <1>8, <1>0, <1>d DEF GenerateFails, GeneratorDies, ExportTypes
  <2>2. \A e \in ExportIds : row'[e] = row[e] \/ row'[e].status = "failed"
    BY <1>8, <1>0 DEF GenerateFails, GeneratorDies, ExportTypes, Rows
  <2>3. \A e \in ExportIds : Stamped(e)' => Stamped(e)
    BY <2>2 DEF Stamped
  <2>4. Alone'
    BY <2>1, <2>3, <1>b, <1>0 DEF GensOK
  <2> QED
    BY <2>1, <2>2, <2>4, <1>b
<1>9. ASSUME NEW v \in Sweepers, RemoveArtifact(v) PROVE Alone' /\ Matches'
  <2>1. PICK e \in sweep[v].list : UNCHANGED spool \/ spool' = [spool EXCEPT ![e] = NoContent]
    BY <1>9 DEF RemoveArtifact
  <2>2. Stamped(e) /\ row[e].expires <= expNow /\ e \in ExportIds
    BY <1>0, ExportFields DEF ListsOK
  <2>3. \A f \in ExportIds \ {e} : spool'[f] = spool[f]
    BY <2>1, <1>0 DEF ExportTypes
  <2>4. UNCHANGED <<expNow, row, gen>>
    BY <1>9 DEF RemoveArtifact
  <2>5. \A f \in ExportIds : ~Stamped(f) => spool'[f] = spool[f]
    BY <2>2, <2>3
  <2>6. Alone'
    BY <2>4, <2>5, <1>b, <1>0 DEF GensOK, Stamped
  <2> QED
    BY <1>b, <1>c, <2>2, <2>3, <2>4, <2>6
<1>10. ASSUME NEW v \in Sweepers, MarkExpired(v) PROVE Alone' /\ Matches'
  <2>1. PICK e \in sweep[v].removed :
           UNCHANGED row \/ row' = [row EXCEPT ![e].status = "expired"]
    BY <1>10 DEF MarkExpired
  <2>2. e \in ExportIds /\ Stamped(e)
    BY <1>0, ExportFields DEF ListsOK
  <2>3. /\ \A f \in ExportIds \ {e} : row'[f] = row[f]
        /\ row'[e] = row[e] \/ row'[e].status = "expired"
    BY <2>1, <2>2, <1>0 DEF ExportTypes, Rows
  <2>4. UNCHANGED <<expNow, spool, gen>>
    BY <1>10 DEF MarkExpired
  <2>5. Alone'
    BY <2>2, <2>3, <2>4, <1>b, <1>0 DEF GensOK, Stamped
  <2> QED
    BY <1>b, <2>3, <2>4, <2>5
<1> QED
  BY <1>1, <1>2, <1>3, <1>4, <1>5, <1>6, <1>7, <1>8, <1>9, <1>10
     DEF ExportNext, exportVars, SignalsChange, Generate, Sweep, OpenArtifact, ReadExport, BeginSweep,
         SweeperDies

\* The invariant the theorems about exports rest on.
LEMMA ExportInvariant == ExportSpec => []ExportInv
<1>1. ExportInit => ExportInv
  <2> SUFFICES ASSUME ExportInit PROVE ExportInv
    OBVIOUS
  <2>1. NoRow \in Rows /\ NoRow.status = "none"
    BY DEF NoRow, Rows, NoContent
  <2>2. ExportTypes
    BY <2>1, NoGenIsIdle DEF ExportInit, ExportTypes, NoContent
  <2>3. GensOK /\ AloneOK
    BY NoGenIsIdle DEF ExportInit, GensOK, AloneOK
  <2>4. ListsOK
    BY NoGenIsIdle DEF ExportInit, ListsOK
  <2>5. StampMatchesArtifact
    BY <2>1 DEF ExportInit, StampMatchesArtifact
  <2> QED
    BY <2>2, <2>3, <2>4, <2>5 DEF ExportInv
<1>2. ExportInv /\ [ExportNext]_exportVars => ExportInv'
  <2> SUFFICES ASSUME ExportInv, [ExportNext]_exportVars PROVE ExportInv'
    OBVIOUS
  <2>1. ExportTypes' /\ GensOK' /\ ListsOK'
    BY ExportTypesStep, ListsStep DEF ExportInv
  <2>2. overlaps' = 0 => AloneOK' /\ StampMatchesArtifact'
    BY ArtifactsStep
  <2> QED
    BY <2>1, <2>2 DEF ExportInv, AloneOK, StampMatchesArtifact
<1> QED
  BY <1>1, <1>2, PTL DEF ExportSpec

\* While no two deliveries of one job overlap, a completed export that has not
\* expired has the artifact its row was stamped for, for any number of exports,
\* workers, sweeps, failures and crashes (GenerateExport, SweepExports).
THEOREM StampsTell == ExportSpec => []StampMatchesArtifact
<1>1. ExportInv => StampMatchesArtifact
  BY DEF ExportInv
<1> QED
  BY <1>1, ExportInvariant, PTL

\* A stamp is final, overlapping deliveries or not (MarkExportCompleted,
\* MarkExportFailed, MarkExportExpired).
THEOREM StampsAreFinal == ExportSpec => StampedOnce
<1>1. ExportInv /\ [ExportNext]_exportVars =>
        [\A e \in ExportIds : row[e].status \in {"completed", "expired"} =>
          /\ row'[e].stamp = row[e].stamp /\ row'[e].expires = row[e].expires
          /\ row'[e].status # row[e].status =>
               row[e].status = "completed" /\ row'[e].status = "expired"]_exportVars
  BY ListsStep DEF ExportInv, Stamped
<1> QED
  BY <1>1, ExportInvariant, PTL DEF ExportSpec, StampedOnce

-------------------------------------------------------------------------------
(* SlaClock *)

\* The whole seconds of a pause are off by half a second at most.
LEMMA RoundingError ==
    ASSUME NEW ticks \in Nat
    PROVE  LET q == WholeSeconds(ticks)
           IN  /\ q \in Nat
               /\ 2 * (q * TicksPerSecond) - 2 * ticks <= TicksPerSecond
               /\ 2 * ticks - 2 * (q * TicksPerSecond) <= TicksPerSecond
<1> DEFINE q == WholeSeconds(ticks)
           r == (2 * ticks + TicksPerSecond) % (2 * TicksPerSecond)
<1>1. TicksPerSecond \in Nat /\ TicksPerSecond > 0 /\ 2 * TicksPerSecond > 0
  BY TicksAssumption
<1>2. /\ q \in Int
      /\ 2 * ticks + TicksPerSecond = (2 * TicksPerSecond) * q + r
      /\ 0 <= r /\ r < 2 * TicksPerSecond
  BY <1>1 DEF WholeSeconds
<1>3. r \in Int
  BY <1>1
<1>4. q >= 0
  <2> SUFFICES ASSUME q < 0 PROVE FALSE
    BY <1>2
  <2>1. (2 * TicksPerSecond) * q <= (2 * TicksPerSecond) * (0 - 1)
    BY <1>1, <1>2
  <2> QED
    BY <1>1, <1>2, <1>3, <2>1
<1>5. (2 * TicksPerSecond) * q = 2 * (q * TicksPerSecond)
  BY <1>1, <1>2
<1>6. q * TicksPerSecond \in Int
  BY <1>1, <1>2
<1> HIDE DEF q, r
<1>7. q \in Nat
  BY <1>2, <1>4
<1> QED
  BY <1>1, <1>2, <1>3, <1>5, <1>6, <1>7 DEF q

\* What the ended pauses are credited with, against what they lasted.
CreditOK ==
    /\ 2 * (pausedSeconds * TicksPerSecond) - 2 * pausedTicks <= resumes * TicksPerSecond
    /\ 2 * pausedTicks - 2 * (pausedSeconds * TicksPerSecond) <= resumes * TicksPerSecond

\* A fresh clock has had no pause and holds no credit.
LEMMA CreditInit == Init => TypeOK /\ CreditOK
<1>1. TicksPerSecond \in Nat /\ Durations \subseteq Nat
  BY TicksAssumption, DurationsAssumption
<1>2. Init => TypeOK
  <2> SUFFICES ASSUME Init PROVE TypeOK
    OBVIOUS
  <2>1. deadline \in Nat /\ pausedSeconds \in Nat /\ pausedTicks \in Nat /\ resumes \in Nat
        /\ now \in Nat
    BY <1>1 DEF Init
  <2>2. fulfilled \in BOOLEAN /\ pausedAt \in 0..now \union {NotPaused}
    BY DEF Init
  <2> QED
    BY <2>1, <2>2 DEF TypeOK
<1>3. 0 * TicksPerSecond = 0
  BY <1>1
<1> QED
  BY <1>2, <1>3 DEF Init, CreditOK

\* Ending a pause adds one rounding error.
LEMMA CreditStep == TypeOK /\ CreditOK /\ [Next]_vars => TypeOK' /\ CreditOK'
<1> SUFFICES ASSUME TypeOK, CreditOK, [Next]_vars PROVE TypeOK' /\ CreditOK'
  OBVIOUS
<1>1. TicksPerSecond \in Nat /\ Durations \subseteq Nat /\ NotPaused \notin Int
  BY TicksAssumption, DurationsAssumption, NotPausedAssumption
<1>2. CASE UNCHANGED vars
  BY <1>2 DEF vars, clock, TypeOK, CreditOK
<1>3. CASE Tick
  BY <1>3 DEF Tick, clock, TypeOK, CreditOK
<1>4. CASE Fulfil
  BY <1>4 DEF Fulfil, TypeOK, CreditOK
<1>5. ASSUME NEW t \in Instants, Pause(t) PROVE TypeOK' /\ CreditOK'
  BY <1>5 DEF Pause, Instants, TypeOK, CreditOK
<1>6. ASSUME NEW t \in Instants, Resume(t) PROVE TypeOK' /\ CreditOK'
  <2>1. t - pausedAt \in Nat
    BY <1>1, <1>6 DEF Resume, Paused, Instants, TypeOK
  <2> DEFINE q == WholeSeconds(t - pausedAt)
  <2>2. /\ q \in Nat
        /\ 2 * (q * TicksPerSecond) - 2 * (t - pausedAt) <= TicksPerSecond
        /\ 2 * (t - pausedAt) - 2 * (q * TicksPerSecond) <= TicksPerSecond
    BY <2>1, RoundingError
  <2>3. /\ pausedSeconds' = pausedSeconds + q /\ pausedTicks' = pausedTicks + (t - pausedAt)
        /\ resumes' = resumes + 1 /\ pausedAt' = NotPaused
        /\ UNCHANGED <<now, deadline, fulfilled>>
    BY <1>6 DEF Resume
  <2> HIDE DEF q
  <2>4. TypeOK'
    BY <2>1, <2>2, <2>3 DEF TypeOK
  <2>5. /\ pausedSeconds' * TicksPerSecond
             = pausedSeconds * TicksPerSecond + q * TicksPerSecond
        /\ resumes' * TicksPerSecond = resumes * TicksPerSecond + TicksPerSecond
    BY <1>1, <2>2, <2>3 DEF TypeOK
  <2>6. /\ pausedSeconds * TicksPerSecond \in Int /\ resumes * TicksPerSecond \in Int
        /\ q * TicksPerSecond \in Int /\ pausedTicks \in Int
    BY <1>1, <2>2 DEF TypeOK
  <2>7. CreditOK'
    BY <1>1, <2>1, <2>2, <2>3, <2>5, <2>6 DEF CreditOK
  <2> QED
    BY <2>4, <2>7
<1>7. ASSUME NEW t \in Instants, NEW d \in Durations, Tighten(t, d) PROVE TypeOK' /\ CreditOK'
  BY <1>1, <1>7 DEF Tighten, Instants, TypeOK, CreditOK
<1>8. ASSUME NEW t \in Instants, NEW d \in Durations, Reset(t, d) PROVE TypeOK' /\ CreditOK'
  <2>1. 0 * TicksPerSecond = 0
    BY <1>1
  <2>2. t + d \in Nat
    BY <1>1 DEF Instants, TypeOK
  <2>3. /\ deadline' = t + d /\ fulfilled' = FALSE /\ pausedSeconds' = 0
        /\ pausedAt' = NotPaused /\ pausedTicks' = 0 /\ resumes' = 0 /\ now' = now
    BY <1>8 DEF Reset
  <2>4. TypeOK'
    BY <2>2, <2>3 DEF TypeOK
  <2>5. CreditOK'
    BY <2>1, <2>3 DEF CreditOK
  <2> QED
    BY <2>4, <2>5
<1> QED
  BY <1>2, <1>3, <1>4, <1>5, <1>6, <1>7, <1>8 DEF Next

\* The values a clock can hold (sla_clocks: instants after the start, whole
\* seconds that are not negative).
THEOREM ClockTypes == Spec => []TypeOK
<1> QED
  BY CreditInit, CreditStep, PTL DEF Spec

\* The deadline of the breach scan is within half a second for each ended
\* pause of the deadline plus the exact length of all pauses, for any
\* durations, resolution of time, delays and numbers of pauses
\* (ResumeSlaClock, sla.go: EffectiveDeadline).
THEOREM DriftIsBounded == Spec => []PauseDriftBounded
<1>1. TypeOK /\ CreditOK => PauseDriftBounded
  <2> SUFFICES ASSUME TypeOK, CreditOK PROVE PauseDriftBounded
    OBVIOUS
  <2>1. TicksPerSecond \in Nat /\ NotPaused \notin Int
    BY TicksAssumption, NotPausedAssumption
  <2>2. RunningPause \in Int
    BY <2>1 DEF RunningPause, Paused, TypeOK
  <2>3. /\ pausedSeconds * TicksPerSecond \in Int /\ resumes * TicksPerSecond \in Int
        /\ pausedTicks \in Int /\ deadline \in Int
    BY <2>1 DEF TypeOK
  <2> QED
    BY <2>2, <2>3 DEF CreditOK, PauseDriftBounded, EffectiveDeadline
<1> QED
  BY <1>1, CreditInit, CreditStep, PTL DEF Spec

\* A clock does not come due, nor cease to be due, because time passes in a
\* pause (chapter 9.4: the remaining time is frozen).
THEOREM PauseFreezes == Spec => NoBreachInPause
<1>1. TypeOK /\ [Next]_vars => [Paused /\ Paused' /\ now' > now => (Due' <=> Due)]_vars
  <2> SUFFICES ASSUME TypeOK, Next, Paused, Paused', now' > now PROVE Due' <=> Due
    OBVIOUS
  <2>1. now \in Nat /\ NotPaused \notin Int /\ TicksPerSecond \in Nat
    BY NotPausedAssumption, TicksAssumption DEF TypeOK
  <2>2. now' = now + 1 /\ UNCHANGED clock
    BY <2>1 DEF Next, Tick, Fulfil, Pause, Resume, Tighten, Reset
  <2>3. pausedAt \in Int /\ pausedAt' = pausedAt
    BY <2>1, <2>2 DEF TypeOK, Paused, clock
  <2>4. deadline \in Int /\ pausedSeconds * TicksPerSecond \in Int
    BY <2>1 DEF TypeOK
  <2> QED
    BY <2>1, <2>2, <2>3, <2>4 DEF Due, EffectiveDeadline, RunningPause, clock
<1> QED
  BY <1>1, CreditInit, CreditStep, PTL DEF Spec, NoBreachInPause

\* Unless a reopen restarts the clock, a new stored deadline leaves less time
\* than before (TightenSlaClock).
THEOREM TighteningShortens == Spec => UpgradeNeverLengthens
<1>1. TypeOK /\ [Next]_vars =>
        [deadline' # deadline /\ ~Restarted => EffectiveDeadline' < EffectiveDeadline]_vars
  <2> SUFFICES ASSUME TypeOK, Next, deadline' # deadline, ~Restarted
               PROVE  EffectiveDeadline' < EffectiveDeadline
    OBVIOUS
  <2>1. PICK t \in Instants, d \in Durations : Tighten(t, d)
    BY DEF Next, Tick, Fulfil, Pause, Resume, clock, Restarted
  <2>2. t + d \in Int /\ deadline \in Int
    BY DurationsAssumption DEF Instants, TypeOK
  <2>3. pausedSeconds * TicksPerSecond \in Int /\ RunningPause \in Int
    BY TicksAssumption, NotPausedAssumption DEF TypeOK, RunningPause, Paused
  <2>4. /\ deadline' = t + d /\ t + d < deadline
        /\ UNCHANGED <<now, pausedSeconds, pausedAt>>
    BY <2>1 DEF Tighten
  <2> QED
    BY <2>2, <2>3, <2>4 DEF EffectiveDeadline, RunningPause, Paused
<1> QED
  BY <1>1, CreditInit, CreditStep, PTL DEF Spec, UpgradeNeverLengthens

-------------------------------------------------------------------------------
(* AuditChain: the verification *)

\* Complete induction over the naturals, for a set instead of a predicate.
LEMMA NatsByInduction ==
    ASSUME NEW S, 0 \in S, \A n \in Nat : n \in S => n + 1 \in S
    PROVE  Nat \subseteq S
<1> DEFINE Below == {p \in Nat \X Nat : p[1] < p[2]}
<1>1. IsWellFoundedOn(Below, Nat)
  BY NatLessThanWellFounded DEF OpToRel
<1> SUFFICES ASSUME Nat \ S # {} PROVE FALSE
  OBVIOUS
<1>2. PICK x \in Nat \ S : \A y \in Nat \ S : <<y, x>> \notin Below
  <2> HIDE DEF Below
  <2> QED
    BY <1>1, WFMin
<1>3. x # 0
  BY <1>2
<1>4. x - 1 \in Nat /\ x - 1 + 1 = x
  BY <1>2, <1>3
<1>5. x - 1 \notin S
  BY <1>2, <1>4
<1>6. <<x - 1, x>> \in Nat \X Nat /\ <<x - 1, x>>[1] = x - 1 /\ <<x - 1, x>>[2] = x
  BY <1>4, <1>2
<1> QED
  BY <1>2, <1>4, <1>5, <1>6

\* The rows at the end of a walk of n steps, each along a link or none.
Walks(n) == {p \in [0..n -> Chained] : p[0] \in Heads /\
                \A i \in 1..n : p[i] = p[i - 1] \/ p[i] \in Linked(p[i - 1])}
Reached(n) == {p[n] : p \in Walks(n)}

\* What n + 1 steps reach is what n steps reach and what links to that.
LEMMA ReachedNext ==
    ASSUME NEW n \in Nat
    PROVE  Reached(n + 1) = Reached(n) \union UNION {Linked(r) : r \in Reached(n)}
<1>1. ASSUME NEW r \in Reached(n + 1)
      PROVE  r \in Reached(n) \union UNION {Linked(s) : s \in Reached(n)}
  <2>1. PICK p \in Walks(n + 1) : r = p[n + 1]
    BY DEF Reached
  <2> DEFINE q == [i \in 0..n |-> p[i]]
  <2>2. q \in Walks(n)
    BY <2>1 DEF Walks
  <2>3. q[n] = p[n] /\ q[n] \in Reached(n)
    BY <2>2 DEF Reached
  <2>4. p[n + 1] = p[n] \/ p[n + 1] \in Linked(p[n])
    BY <2>1 DEF Walks
  <2> QED
    BY <2>1, <2>3, <2>4
<1>2. ASSUME NEW s \in Reached(n), NEW r, r = s \/ r \in Linked(s) PROVE r \in Reached(n + 1)
  <2>1. PICK p \in Walks(n) : s = p[n]
    BY DEF Reached
  <2>2. r \in Chained
    BY <1>2, <2>1 DEF Walks, Linked
  <2> DEFINE q == [i \in 0..(n + 1) |-> IF i = n + 1 THEN r ELSE p[i]]
  <2>3. q \in [0..(n + 1) -> Chained]
    BY <2>1, <2>2 DEF Walks
  <2>4. q[0] \in Heads
    BY <2>1 DEF Walks
  <2>5. ASSUME NEW i \in 1..(n + 1) PROVE q[i] = q[i - 1] \/ q[i] \in Linked(q[i - 1])
    <3>1. CASE i = n + 1
      BY <1>2, <2>1, <3>1
    <3>2. CASE i # n + 1
      BY <2>1, <3>2 DEF Walks
    <3> QED
      BY <3>1, <3>2
  <2>6. q \in Walks(n + 1) /\ q[n + 1] = r
    BY <2>3, <2>4, <2>5 DEF Walks
  <2> QED
    BY <2>6 DEF Reached
<1> QED
  BY <1>1, <1>2

\* No steps reach the heads.
LEMMA ReachedFirst == Reached(0) = Heads
<1>1. ASSUME NEW r \in Heads PROVE r \in Reached(0)
  <2>1. [i \in 0..0 |-> r] \in Walks(0)
    BY DEF Walks, Heads
  <2>2. [i \in 0..0 |-> r][0] = r
    OBVIOUS
  <2> QED
    BY <2>1, <2>2 DEF Reached
<1> QED
  BY <1>1 DEF Reached, Walks

\* The recursive definition defines a function: that of the walks.
LEMMA VisitedStep ==
    /\ Visited[0] = Heads
    /\ \A n \in Nat : Visited[n + 1] = Visited[n] \union UNION {Linked(r) : r \in Visited[n]}
<1> DEFINE Follows(g) == g = [n \in Nat |-> IF n = 0 THEN Heads
                                ELSE g[n - 1] \union UNION {Linked(r) : r \in g[n - 1]}]
           f == [n \in Nat |-> Reached(n)]
<1>1. Follows(f)
  <2>1. ASSUME NEW n \in Nat
        PROVE  f[n] = IF n = 0 THEN Heads ELSE f[n - 1] \union UNION {Linked(r) : r \in f[n - 1]}
    <3>1. CASE n = 0
      BY <3>1, ReachedFirst
    <3>2. CASE n # 0
      <4>1. n - 1 \in Nat /\ n - 1 + 1 = n
        BY <3>2
      <4>2. Reached(n) = Reached(n - 1) \union UNION {Linked(r) : r \in Reached(n - 1)}
        BY <4>1, ReachedNext
      <4> QED
        BY <3>2, <4>1, <4>2
    <3> QED
      BY <3>1, <3>2
  <2> QED
    BY <2>1
<1>2. Visited = CHOOSE g : Follows(g)
  BY DEF Visited
<1>3. Follows(Visited)
  <2> HIDE DEF Follows, f
  <2> QED
    BY <1>1, <1>2
<1>4. \A n \in Nat : Visited[n] = IF n = 0 THEN Heads
                                  ELSE Visited[n - 1] \union UNION {Linked(r) : r \in Visited[n - 1]}
  BY <1>3
<1>5. ASSUME NEW n \in Nat
      PROVE  Visited[n + 1] = Visited[n] \union UNION {Linked(r) : r \in Visited[n]}
  <2>1. n + 1 \in Nat /\ n + 1 # 0 /\ (n + 1) - 1 = n
    OBVIOUS
  <2> QED
    BY <1>4, <2>1
<1> QED
  BY <1>4, <1>5

\* The walk only visits chained rows, and leaves none again.
LEMMA VisitedGrows ==
    /\ \A n \in Nat : Visited[n] \subseteq Chained /\ Visited[n] \subseteq Visited[n + 1]
    /\ \A n \in Nat : Visited[n + 1] = Visited[n] =>
         \A m \in Nat : m >= n => Visited[m] = Visited[n]
<1>1. \A n \in Nat : Visited[n] \subseteq Chained
  <2> DEFINE S == {n \in Nat : Visited[n] \subseteq Chained}
  <2>1. 0 \in S
    BY VisitedStep DEF Heads
  <2>2. \A n \in Nat : n \in S => n + 1 \in S
    BY VisitedStep DEF Linked
  <2>3. Nat \subseteq S
    <3> HIDE DEF S
    <3> QED
      BY <2>1, <2>2, NatsByInduction
  <2> QED
    BY <2>3
<1>2. \A n \in Nat : Visited[n] \subseteq Visited[n + 1]
  BY VisitedStep
<1>3. ASSUME NEW n \in Nat, Visited[n + 1] = Visited[n], NEW m \in Nat, m >= n
      PROVE  Visited[m] = Visited[n]
  <2> DEFINE S == {d \in Nat : Visited[n + d] = Visited[n]}
  <2>1. 0 \in S
    OBVIOUS
  <2>2. ASSUME NEW d \in Nat, d \in S PROVE d + 1 \in S
    <3>1. n + d \in Nat /\ n + (d + 1) = (n + d) + 1
      OBVIOUS
    <3>2. Visited[(n + d) + 1] = Visited[n + d] \union UNION {Linked(r) : r \in Visited[n + d]}
      BY <3>1, VisitedStep
    <3>3. Visited[n + 1] = Visited[n] \union UNION {Linked(r) : r \in Visited[n]}
      BY VisitedStep
    <3>4. Visited[n + d] = Visited[n]
      BY <2>2
    <3>5. Visited[(n + d) + 1] = Visited[n]
      BY <3>2, <3>3, <3>4, <1>3
    <3> QED
      BY <3>1, <3>5
  <2>3. Nat \subseteq S
    <3> HIDE DEF S
    <3> QED
      BY <2>1, <2>2, NatsByInduction
  <2>4. m - n \in Nat /\ n + (m - n) = m
    BY <1>3
  <2> QED
    BY <2>3, <2>4
<1> QED
  BY <1>1, <1>2, <1>3

\* The rows of a trail: a finite set of records, of which the chained ones have
\* hashes that tell them apart.
Hashed ==
    /\ IsFiniteSet(Chained)
    /\ \A r \in Chained : r.hash # ChainStart
    /\ \A r, s \in Chained : r.hash = s.hash => r = s

\* The first n rows of a chain, in its order.
Follow(o, n) ==
    /\ o \in [1..n -> Chained]
    /\ \A i \in 1..n : o[i].prev = IF i = 1 THEN ChainStart ELSE o[i - 1].hash

\* A chain is accepted.
LEMMA ChainIsAccepted ==
    ASSUME Hashed, IsChain PROVE VerifyChain
<1> DEFINE k == Cardinality(Chained)
<1>1. PICK o \in [1..k -> Chained] :
         /\ \A r \in Chained : \E i \in DOMAIN o : o[i] = r
         /\ \A i \in DOMAIN o : o[i].prev = IF i = 1 THEN ChainStart ELSE o[i - 1].hash
         /\ \A r \in Chained : ~r.edited
  BY DEF IsChain
<1>2. k \in Nat
  BY FS_CardinalityType DEF Hashed
<1> HIDE DEF k
<1> SUFFICES ASSUME Chained # {}
             PROVE  /\ \A r \in Chained : r.prev = ChainStart \/ \E s \in Chained : s.hash = r.prev
                    /\ Cardinality(Heads) = 1
                    /\ \A r \in Visited[k] : ~r.edited /\ Cardinality(Linked(r)) <= 1
                    /\ Visited[k] = Chained
  BY DEF VerifyChain, k
<1>3. \A i \in 1..k : o[i].prev = IF i = 1 THEN ChainStart ELSE o[i - 1].hash
  BY <1>1
<1>4. \A r \in Chained : \E i \in 1..k : o[i] = r
  BY <1>1
<1>5. k >= 1
  BY <1>2, <1>4
<1>6. \A i, j \in 1..k : o[i] = o[j] => i = j
  <2>1. Cardinality(1..k) = k /\ IsFiniteSet(1..k)
    BY <1>2, FS_Interval
  <2>2. o \in Surjection(1..k, Chained)
    BY <1>1, <1>4 DEF Surjection
  <2>3. o \in Injection(1..k, Chained)
    BY <2>1, <2>2, FS_Surjection DEF k
  <2> QED
    BY <2>3 DEF Injection, IsInjective
<1>7. \A r \in Chained : r.prev = ChainStart \/ \E s \in Chained : s.hash = r.prev
  <2> SUFFICES ASSUME NEW i \in 1..k, i # 1 PROVE \E s \in Chained : s.hash = o[i].prev
    BY <1>3, <1>4
  <2>1. i - 1 \in 1..k
    BY <1>2
  <2> QED
    BY <1>1, <1>3, <2>1
<1>8. Heads = {o[1]}
  <2>1. o[1] \in Heads
    BY <1>1, <1>2, <1>3, <1>5 DEF Heads
  <2>2. ASSUME NEW r \in Heads PROVE r = o[1]
    <3>1. PICK i \in 1..k : o[i] = r
      BY <1>4, <2>2 DEF Heads
    <3>2. CASE i # 1
      <4>1. i - 1 \in 1..k
        BY <1>2, <3>2
      <4>2. o[i - 1] \in Chained
        BY <1>1, <4>1
      <4> QED
        BY <1>3, <2>2, <3>1, <3>2, <4>2 DEF Heads, Hashed
    <3> QED
      BY <3>1, <3>2
  <2> QED
    BY <2>1, <2>2
<1>9. Cardinality(Heads) = 1
  BY <1>8, FS_Singleton
<1>10. ASSUME NEW i \in 1..k PROVE Cardinality(Linked(o[i])) <= 1
  <2>1. ASSUME NEW r \in Linked(o[i]) PROVE i + 1 \in 1..k /\ r = o[i + 1]
    <3>1. PICK j \in 1..k : o[j] = r
      BY <1>4 DEF Linked
    <3>2. o[j].prev = o[i].hash /\ o[i] \in Chained
      BY <1>1, <3>1 DEF Linked
    <3>3. j # 1
      BY <1>3, <3>2 DEF Hashed
    <3>4. j - 1 \in 1..k /\ o[j - 1] \in Chained
      BY <1>1, <1>2, <3>3
    <3>5. o[j - 1] = o[i]
      BY <1>3, <3>2, <3>3, <3>4 DEF Hashed
    <3>6. j - 1 = i
      BY <1>6, <3>4, <3>5
    <3>7. i + 1 = j
      BY <1>2, <3>6
    <3> QED
      BY <3>1, <3>7
  <2>2. CASE Linked(o[i]) = {}
    BY <2>2, FS_EmptySet
  <2>3. CASE Linked(o[i]) # {}
    <3>1. Linked(o[i]) = {o[i + 1]}
      BY <2>1, <2>3
    <3>2. Cardinality({o[i + 1]}) = 1
      BY FS_Singleton
    <3> QED
      BY <3>1, <3>2
  <2> QED
    BY <2>2, <2>3
<1>11. \A n \in Nat : \A i \in 1..k : i <= n + 1 => o[i] \in Visited[n]
  <2> DEFINE S == {n \in Nat : \A i \in 1..k : i <= n + 1 => o[i] \in Visited[n]}
  <2>1. 0 \in S
    BY <1>8, VisitedStep
  <2>2. ASSUME NEW n \in Nat, n \in S PROVE n + 1 \in S
    <3> SUFFICES ASSUME NEW i \in 1..k, i <= n + 1 + 1 PROVE o[i] \in Visited[n + 1]
      BY <2>2
    <3>1. CASE i <= n + 1
      BY <2>2, <3>1, VisitedGrows
    <3>2. CASE i = n + 2
      <4>1. i - 1 \in 1..k /\ i - 1 <= n + 1
        BY <1>2, <3>2
      <4>2. o[i - 1] \in Visited[n]
        BY <2>2, <4>1
      <4>3. o[i] \in Linked(o[i - 1])
        BY <1>1, <1>3, <3>2 DEF Linked
      <4> QED
        BY <4>2, <4>3, VisitedStep
    <3> QED
      BY <1>2, <3>1, <3>2
  <2>3. Nat \subseteq S
    <3> HIDE DEF S
    <3> QED
      BY <2>1, <2>2, NatsByInduction
  <2> QED
    BY <2>3
<1>12. Visited[k] = Chained
  <2>1. Visited[k] \subseteq Chained
    BY <1>2, VisitedGrows
  <2>2. \A i \in 1..k : o[i] \in Visited[k]
    BY <1>2, <1>11
  <2> QED
    BY <1>4, <2>1, <2>2
<1>13. \A r \in Visited[k] : ~r.edited /\ Cardinality(Linked(r)) <= 1
  BY <1>1, <1>4, <1>10, <1>12
<1> QED
  BY <1>7, <1>9, <1>12, <1>13

\* What is accepted is a chain: the walk goes through the rows one after the
\* other, since it forks nowhere, and stops at the last only.
LEMMA AcceptedIsChain ==
    ASSUME Hashed, VerifyChain PROVE IsChain
<1> DEFINE k == Cardinality(Chained)
           Ordered(o, n) == /\ Follow(o, n)
                            /\ \A i, j \in 1..n : o[i] = o[j] => i = j
                            /\ Visited[n - 1] = {o[i] : i \in 1..n}
<1>1. k \in Nat
  BY FS_CardinalityType DEF Hashed
<1>2. CASE Chained = {}
  <2>1. k = 0
    BY <1>2, FS_EmptySet
  <2> DEFINE o == [i \in 1..0 |-> {}]
  <2>2. o \in [1..k -> Chained] /\ DOMAIN o = {}
    BY <2>1
  <2> QED
    BY <1>2, <2>2 DEF IsChain
<1>3. CASE Chained # {}
  <2>1. /\ Cardinality(Heads) = 1
        /\ \A r \in Visited[k] : ~r.edited /\ Cardinality(Linked(r)) <= 1
        /\ Visited[k] = Chained
    BY <1>3 DEF VerifyChain
  <2> HIDE DEF k
  <2>2. \A r \in Chained : IsFiniteSet(Linked(r)) /\ \A s, t \in Linked(r) : s = t
    <3> SUFFICES ASSUME NEW r \in Chained, NEW s \in Linked(r), NEW t \in Linked(r)
                 PROVE  s = t
      <4>1. \A r \in Chained : IsFiniteSet(Linked(r))
        BY FS_Subset DEF Hashed, Linked
      <4> QED
        BY <4>1
    <3>1. IsFiniteSet(Linked(r)) /\ Cardinality(Linked(r)) <= 1
      BY <2>1, FS_Subset DEF Hashed, Linked
    <3>2. Cardinality(Linked(r)) \in Nat /\ Cardinality(Linked(r)) # 0
      BY <3>1, FS_CardinalityType, FS_EmptySet
    <3>3. Cardinality(Linked(r)) = 1
      BY <3>1, <3>2
    <3>4. PICK x : Linked(r) = {x}
      BY <3>1, <3>3, FS_Singleton
    <3> QED
      BY <3>4
  <2>3. PICK h : Heads = {h}
    <3>1. IsFiniteSet(Heads)
      BY FS_Subset DEF Hashed, Heads
    <3> QED
      BY <2>1, <3>1, FS_Singleton
  <2>4. k # 0
    BY <1>3, FS_EmptySet DEF k, Hashed
  <2> DEFINE S == {n \in Nat : n + 1 <= k => \E o : Ordered(o, n + 1)}
  <2>5. 0 \in S
    <3> DEFINE o == [i \in 1..1 |-> h]
    <3>1. Follow(o, 1)
      BY <2>3 DEF Follow, Heads
    <3>2. Visited[1 - 1] = {h}
      BY <2>3, VisitedStep
    <3>3. {o[i] : i \in 1..1} = {h}
      OBVIOUS
    <3>4. Ordered(o, 0 + 1)
      BY <3>1, <3>2, <3>3
    <3> HIDE DEF Ordered, o
    <3> QED
      BY <3>4
  <2>6. ASSUME NEW n \in Nat, n \in S PROVE n + 1 \in S
    <3> SUFFICES ASSUME n + 2 <= k PROVE \E o : Ordered(o, n + 2)
      <4> HIDE DEF Ordered
      <4> QED
        BY <1>1
    <3>1. PICK o : Ordered(o, n + 1)
      <4> HIDE DEF Ordered
      <4> QED
        BY <1>1, <2>6
    <3> DEFINE T == {o[i] : i \in 1..(n + 1)}
    <3>2. Visited[n] = T
      <4>1. (n + 1) - 1 = n
        OBVIOUS
      <4> QED
        BY <3>1, <4>1
    <3>3. Visited[n + 1] = T \union UNION {Linked(r) : r \in T}
      BY <3>2, VisitedStep
    <3>4. ASSUME NEW i \in 1..n PROVE Linked(o[i]) = {o[i + 1]}
      <4>1. i + 1 \in 1..(n + 1) /\ i + 1 # 1 /\ (i + 1) - 1 = i /\ i \in 1..(n + 1)
        OBVIOUS
      <4>2. o[i + 1] \in Chained /\ o[i + 1].prev = o[i].hash /\ o[i] \in Chained
        BY <3>1, <4>1 DEF Follow
      <4>3. o[i + 1] \in Linked(o[i])
        BY <4>2 DEF Linked
      <4> QED
        BY <2>2, <4>2, <4>3
    <3>5. PICK s \in Linked(o[n + 1]) : s \notin T
      <4> SUFFICES ASSUME Linked(o[n + 1]) \subseteq T PROVE FALSE
        OBVIOUS
      <4>1. ASSUME NEW i \in 1..(n + 1) PROVE Linked(o[i]) \subseteq T
        <5>1. CASE i = n + 1
          BY <5>1
        <5>2. CASE i # n + 1
          <6>1. i \in 1..n /\ i + 1 \in 1..(n + 1)
            BY <5>2
          <6> QED
            BY <3>4, <6>1
        <5> QED
          BY <5>1, <5>2
      <4>2. Visited[n + 1] = Visited[n]
        BY <3>2, <3>3, <4>1
      <4>3. Visited[k] = Visited[n]
        BY <1>1, <4>2, VisitedGrows
      <4>4. Chained = T
        BY <2>1, <3>2, <4>3
      <4>5. o \in Surjection(1..(n + 1), Chained)
        BY <3>1, <4>4 DEF Surjection, Follow
      <4>6. IsFiniteSet(1..(n + 1)) /\ Cardinality(1..(n + 1)) = n + 1
        BY FS_Interval
      <4>7. k <= n + 1
        BY <4>5, <4>6, FS_Surjection DEF k
      <4> QED
        BY <1>1, <4>7
    <3>6. s \in Chained /\ s.prev = o[n + 1].hash
      BY <3>5 DEF Linked
    <3>7. Linked(o[n + 1]) = {s}
      BY <2>2, <3>1, <3>5 DEF Follow
    <3>8. UNION {Linked(r) : r \in T} \subseteq T \union {s}
      <4> SUFFICES ASSUME NEW i \in 1..(n + 1) PROVE Linked(o[i]) \subseteq T \union {s}
        OBVIOUS
      <4>1. CASE i = n + 1
        BY <3>7, <4>1
      <4>2. CASE i # n + 1
        <5>1. i \in 1..n /\ i + 1 \in 1..(n + 1)
          BY <4>2
        <5> QED
          BY <3>4, <5>1
      <4> QED
        BY <4>1, <4>2
    <3>9. Visited[n + 1] = T \union {s}
      <4>1. o[n + 1] \in T
        OBVIOUS
      <4> QED
        BY <3>3, <3>5, <3>8, <4>1
    <3> DEFINE q == [i \in 1..(n + 2) |-> IF i = n + 2 THEN s ELSE o[i]]
    <3>10. q[n + 2] = s /\ \A i \in 1..(n + 1) : q[i] = o[i]
      OBVIOUS
    <3>11. q \in [1..(n + 2) -> Chained]
      BY <3>1, <3>6 DEF Follow
    <3>12. ASSUME NEW i \in 1..(n + 2)
           PROVE  q[i].prev = IF i = 1 THEN ChainStart ELSE q[i - 1].hash
      <4>1. CASE i = n + 2
        <5>1. i - 1 = n + 1 /\ i # 1
          BY <4>1
        <5> QED
          BY <3>6, <3>10, <4>1, <5>1
      <4>2. CASE i # n + 2
        <5>1. i \in 1..(n + 1) /\ (i # 1 => i - 1 \in 1..(n + 1))
          BY <4>2
        <5>2. q[i] = o[i] /\ (i # 1 => q[i - 1] = o[i - 1])
          BY <3>10, <5>1
        <5> QED
          BY <3>1, <5>1, <5>2 DEF Follow
      <4> QED
        BY <4>1, <4>2
    <3>13. Follow(q, n + 2)
      BY <3>11, <3>12 DEF Follow
    <3>14. \A i, j \in 1..(n + 2) : q[i] = q[j] => i = j
      <4>1. \A i \in 1..(n + 1) : q[i] \in T /\ q[i] # s
        BY <3>5, <3>10
      <4>2. \A i \in 1..(n + 2) : i = n + 2 \/ i \in 1..(n + 1)
        OBVIOUS
      <4> QED
        BY <3>1, <3>10, <4>1, <4>2
    <3>15. {q[i] : i \in 1..(n + 2)} = T \union {s}
      <4>1. \A i \in 1..(n + 2) : i = n + 2 \/ i \in 1..(n + 1)
        OBVIOUS
      <4>2. \A i \in 1..(n + 1) : i \in 1..(n + 2)
        OBVIOUS
      <4> QED
        BY <3>10, <4>1, <4>2
    <3>16. Visited[(n + 2) - 1] = {q[i] : i \in 1..(n + 2)}
      <4>1. (n + 2) - 1 = n + 1
        OBVIOUS
      <4> HIDE DEF q, T
      <4> QED
        BY <3>9, <3>15, <4>1
    <3>17. Ordered(q, n + 2)
      BY <3>13, <3>14, <3>16
    <3> HIDE DEF Ordered, q
    <3> QED
      BY <3>17
  <2>7. Nat \subseteq S
    <3> HIDE DEF S
    <3> QED
      BY <2>5, <2>6, NatsByInduction
  <2>8. PICK o : Ordered(o, k)
    <3>1. k - 1 \in Nat /\ (k - 1) + 1 = k /\ k <= k
      BY <1>1, <2>4
    <3>2. k - 1 \in S
      <4> HIDE DEF S
      <4> QED
        BY <2>7, <3>1
    <3> HIDE DEF Ordered
    <3> QED
      BY <3>1, <3>2
  <2>9. o \in [1..k -> Chained] /\ \A i, j \in 1..k : o[i] = o[j] => i = j
    BY <2>8 DEF Follow
  <2>10. o \in Surjection(1..k, Chained)
    <3>1. o \in Injection(1..k, Chained)
      BY <2>9 DEF Injection, IsInjective
    <3>2. Cardinality(1..k) = k
      BY <1>1, FS_Interval
    <3> QED
      BY <3>1, <3>2, FS_Injection DEF Hashed, k
  <2>11. \A r \in Chained : \E i \in DOMAIN o : o[i] = r
    BY <2>9, <2>10 DEF Surjection
  <2>12. \A i \in DOMAIN o : o[i].prev = IF i = 1 THEN ChainStart ELSE o[i - 1].hash
    BY <2>8, <2>9 DEF Follow
  <2>13. \A r \in Chained : ~r.edited
    BY <2>1
  <2> QED
    BY <2>9, <2>11, <2>12, <2>13 DEF IsChain, k
<1> QED
  BY <1>2, <1>3

-------------------------------------------------------------------------------
(* AuditChain: the trail *)

TrailRows == [id : Nat \ {0}, at : Nat, edited : BOOLEAN, prev : Nat, hash : Nat]
Txs == [at : Nat, rows : SUBSET TrailRows, left : Int]
Written(w) == writer[w].rows
Everything == trail \union UNION {Written(w) : w \in AuditWriters}

\* A row is in one place.
Disjoint ==
    \A w \in AuditWriters :
        /\ Written(w) \intersect trail = {}
        /\ \A v \in AuditWriters : v # w => Written(w) \intersect Written(v) = {}

\* Rows have the hash of their id or none, and no two rows have an id.
RowsApart ==
    /\ trail \subseteq TrailRows /\ IsFiniteSet(trail)
    /\ writer \in [AuditWriters -> Txs] /\ \A w \in AuditWriters : IsFiniteSet(Written(w))
    /\ \A r \in Everything : r.hash \in {NoHash, r.id} /\ r.prev # r.id
    /\ \A r, s \in Everything : r.id = s.id => r = s
    /\ Disjoint
    /\ auditNow \in Nat /\ latest \in Nat /\ chainOn \in BOOLEAN

\* A transaction in which there are chained rows holds the lock.
LockOK ==
    \A w \in AuditWriters :
        /\ \A r \in Written(w) : /\ ~r.edited /\ r.at = writer[w].at
                                 /\ r.hash = NoHash <=> ~chainOn
        /\ chainOn /\ Written(w) # {} => lock = {w} /\ writer[w].at <= latest

\* The chained rows are o[1], o[2], ... in the order of their instants.
InTime(o, n) ==
    /\ n \in Nat /\ Follow(o, n)
    /\ \A r \in Chained : \E i \in 1..n : o[i] = r
    /\ \A i, j \in 1..n : i < j => o[i].at < o[j].at
    /\ \A i \in 1..n : o[i].at <= latest
    /\ \A w \in AuditWriters : \A r \in Written(w) : r.hash # NoHash =>
         /\ Written(w) = {r}
         /\ \A i \in 1..n : o[i].at < r.at
         /\ r.prev = IF n = 0 THEN ChainStart ELSE o[n].hash

OrderOK == inOrder /\ tampered = {} => \E o, n : InTime(o, n)

\* An edit shows in the row, a removal in the row that links to nothing.
TamperedOK ==
    /\ tampered = {} => \A r \in trail : ~r.edited
    /\ tampered # {} =>
         \/ \E r \in Chained : r.edited
         \/ \E s \in Chained : /\ s.prev \in tampered /\ s.prev # ChainStart
                               /\ \A r \in Everything : r.id # s.prev

ChainInv == RowsApart /\ LockOK /\ OrderOK /\ TamperedOK

\* The empty trail is a chain, and nobody has written.
LEMMA ChainInitOK == ChainInit => ChainInv
<1> SUFFICES ASSUME ChainInit PROVE ChainInv
  OBVIOUS
<1>1. trail = {} /\ Chained = {} /\ Everything = {}
  BY DEF ChainInit, Chained, Everything, Written, NoTx
<1>2. \A w \in AuditWriters : writer[w] = [at |-> 0, rows |-> {}, left |-> 0] /\ Written(w) = {}
  BY DEF ChainInit, Written, NoTx
<1>3. RowsApart
  <2>1. [at |-> 0, rows |-> {}, left |-> 0] \in Txs
    BY DEF Txs
  <2>2. writer \in [AuditWriters -> Txs]
    BY <2>1 DEF ChainInit, NoTx
  <2>3. auditNow \in Nat /\ latest \in Nat /\ chainOn \in BOOLEAN
    BY DEF ChainInit
  <2> QED
    BY <1>1, <1>2, <2>1, <2>2, <2>3, FS_EmptySet DEF RowsApart, Disjoint
<1>4. LockOK
  BY <1>2 DEF LockOK
<1>5. InTime([i \in 1..0 |-> 0], 0)
  BY <1>1, <1>2 DEF InTime, Follow
<1> QED
  BY <1>1, <1>3, <1>4, <1>5 DEF ChainInv, OrderOK, TamperedOK, ChainInit

\* Rows that are apart have one that sorts after all others.
LEMMA LastRow ==
    ASSUME NEW S \in SUBSET TrailRows, IsFiniteSet(S), S # {},
           \A r, s \in S : r.id = s.id => r = s
    PROVE  \E r \in S : \A s \in S \ {r} : SortsBefore(s, r)
<1> DEFINE After(r) == {s \in S : SortsBefore(r, s)}
           Counts == {Cardinality(After(r)) : r \in S}
<1>1. \A r \in S : After(r) \in SUBSET S /\ IsFiniteSet(After(r)) /\ Cardinality(After(r)) \in Nat
  BY FS_Subset, FS_CardinalityType
<1>2. \A r \in S : r.id \in Nat /\ r.at \in Nat
  BY DEF TrailRows
<1>3. \E r \in S : \A s \in S : Cardinality(After(r)) <= Cardinality(After(s))
  <2> HIDE DEF After
  <2> SUFFICES ASSUME \A r \in S : \E s \in S : Cardinality(After(s)) < Cardinality(After(r))
               PROVE  FALSE
    BY <1>1
  <2> DEFINE N == {n \in Nat : \A r \in S : Cardinality(After(r)) >= n}
  <2>1. 0 \in N
    BY <1>1
  <2>2. \A n \in Nat : n \in N => n + 1 \in N
    BY <1>1
  <2>3. Nat \subseteq N
    <3> HIDE DEF N
    <3> QED
      BY <2>1, <2>2, NatsByInduction
  <2>4. PICK r \in S : TRUE
    OBVIOUS
  <2>5. Cardinality(After(r)) + 1 \in N
    BY <1>1, <2>3
  <2> QED
    BY <1>1, <2>5
<1>4. PICK r \in S : \A s \in S : Cardinality(After(r)) <= Cardinality(After(s))
  BY <1>3
<1> SUFFICES ASSUME NEW s \in S \ {r}, ~SortsBefore(s, r) PROVE FALSE
  OBVIOUS
<1>5. SortsBefore(r, s)
  BY <1>2 DEF SortsBefore
<1>6. After(s) \subseteq After(r)
  <2> SUFFICES ASSUME NEW t \in S, SortsBefore(s, t) PROVE SortsBefore(r, t)
    OBVIOUS
  <2> QED
    BY <1>2, <1>5 DEF SortsBefore
<1>7. s \in After(r) /\ s \notin After(s)
  BY <1>2, <1>5 DEF SortsBefore
<1>8. Cardinality(After(s)) <= Cardinality(After(r))
      /\ (Cardinality(After(r)) = Cardinality(After(s)) => After(r) = After(s))
  BY <1>1, <1>6, FS_Subset
<1> HIDE DEF After
<1>9. Cardinality(After(r)) = Cardinality(After(s))
  BY <1>1, <1>4, <1>8
<1> QED
  BY <1>7, <1>8, <1>9

\* What is in the trail and in the open transactions are finite sets of rows.
LEMMA TrailTyped ==
    ASSUME RowsApart
    PROVE  /\ trail \subseteq TrailRows /\ IsFiniteSet(trail)
           /\ \A w \in AuditWriters : Written(w) \subseteq TrailRows /\ IsFiniteSet(Written(w))
BY DEF RowsApart, Txs, Written

\* The row an append links to is one of those there are.
LEMMA LinkIsThere ==
    ASSUME RowsApart, NEW w \in AuditWriters
    PROVE  \/ LatestAuditHash(w) = ChainStart
           \/ \E r \in trail \union Written(w) : r.hash # NoHash /\ LatestAuditHash(w) = r.hash
<1> DEFINE chained == {r \in trail \union Written(w) : r.hash # NoHash}
           last == {r \in chained : \A s \in chained \ {r} : SortsBefore(s, r)}
<1>1. LatestAuditHash(w) = IF chained = {} THEN ChainStart ELSE (CHOOSE r \in last : TRUE).hash
  BY DEF LatestAuditHash, Written
<1>2. chained \in SUBSET TrailRows /\ IsFiniteSet(chained)
  <2>1. trail \union Written(w) \subseteq TrailRows /\ IsFiniteSet(trail \union Written(w))
    BY FS_Union, TrailTyped
  <2> QED
    BY <2>1, FS_Subset
<1>3. \A r, s \in chained : r.id = s.id => r = s
  BY DEF RowsApart, Everything
<1>4. CASE chained # {}
  <2>1. last # {}
    <3> HIDE DEF chained
    <3> QED
      BY <1>2, <1>3, <1>4, LastRow
  <2>2. (CHOOSE r \in last : TRUE) \in last
    BY <2>1
  <2> QED
    BY <1>1, <1>4, <2>2
<1> QED
  BY <1>1, <1>4

\* Steps that change one writer.
LEMMA ApartKept ==
    ASSUME RowsApart, NEW w \in AuditWriters, NEW t \in Txs, IsFiniteSet(t.rows),
           writer' = [writer EXCEPT ![w] = t],
           trail' \subseteq TrailRows, IsFiniteSet(trail'),
           \A r \in Everything' : r.hash \in {NoHash, r.id} /\ r.prev # r.id,
           \A r, s \in Everything' : r.id = s.id => r = s, Disjoint',
           auditNow' \in Nat, latest' \in Nat, chainOn' \in BOOLEAN
    PROVE  RowsApart'
<1>1. writer' \in [AuditWriters -> Txs]
  BY DEF RowsApart
<1>2. \A v \in AuditWriters : IsFiniteSet(Written(v)')
  BY DEF RowsApart, Written
<1> QED
  BY <1>1, <1>2 DEF RowsApart

\* Every id is drawn once: an append takes one that nobody has, and neither a
\* commit nor an edit makes a new one.
LEMMA ApartStep == ASSUME RowsApart, [ChainNext]_chainVars PROVE RowsApart'
<1>1. CASE UNCHANGED <<trail, writer>> /\ auditNow' \in Nat /\ latest' \in Nat /\ chainOn' \in BOOLEAN
  BY <1>1 DEF RowsApart, Everything, Written, Disjoint
<1>2. CASE UNCHANGED chainVars
  BY <1>1, <1>2 DEF chainVars, RowsApart
<1>3. CASE InstantPasses
  BY <1>1, <1>3 DEF InstantPasses, RowsApart
<1>4. CASE RestartWithSetting
  BY <1>1, <1>4 DEF RestartWithSetting, RowsApart
<1>5. ASSUME NEW w \in AuditWriters, BeginCommand(w) PROVE RowsApart'
  <2>1. writer' = [writer EXCEPT ![w] = [at |-> auditNow, rows |-> {}, left |-> RowsPerTx]]
        /\ UNCHANGED <<auditNow, chainOn, trail, latest>>
    BY <1>5 DEF BeginCommand
  <2>2. Everything' \subseteq Everything
    <3>1. \A v \in AuditWriters : Written(v)' \subseteq Written(v)
      BY <2>1 DEF RowsApart, Written
    <3> QED
      BY <2>1, <3>1 DEF Everything
  <2>3. Disjoint'
    <3>1. \A v \in AuditWriters : Written(v)' \subseteq Written(v)
      BY <2>1 DEF RowsApart, Written
    <3> QED
      BY <2>1, <3>1 DEF RowsApart, Disjoint
  <2>4. [at |-> auditNow, rows |-> {}, left |-> RowsPerTx] \in Txs
    BY AuditBounds DEF Txs, RowsApart
  <2>5. [at |-> auditNow, rows |-> {}, left |-> RowsPerTx].rows = {}
    OBVIOUS
  <2>6. /\ \A r \in Everything' : r.hash \in {NoHash, r.id} /\ r.prev # r.id
        /\ \A r, s \in Everything' : r.id = s.id => r = s
    BY <2>2 DEF RowsApart
  <2>7. /\ auditNow' \in Nat /\ latest' \in Nat /\ chainOn' \in BOOLEAN
        /\ trail' \subseteq TrailRows /\ IsFiniteSet(trail')
    BY <2>1 DEF RowsApart
  <2> QED
    BY <2>1, <2>3, <2>4, <2>5, <2>6, <2>7, ApartKept, FS_EmptySet
<1>6. ASSUME NEW w \in AuditWriters, CommitRows(w) \/ RollbackRows(w) PROVE RowsApart'
  <2>1. writer' = [writer EXCEPT ![w] = [at |-> 0, rows |-> {}, left |-> 0]]
        /\ UNCHANGED <<auditNow, chainOn, latest>>
        /\ (trail' = trail \/ trail' = trail \union Written(w))
    BY <1>6 DEF CommitRows, RollbackRows, CloseTx, NoTx, Written
  <2>2. Everything' \subseteq Everything
    <3>1. \A v \in AuditWriters : Written(v)' \subseteq Written(v)
      BY <2>1 DEF RowsApart, Written
    <3> QED
      BY <2>1, <3>1 DEF Everything
  <2>3. trail' \subseteq TrailRows /\ IsFiniteSet(trail')
    <3>1. /\ IsFiniteSet(trail) /\ IsFiniteSet(Written(w))
          /\ trail \subseteq TrailRows /\ Written(w) \subseteq TrailRows
      BY TrailTyped
    <3>2. IsFiniteSet(trail \union Written(w))
      BY <3>1, FS_Union
    <3> QED
      BY <2>1, <3>1, <3>2
  <2>4. Disjoint'
    <3>1. \A v \in AuditWriters : Written(v)' = IF v = w THEN {} ELSE Written(v)
      BY <2>1 DEF RowsApart, Written
    <3> QED
      BY <2>1, <3>1 DEF RowsApart, Disjoint
  <2>5. [at |-> 0, rows |-> {}, left |-> 0] \in Txs
    BY DEF Txs
  <2>6. [at |-> 0, rows |-> {}, left |-> 0].rows = {}
    OBVIOUS
  <2>7. /\ \A r \in Everything' : r.hash \in {NoHash, r.id} /\ r.prev # r.id
        /\ \A r, s \in Everything' : r.id = s.id => r = s
    BY <2>2 DEF RowsApart
  <2>8. auditNow' \in Nat /\ latest' \in Nat /\ chainOn' \in BOOLEAN
    BY <2>1 DEF RowsApart
  <2> QED
    BY <2>1, <2>3, <2>4, <2>5, <2>6, <2>7, <2>8, ApartKept, FS_EmptySet
<1>7. ASSUME NEW w \in AuditWriters, AppendRow(w) PROVE RowsApart'
  <2>1. PICK id \in RowIds \ UsedIds : \E new :
          /\ new = [id |-> id, at |-> writer[w].at, edited |-> FALSE,
                    prev |-> IF chainOn THEN LatestAuditHash(w) ELSE NoHash,
                    hash |-> IF chainOn THEN id ELSE NoHash]
          /\ writer' = [writer EXCEPT ![w].rows = @ \union {new}, ![w].left = @ - 1]
    BY <1>7 DEF AppendRow
  <2>2. PICK new :
          /\ new = [id |-> id, at |-> writer[w].at, edited |-> FALSE,
                    prev |-> IF chainOn THEN LatestAuditHash(w) ELSE NoHash,
                    hash |-> IF chainOn THEN id ELSE NoHash]
          /\ writer' = [writer EXCEPT ![w].rows = @ \union {new}, ![w].left = @ - 1]
    BY <2>1
  <2>3. id \in Nat \ {0} /\ \A r \in Everything : r.id # id
    BY RowIdsAssumption DEF UsedIds, Everything, Written
  <2>4. writer[w] \in Txs /\ Written(w) \in SUBSET TrailRows /\ writer[w].at \in Nat
    BY DEF RowsApart, Txs, Written
  <2> DEFINE t == [at |-> writer[w].at, rows |-> Written(w) \union {new}, left |-> writer[w].left - 1]
  <2>5. writer' = [writer EXCEPT ![w] = t]
    BY <2>2, <2>4 DEF RowsApart, Written, Txs
  <2>7. new.prev \in Nat /\ new.prev # id
    <3>1. LatestAuditHash(w) \in Nat /\ LatestAuditHash(w) # id
      <4>1. CASE LatestAuditHash(w) = ChainStart
        BY <2>3, <4>1 DEF ChainStart
      <4>2. ASSUME NEW r \in trail \union Written(w), r.hash # NoHash, LatestAuditHash(w) = r.hash
            PROVE  LatestAuditHash(w) \in Nat /\ LatestAuditHash(w) # id
        <5>1. r \in Everything /\ r \in TrailRows
          BY <4>2, TrailTyped DEF Everything
        <5> QED
          BY <2>3, <4>2, <5>1 DEF RowsApart, TrailRows
      <4> QED
        BY <4>1, <4>2, LinkIsThere
    <3> QED
      BY <2>2, <2>3, <3>1 DEF NoHash
  <2>8. new \in TrailRows /\ new.hash \in {NoHash, new.id} /\ new.id = id
    BY <2>2, <2>3, <2>4, <2>7 DEF TrailRows, NoHash
  <2>9. UNCHANGED <<auditNow, chainOn, trail>> /\ latest' \in Nat
    BY <1>7, <2>4 DEF AppendRow, RowsApart
  <2>10. Everything' \subseteq Everything \union {new}
    <3>1. \A v \in AuditWriters : Written(v)' \subseteq Written(v) \union {new}
      BY <2>5 DEF RowsApart, Written
    <3> QED
      BY <2>9, <3>1 DEF Everything
  <2>11. t \in Txs /\ IsFiniteSet(t.rows)
    <3>1. IsFiniteSet(Written(w) \union {new})
      BY FS_AddElement DEF RowsApart
    <3>2. t.rows = Written(w) \union {new}
      OBVIOUS
    <3>3. writer[w].left \in Int
      BY <2>4 DEF Txs
    <3>4. t \in Txs
      BY <2>4, <2>8, <3>3 DEF Txs
    <3> QED
      BY <3>1, <3>2, <3>4
  <2>12. /\ \A r \in Everything' : r.hash \in {NoHash, r.id} /\ r.prev # r.id
         /\ \A r, s \in Everything' : r.id = s.id => r = s
    BY <2>3, <2>7, <2>8, <2>10 DEF RowsApart
  <2>13. Disjoint'
    <3>1. \A v \in AuditWriters : Written(v)' = IF v = w THEN Written(w) \union {new} ELSE Written(v)
      BY <2>5 DEF RowsApart, Written
    <3>2. new \notin trail /\ \A v \in AuditWriters : new \notin Written(v)
      BY <2>3, <2>8 DEF Everything
    <3> QED
      BY <2>9, <3>1, <3>2 DEF RowsApart, Disjoint
  <2>14. auditNow' \in Nat /\ chainOn' \in BOOLEAN /\ trail' \subseteq TrailRows /\ IsFiniteSet(trail')
    BY <2>9 DEF RowsApart
  <2> HIDE DEF t
  <2> QED
    BY <2>5, <2>9, <2>11, <2>12, <2>13, <2>14, ApartKept
<1>8. ASSUME NEW r \in trail, EditRow(r) \/ RemoveRow(r) PROVE RowsApart'
  <2> DEFINE e == [r EXCEPT !.edited = TRUE]
  <2>1. r \in TrailRows
    BY DEF RowsApart
  <2>2. e \in TrailRows /\ e.id = r.id /\ e.hash = r.hash /\ e.prev = r.prev
    BY <2>1 DEF TrailRows
  <2>3. trail' \subseteq (trail \ {r}) \union {e} /\ UNCHANGED <<auditNow, chainOn, writer, latest>>
    BY <1>8 DEF EditRow, RemoveRow
  <2> HIDE DEF e
  <2>4. trail' \subseteq TrailRows /\ IsFiniteSet(trail')
    <3>1. IsFiniteSet((trail \ {r}) \union {e})
      BY FS_RemoveElement, FS_AddElement DEF RowsApart
    <3> QED
      BY <2>2, <2>3, <3>1, FS_Subset DEF RowsApart
  <2>5. \A v \in AuditWriters : Written(v)' = Written(v) /\ r \notin Written(v)
    BY <2>3 DEF Written, RowsApart, Disjoint
  <2>6. \A s \in Everything' : s = e \/ (s \in Everything /\ s # r)
    BY <2>3, <2>5 DEF Everything
  <2>7. r \in Everything
    BY DEF Everything
  <2>8. /\ \A s \in Everything' : s.hash \in {NoHash, s.id} /\ s.prev # s.id
        /\ \A s, t \in Everything' : s.id = t.id => s = t
    BY <2>2, <2>6, <2>7 DEF RowsApart
  <2>9. Disjoint'
    <3> SUFFICES ASSUME NEW v \in AuditWriters, e \in Written(v) PROVE e = r
      BY <2>3, <2>5 DEF RowsApart, Disjoint
    <3> QED
      BY <2>2, <2>7 DEF RowsApart, Everything
  <2> QED
    BY <2>3, <2>4, <2>5, <2>8, <2>9 DEF RowsApart
<1> QED
  BY <1>2, <1>3, <1>4, <1>5, <1>6, <1>7, <1>8 DEF ChainNext

\* The lock is taken before a chained row is written and kept to the end of the
\* transaction, and the setting changes between transactions only.
LEMMA LockStep == ASSUME RowsApart, LockOK, [ChainNext]_chainVars PROVE LockOK'
<1>1. CASE UNCHANGED chainVars
  BY <1>1 DEF chainVars, LockOK, Written
<1>2. CASE InstantPasses
  BY <1>2 DEF InstantPasses, LockOK, Written
<1>3. CASE RestartWithSetting
  BY <1>3 DEF RestartWithSetting, LockOK, Written, TxOpen, NoTx
<1>4. ASSUME NEW w \in AuditWriters, BeginCommand(w) PROVE LockOK'
  <2>1. \A v \in AuditWriters : v # w => writer'[v] = writer[v]
    BY <1>4 DEF BeginCommand, RowsApart
  <2>2. Written(w)' = {}
    BY <1>4 DEF BeginCommand, RowsApart, Written
  <2> QED
    BY <1>4, <2>1, <2>2 DEF BeginCommand, LockOK, Written
<1>5. ASSUME NEW w \in AuditWriters, CommitRows(w) \/ RollbackRows(w) PROVE LockOK'
  <2>1. /\ \A v \in AuditWriters : v # w => writer'[v] = writer[v]
        /\ Written(w)' = {} /\ lock' = lock \ {w} /\ UNCHANGED <<chainOn, latest>>
    BY <1>5 DEF CommitRows, RollbackRows, CloseTx, RowsApart, Written, NoTx
  <2> QED
    BY <2>1 DEF LockOK, Written
<1>6. ASSUME NEW w \in AuditWriters, AppendRow(w) PROVE LockOK'
  <2>0. PICK id \in RowIds \ UsedIds : \E new :
          /\ new = [id |-> id, at |-> writer[w].at, edited |-> FALSE,
                    prev |-> IF chainOn THEN LatestAuditHash(w) ELSE NoHash,
                    hash |-> IF chainOn THEN id ELSE NoHash]
          /\ writer' = [writer EXCEPT ![w].rows = @ \union {new}, ![w].left = @ - 1]
    BY <1>6 DEF AppendRow
  <2>1. PICK new :
          /\ new = [id |-> id, at |-> writer[w].at, edited |-> FALSE,
                    prev |-> IF chainOn THEN LatestAuditHash(w) ELSE NoHash,
                    hash |-> IF chainOn THEN id ELSE NoHash]
          /\ writer' = [writer EXCEPT ![w].rows = @ \union {new}, ![w].left = @ - 1]
    BY <2>0
  <2>2. new.hash = NoHash <=> ~chainOn
    BY <2>1, RowIdsAssumption DEF NoHash
  <2>3. ~new.edited /\ new.at = writer[w].at
    BY <2>1
  <2>4. /\ \A v \in AuditWriters : v # w => writer'[v] = writer[v]
        /\ Written(w)' = Written(w) \union {new} /\ writer'[w].at = writer[w].at
    BY <2>1 DEF RowsApart, Txs, Written
  <2>5. /\ chainOn' = chainOn
        /\ chainOn => lock \subseteq {w} /\ lock' = {w}
        /\ latest <= latest' /\ (chainOn => writer[w].at <= latest')
        /\ ~chainOn => lock' = lock /\ latest' = latest
    <3>1. latest \in Nat /\ writer[w].at \in Nat
      BY DEF RowsApart, Txs
    <3> QED
      BY <1>6, <3>1 DEF AppendRow, TakeLock
  <2>6. ASSUME NEW v \in AuditWriters, v # w, chainOn PROVE Written(v) = {}
    BY <2>5, <2>6 DEF LockOK
  <2>7. \A v \in AuditWriters : \A r : r \in Written(v)' =>
          /\ ~r.edited /\ r.at = writer'[v].at
          /\ r.hash = NoHash <=> ~chainOn'
    BY <2>2, <2>3, <2>4, <2>5 DEF LockOK, Written
  <2>8. \A v \in AuditWriters : chainOn' /\ Written(v)' # {} => lock' = {v} /\ writer'[v].at <= latest'
    <3> SUFFICES ASSUME NEW v \in AuditWriters, chainOn', Written(v)' # {}
                 PROVE  lock' = {v} /\ writer'[v].at <= latest'
      OBVIOUS
    <3>1. v = w
      BY <2>4, <2>5, <2>6 DEF Written
    <3> QED
      BY <2>4, <2>5, <3>1
  <2> QED
    BY <2>7, <2>8 DEF LockOK
<1>7. ASSUME NEW r \in trail, EditRow(r) \/ RemoveRow(r) PROVE LockOK'
  BY <1>7 DEF EditRow, RemoveRow, LockOK, Written
<1> QED
  BY <1>1, <1>2, <1>3, <1>4, <1>5, <1>6, <1>7 DEF ChainNext

\* No append mends what an edit or a removal has left, since ids are not drawn
\* again.
LEMMA TamperedStep ==
    ASSUME RowsApart, LockOK, TamperedOK, [ChainNext]_chainVars PROVE TamperedOK'
<1>1. CASE UNCHANGED <<trail, tampered>> /\ Everything' \subseteq Everything
  BY <1>1 DEF TamperedOK, Chained
<1>2. CASE UNCHANGED <<trail, tampered, writer>>
  BY <1>1, <1>2 DEF Everything, Written
<1>3. ASSUME NEW w \in AuditWriters, BeginCommand(w) \/ RollbackRows(w) PROVE TamperedOK'
  <2>1. UNCHANGED <<trail, tampered>> /\ \A v \in AuditWriters : Written(v)' \subseteq Written(v)
    BY <1>3 DEF BeginCommand, RollbackRows, CloseTx, NoTx, RowsApart, Written
  <2> QED
    BY <1>1, <2>1 DEF Everything
<1>4. ASSUME NEW w \in AuditWriters, CommitRows(w) PROVE TamperedOK'
  <2>1. /\ trail' = trail \union Written(w) /\ tampered' = tampered
        /\ \A v \in AuditWriters : Written(v)' \subseteq Written(v)
    BY <1>4 DEF CommitRows, CloseTx, NoTx, RowsApart, Written
  <2>2. Everything' \subseteq Everything
    BY <2>1 DEF Everything
  <2>3. Chained \subseteq Chained'
    BY <2>1 DEF Chained
  <2>4. \A r \in Written(w) : ~r.edited
    BY DEF LockOK
  <2> QED
    BY <2>1, <2>2, <2>3, <2>4 DEF TamperedOK
<1>5. ASSUME NEW w \in AuditWriters, AppendRow(w) PROVE TamperedOK'
  <2>0. PICK id \in RowIds \ UsedIds : \E new :
          /\ new.id = id
          /\ writer' = [writer EXCEPT ![w].rows = @ \union {new}, ![w].left = @ - 1]
    BY <1>5 DEF AppendRow
  <2>1. PICK new :
          /\ new.id = id
          /\ writer' = [writer EXCEPT ![w].rows = @ \union {new}, ![w].left = @ - 1]
    BY <2>0
  <2>2. UNCHANGED <<trail, tampered>>
    BY <1>5 DEF AppendRow
  <2>3. \A v \in AuditWriters : Written(v)' \subseteq Written(v) \union {new}
    BY <2>1 DEF RowsApart, Txs, Written
  <2>4. Everything' \subseteq Everything \union {new}
    BY <2>2, <2>3 DEF Everything
  <2>5. id \notin tampered
    BY DEF UsedIds
  <2> QED
    BY <2>1, <2>2, <2>4, <2>5 DEF TamperedOK, Chained
<1>6. ASSUME NEW r \in trail, EditRow(r) PROVE TamperedOK'
  <2> DEFINE e == [r EXCEPT !.edited = TRUE]
  <2>1. e.edited /\ e.hash = r.hash
    <3>1. r \in TrailRows
      BY TrailTyped
    <3> QED
      BY <3>1 DEF TrailRows
  <2>2. e \in Chained'
    BY <1>6, <2>1 DEF EditRow, Chained
  <2> QED
    BY <1>6, <2>1, <2>2 DEF EditRow, TamperedOK
<1>7. ASSUME NEW r \in trail, RemoveRow(r) PROVE TamperedOK'
  <2>1. /\ r.hash # NoHash /\ trail' = trail \ {r} /\ tampered' = {r.id} /\ writer' = writer
        /\ \E s \in trail : s.hash # NoHash /\ s.prev = r.hash
    BY <1>7 DEF RemoveRow
  <2>2. PICK s \in trail : s.hash # NoHash /\ s.prev = r.hash
    BY <2>1
  <2>3. r \in Everything /\ s \in Everything
    BY DEF Everything
  <2>4. r.hash = r.id /\ s # r
    BY <2>1, <2>2, <2>3 DEF RowsApart
  <2>5. s \in Chained' /\ s.prev \in tampered' /\ s.prev # ChainStart
    BY <2>1, <2>2, <2>4 DEF Chained, ChainStart, NoHash
  <2>6. \A t \in Everything' : t \in Everything /\ t # r
    <3>1. \A v \in AuditWriters : Written(v)' = Written(v) /\ r \notin Written(v)
      BY <2>1 DEF RowsApart, Disjoint, Written
    <3> QED
      BY <2>1, <3>1 DEF Everything
  <2>7. \A t \in Everything' : t.id # s.prev
    BY <2>2, <2>3, <2>4, <2>6 DEF RowsApart
  <2> QED
    BY <2>1, <2>5, <2>7 DEF TamperedOK
<1>8. CASE UNCHANGED chainVars \/ InstantPasses \/ RestartWithSetting
  BY <1>2, <1>8 DEF chainVars, InstantPasses, RestartWithSetting
<1> QED
  BY <1>3, <1>4, <1>5, <1>6, <1>7, <1>8 DEF ChainNext

\* Steps that add no chained row to the trail.
LEMMA InTimeKept ==
    ASSUME NEW o, NEW n, InTime(o, n), RowsApart, Chained' = Chained,
           latest' \in Nat, latest <= latest',
           \A w \in AuditWriters :
              \/ Written(w)' = Written(w)
              \/ \A r \in Written(w)' : r.hash = NoHash
    PROVE  InTime(o, n)'
<1>1. n \in Nat /\ Follow(o, n)'
  BY DEF InTime, Follow
<1>2. \A i \in 1..n : o[i] \in TrailRows /\ o[i].at \in Nat
  <2>1. Chained \subseteq TrailRows
    BY TrailTyped DEF Chained
  <2> QED
    BY <2>1 DEF InTime, Follow, TrailRows
<1>3. \A i \in 1..n : o[i].at <= latest'
  BY <1>2 DEF InTime, RowsApart
<1>4. \A w \in AuditWriters : \A r \in Written(w)' : r.hash # NoHash =>
         /\ Written(w)' = {r}
         /\ \A i \in 1..n : o[i].at < r.at
         /\ r.prev = IF n = 0 THEN ChainStart ELSE o[n].hash
  BY DEF InTime
<1> QED
  BY <1>1, <1>3, <1>4 DEF InTime

\* An append under the lock links to the row that was appended last.
LEMMA LinkIsLast ==
    ASSUME RowsApart, NEW o, NEW n, InTime(o, n), NEW w \in AuditWriters, Written(w) = {}
    PROVE  LatestAuditHash(w) = IF n = 0 THEN ChainStart ELSE o[n].hash
<1> DEFINE last == {r \in Chained : \A s \in Chained \ {r} : SortsBefore(s, r)}
<1>1. LatestAuditHash(w) = IF Chained = {} THEN ChainStart ELSE (CHOOSE r \in last : TRUE).hash
  BY DEF LatestAuditHash, Written, Chained
<1>2. /\ n \in Nat /\ o \in [1..n -> Chained] /\ \A r \in Chained : \E i \in 1..n : o[i] = r
      /\ \A i, j \in 1..n : i < j => o[i].at < o[j].at
  BY DEF InTime, Follow
<1>3. CASE n = 0
  <2>1. Chained = {}
    BY <1>2, <1>3
  <2> QED
    BY <1>1, <1>3, <2>1
<1>4. CASE n # 0
  <2>1. n \in 1..n /\ o[n] \in Chained
    BY <1>2, <1>4
  <2>2. \A r \in Chained : r.at \in Nat
    BY TrailTyped DEF Chained, TrailRows
  <2>3. \A s \in Chained \ {o[n]} : s.at < o[n].at
    <3> SUFFICES ASSUME NEW i \in 1..n, o[i] # o[n] PROVE o[i].at < o[n].at
      BY <1>2
    <3>1. i < n
      BY <1>2
    <3> QED
      BY <1>2, <2>1, <3>1
  <2>4. last = {o[n]}
    <3>1. o[n] \in last
      BY <2>1, <2>3 DEF SortsBefore
    <3>2. ASSUME NEW r \in last, r # o[n] PROVE FALSE
      <4>1. r.at < o[n].at /\ SortsBefore(o[n], r)
        BY <2>1, <2>3, <3>2
      <4> QED
        BY <2>1, <2>2, <4>1 DEF SortsBefore
    <3> QED
      BY <3>1, <3>2
  <2>5. (CHOOSE r \in last : TRUE) = o[n]
    BY <2>4
  <2> QED
    BY <1>1, <1>4, <2>1, <2>5
<1> QED
  BY <1>3, <1>4

\* Whoever holds the lock appends to the last row, and commits before anybody
\* else appends.
LEMMA OrderStep == ASSUME ChainInv, [ChainNext]_chainVars PROVE OrderOK'
<1> SUFFICES ASSUME inOrder', tampered' = {} PROVE \E o, n : InTime(o, n)'
  BY DEF OrderOK
<1>1. inOrder /\ tampered = {} /\ ~\E r \in trail : EditRow(r) \/ RemoveRow(r)
  BY DEF ChainNext, chainVars, InstantPasses, RestartWithSetting, BeginCommand, AppendRow,
         CommitRows, RollbackRows, CloseTx, EditRow, RemoveRow
<1>2. PICK o, n : InTime(o, n)
  BY <1>1 DEF ChainInv, OrderOK
<1>3. RowsApart /\ LockOK
  BY DEF ChainInv
<1>4. latest \in Nat
  BY <1>3 DEF RowsApart
<1>5. CASE UNCHANGED chainVars \/ InstantPasses \/ RestartWithSetting
  <2>1. UNCHANGED <<trail, writer, latest>>
    BY <1>5 DEF chainVars, InstantPasses, RestartWithSetting
  <2>2. Chained' = Chained /\ \A w \in AuditWriters : Written(w)' = Written(w)
    BY <2>1 DEF Chained, Written
  <2>3. InTime(o, n)'
    BY <1>2, <1>3, <1>4, <2>1, <2>2, InTimeKept
  <2> QED
    BY <2>3
<1>6. ASSUME NEW w \in AuditWriters, BeginCommand(w) \/ RollbackRows(w) PROVE \E q, m : InTime(q, m)'
  <2>1. UNCHANGED <<trail, latest>> /\ Written(w)' = {}
        /\ \A v \in AuditWriters : v # w => Written(v)' = Written(v)
    <3>1. CASE BeginCommand(w)
      BY <1>3, <3>1 DEF BeginCommand, RowsApart, Written
    <3>2. CASE RollbackRows(w)
      BY <1>3, <3>2 DEF RollbackRows, CloseTx, NoTx, RowsApart, Written
    <3> QED
      BY <1>6, <3>1, <3>2
  <2>2. Chained' = Chained
    BY <2>1 DEF Chained
  <2>3. InTime(o, n)'
    BY <1>2, <1>3, <1>4, <2>1, <2>2, InTimeKept
  <2> QED
    BY <2>3
<1>7. ASSUME NEW w \in AuditWriters, AppendRow(w) PROVE \E q, m : InTime(q, m)'
  <2>0. PICK id \in RowIds \ UsedIds : \E new :
          /\ new = [id |-> id, at |-> writer[w].at, edited |-> FALSE,
                    prev |-> IF chainOn THEN LatestAuditHash(w) ELSE NoHash,
                    hash |-> IF chainOn THEN id ELSE NoHash]
          /\ writer' = [writer EXCEPT ![w].rows = @ \union {new}, ![w].left = @ - 1]
    BY <1>7 DEF AppendRow
  <2>1. PICK new :
          /\ new = [id |-> id, at |-> writer[w].at, edited |-> FALSE,
                    prev |-> IF chainOn THEN LatestAuditHash(w) ELSE NoHash,
                    hash |-> IF chainOn THEN id ELSE NoHash]
          /\ writer' = [writer EXCEPT ![w].rows = @ \union {new}, ![w].left = @ - 1]
    BY <2>0
  <2>2. /\ \A v \in AuditWriters : v # w => Written(v)' = Written(v)
        /\ Written(w)' = Written(w) \union {new}
    BY <1>3, <2>1 DEF RowsApart, Txs, Written
  <2>3. /\ Chained' = Chained /\ (chainOn => latest < writer[w].at)
        /\ latest' = IF chainOn /\ latest < writer[w].at THEN writer[w].at ELSE latest
    BY <1>7 DEF AppendRow, Chained
  <2>4. writer[w].at \in Nat
    BY <1>3 DEF RowsApart, Txs
  <2>5. latest' \in Nat /\ latest <= latest'
    BY <1>4, <2>3, <2>4
  <2>6. CASE ~chainOn
    <3>1. \A r \in Written(w)' : r.hash = NoHash
      BY <1>3, <2>1, <2>2, <2>6 DEF LockOK
    <3>2. InTime(o, n)'
      BY <1>2, <1>3, <2>2, <2>3, <2>5, <3>1, InTimeKept
    <3> QED
      BY <3>2
  <2>7. CASE chainOn
    <3>1. lock \subseteq {w}
      BY <1>7, <2>7 DEF AppendRow, TakeLock
    <3>2. Written(w) = {}
      BY <1>3, <1>4, <2>3, <2>4, <2>7 DEF LockOK
    <3>3. \A v \in AuditWriters : v # w => Written(v) = {}
      BY <1>3, <2>7, <3>1 DEF LockOK
    <3>4. new.prev = IF n = 0 THEN ChainStart ELSE o[n].hash
      BY <1>2, <1>3, <2>1, <2>7, <3>2, LinkIsLast
    <3>5. new.at = writer[w].at
      BY <2>1
    <3>6. \A i \in 1..n : o[i] \in Chained /\ o[i].at \in Nat /\ o[i].at <= latest
      <4>1. \A r \in Chained : r.at \in Nat
        BY <1>3, TrailTyped DEF Chained, TrailRows
      <4> QED
        BY <1>2, <4>1 DEF InTime, Follow
    <3>7. \A i \in 1..n : o[i].at < new.at /\ o[i].at <= latest'
      BY <1>4, <2>3, <2>4, <2>5, <2>7, <3>5, <3>6
    <3>8. \A v \in AuditWriters : \A r \in Written(v)' : r = new /\ Written(v)' = {new}
      BY <2>2, <3>2, <3>3
    <3>9. Follow(o, n)' /\ n \in Nat
      BY <1>2, <2>3 DEF InTime, Follow
    <3>10. InTime(o, n)'
      BY <1>2, <2>3, <3>4, <3>7, <3>8, <3>9 DEF InTime
    <3> QED
      BY <3>10
  <2> QED
    BY <2>6, <2>7
<1>8. ASSUME NEW w \in AuditWriters, CommitRows(w) PROVE \E q, m : InTime(q, m)'
  <2>1. /\ trail' = trail \union Written(w) /\ latest' = latest /\ Written(w)' = {}
        /\ \A v \in AuditWriters : v # w => Written(v)' = Written(v)
    BY <1>3, <1>8 DEF CommitRows, CloseTx, NoTx, RowsApart, Written
  <2>2. CASE \A r \in Written(w) : r.hash = NoHash
    <3>1. Chained' = Chained
      BY <2>1, <2>2 DEF Chained
    <3>2. InTime(o, n)'
      BY <1>2, <1>3, <1>4, <2>1, <3>1, InTimeKept
    <3> QED
      BY <3>2
  <2>3. ASSUME NEW r \in Written(w), r.hash # NoHash PROVE \E q, m : InTime(q, m)'
    <3>1. /\ n \in Nat /\ o \in [1..n -> Chained]
          /\ \A i \in 1..n : o[i].prev = IF i = 1 THEN ChainStart ELSE o[i - 1].hash
          /\ \A s \in Chained : \E i \in 1..n : o[i] = s
          /\ \A i, j \in 1..n : i < j => o[i].at < o[j].at
          /\ \A i \in 1..n : o[i].at <= latest
      BY <1>2 DEF InTime, Follow
    <3>2. /\ Written(w) = {r} /\ \A i \in 1..n : o[i].at < r.at
          /\ r.prev = IF n = 0 THEN ChainStart ELSE o[n].hash
      BY <1>2, <2>3 DEF InTime
    <3>3. chainOn /\ lock = {w} /\ r.at <= latest
      BY <1>3, <2>3 DEF LockOK
    <3>4. \A v \in AuditWriters : Written(v)' = {}
      BY <1>3, <2>1, <3>3 DEF LockOK
    <3>5. Chained' = Chained \union {r}
      BY <2>1, <2>3, <3>2 DEF Chained
    <3> DEFINE q == [i \in 1..(n + 1) |-> IF i = n + 1 THEN r ELSE o[i]]
    <3>6. q[n + 1] = r /\ \A i \in 1..n : q[i] = o[i]
      BY <3>1
    <3>7. \A i \in 1..(n + 1) : i = n + 1 \/ i \in 1..n
      BY <3>1
    <3>8. q \in [1..(n + 1) -> Chained']
      BY <3>1, <3>5
    <3> HIDE DEF q
    <3>9. ASSUME NEW i \in 1..(n + 1)
          PROVE  q[i].prev = IF i = 1 THEN ChainStart ELSE q[i - 1].hash
      <4>1. CASE i = n + 1
        <5>1. i - 1 = n /\ (n # 0 => n \in 1..n) /\ (i = 1 <=> n = 0)
          BY <3>1, <4>1
        <5> QED
          BY <3>2, <3>6, <4>1, <5>1
      <4>2. CASE i # n + 1
        <5>1. i \in 1..n /\ (i # 1 => i - 1 \in 1..n)
          BY <3>1, <4>2
        <5> QED
          BY <3>1, <3>6, <5>1
      <4> QED
        BY <4>1, <4>2
    <3>10. \A s \in Chained' : \E i \in 1..(n + 1) : q[i] = s
      <4>1. n + 1 \in 1..(n + 1) /\ 1..n \subseteq 1..(n + 1)
        BY <3>1
      <4> QED
        BY <3>1, <3>5, <3>6, <4>1
    <3>11. \A i, j \in 1..(n + 1) : i < j => q[i].at < q[j].at
      <4> SUFFICES ASSUME NEW i \in 1..(n + 1), NEW j \in 1..(n + 1), i < j
                   PROVE  q[i].at < q[j].at
        OBVIOUS
      <4>1. i \in 1..n
        BY <3>1
      <4> QED
        BY <3>1, <3>2, <3>6, <3>7, <4>1
    <3>12. \A i \in 1..(n + 1) : q[i].at <= latest'
      BY <2>1, <3>1, <3>3, <3>6, <3>7
    <3>13. n + 1 \in Nat /\ n + 1 # 0
      BY <3>1
    <3>14. InTime(q, n + 1)'
      BY <3>4, <3>8, <3>9, <3>10, <3>11, <3>12, <3>13 DEF InTime, Follow
    <3> QED
      BY <3>14
  <2> QED
    BY <2>2, <2>3
<1> QED
  BY <1>1, <1>5, <1>6, <1>7, <1>8 DEF ChainNext

\* All of it holds of every state.
LEMMA ChainInvariant == ChainSpec => []ChainInv
<1>1. ChainInv /\ [ChainNext]_chainVars => ChainInv'
  BY ApartStep, LockStep, OrderStep, TamperedStep DEF ChainInv
<1> QED
  BY <1>1, ChainInitOK, PTL DEF ChainSpec

\* What VerifyChain presupposes of a trail.
LEMMA TrailIsHashed == ASSUME ChainInv PROVE Hashed
<1>1. IsFiniteSet(Chained)
  BY TrailTyped, FS_Subset DEF ChainInv, Chained
<1>2. Chained \subseteq Everything /\ \A r \in Chained : r.hash = r.id /\ r.hash # ChainStart
  BY DEF ChainInv, RowsApart, Chained, Everything, ChainStart, NoHash
<1> QED
  BY <1>1, <1>2 DEF Hashed, ChainInv, RowsApart

\* The verification, a walk from the head along the links, accepts exactly the
\* trails that are one unedited chain, for any number of rows, writers and
\* restarts (audit_chain.go, VerifyChain).
THEOREM VerificationDecides == ChainSpec => []VerifyDecidesChain
<1>1. ChainInv => VerifyDecidesChain
  BY TrailIsHashed, ChainIsAccepted, AcceptedIsChain DEF VerifyDecidesChain
<1> QED
  BY <1>1, ChainInvariant, PTL

\* Under the advisory lock concurrent appends do not fork the chain, as long as
\* the instants grow with the order of the appends (audit.go, stampChain).
THEOREM OrderedTrailsVerify == ChainSpec => []OrderedChainVerifies
<1>1. ASSUME ChainInv, inOrder, tampered = {} PROVE VerifyChain
  <2>1. PICK o, n : InTime(o, n)
    BY <1>1 DEF ChainInv, OrderOK
  <2>2. /\ n \in Nat /\ o \in [1..n -> Chained]
        /\ \A i \in 1..n : o[i].prev = IF i = 1 THEN ChainStart ELSE o[i - 1].hash
        /\ \A s \in Chained : \E i \in 1..n : o[i] = s
        /\ \A i, j \in 1..n : i < j => o[i].at < o[j].at
    BY <2>1 DEF InTime, Follow
  <2>3. \A r \in Chained : r.at \in Nat /\ ~r.edited
    BY <1>1, TrailTyped DEF ChainInv, TamperedOK, Chained, TrailRows
  <2>4. \A i, j \in 1..n : o[i] = o[j] => i = j
    <3> SUFFICES ASSUME NEW i \in 1..n, NEW j \in 1..n, o[i] = o[j], i < j PROVE FALSE
      BY <2>2
    <3>1. o[i].at \in Nat /\ o[i].at < o[j].at
      BY <2>2, <2>3
    <3> QED
      BY <3>1
  <2>5. n = Cardinality(Chained)
    <3>1. o \in Surjection(1..n, Chained)
      BY <2>2 DEF Surjection
    <3>2. o \in Injection(1..n, Chained)
      BY <2>2, <2>4 DEF Injection, IsInjective
    <3>3. IsFiniteSet(1..n) /\ Cardinality(1..n) = n
      BY <2>2, FS_Interval
    <3> QED
      BY <3>1, <3>2, <3>3, FS_Surjection
  <2>6. IsChain
    BY <2>2, <2>3, <2>5 DEF IsChain
  <2> QED
    BY <1>1, <2>6, TrailIsHashed, ChainIsAccepted
<1>2. ChainInv => OrderedChainVerifies
  BY <1>1 DEF OrderedChainVerifies
<1> QED
  BY <1>2, ChainInvariant, PTL

\* One edit of a chained row, or the removal of a row another one links to, is
\* seen for ever after, whatever is appended (audit_chain.go).
THEOREM TamperingShows == ChainSpec => []TamperingIsSeen
<1>1. ASSUME ChainInv, tampered # {}, VerifyChain PROVE FALSE
  <2>1. CASE \E r \in Chained : r.edited
    <3>1. IsChain
      BY <1>1, TrailIsHashed, AcceptedIsChain
    <3> QED
      BY <2>1, <3>1 DEF IsChain
  <2>2. ASSUME NEW s \in Chained, s.prev # ChainStart, \A r \in Everything : r.id # s.prev
        PROVE  FALSE
    <3>1. PICK r \in Chained : r.hash = s.prev
      BY <1>1, <2>2 DEF VerifyChain
    <3>2. r \in Everything /\ r.hash = r.id
      BY <1>1 DEF ChainInv, RowsApart, Chained, Everything
    <3> QED
      BY <2>2, <3>1, <3>2
  <2> QED
    BY <1>1, <2>1, <2>2 DEF ChainInv, TamperedOK
<1>2. ChainInv => TamperingIsSeen
  BY <1>1 DEF TamperingIsSeen
<1> QED
  BY <1>2, ChainInvariant, PTL
===============================================================================
