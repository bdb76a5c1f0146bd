------------------------------ MODULE KevCatalog ------------------------------
(***************************************************************************)
(* Removals from the KEV catalog: source_pass.go, the queries of           *)
(* evidences.sql and priority_factors.sql, sources/kev/normalize.go and    *)
(* the KEV factor of repo/priorityfactor.go.  Every stored catalog is      *)
(* normalised by a job; the pass states each entry (kev) and each CVE of   *)
(* the previous catalog that it misses (kev_removed), where previous is    *)
(* the newest other catalog stored when the pass begins.                   *)
(*                                                                         *)
(* Catalogs are numbered in the order they are fetched; instants are       *)
(* numbered by the passes that read the clock.                             *)
(***************************************************************************)
EXTENDS Naturals, Sequences, FiniteSets, FiniteSetsExt

CONSTANTS Listed,        \* Listed[d]: the CVEs in catalog d
          KevCVEs,
          KevWorkers,    \* worker processes
          MaxBacklog,    \* bound: catalogs stored and not yet normalised
          MaxPutOff      \* bound: failed passes and jobs delivered once more

ASSUME ListedAssumption == Listed \in Seq(SUBSET KevCVEs)
ASSUME KevBounds == {MaxBacklog, MaxPutOff} \subseteq Nat

VARIABLES raw,        \* the number of catalogs stored
          kevJobs,    \* catalogs whose source.normalize job is open
          delayed,    \* open jobs that wait for a retry
          evidences,  \* rows of type kev and kev_removed
          instant,    \* passes begun
          pass,       \* pass[w]: the pass of worker w, doc = 0 for none
          putOff

kevVars == <<raw, kevJobs, delayed, evidences, instant, pass, putOff>>

Catalogs == DOMAIN Listed
NoPass == [doc |-> 0, at |-> 0, previous |-> {}]

KevTypeOK ==
    /\ raw \in {0} \union Catalogs
    /\ kevJobs \subseteq 1..raw /\ delayed \subseteq kevJobs
    /\ \A e \in evidences : /\ e.raw \in 1..raw /\ e.cve \in KevCVEs /\ e.at \in 1..instant
                            /\ e.type = "kev" <=> e.cve \in Listed[e.raw]
                            /\ e.type \in {"kev", "kev_removed"}
    /\ \A d, e \in evidences : d # e => <<d.raw, d.type, d.cve>> # <<e.raw, e.type, e.cve>>
    /\ \A w \in KevWorkers : pass[w].doc \in 0..raw /\ pass[w].previous \subseteq KevCVEs
    /\ putOff \in 0..MaxPutOff

KevInit ==
    /\ raw = 0 /\ kevJobs = {} /\ delayed = {} /\ evidences = {} /\ instant = 0
    /\ pass = [w \in KevWorkers |-> NoPass] /\ putOff = 0

StoreCatalog ==
    /\ raw + 1 \in Catalogs /\ Cardinality(kevJobs) < MaxBacklog
    /\ raw' = raw + 1
    /\ kevJobs' = kevJobs \union {raw + 1}
    /\ UNCHANGED <<delayed, evidences, instant, pass, putOff>>

\* ListPreviousKEVCVEs: what the newest other catalog is known to list.
PreviousOf(d) ==
    LET others == (1..raw) \ {d} IN
    {e.cve : e \in {x \in evidences : /\ others # {} /\ x.raw = Max(others)
                                      /\ x.type = "kev"}}

InHand == {pass[w].doc : w \in KevWorkers}

\* The relay hands the oldest due job to a worker; the previous set is read
\* outside the transaction of the pass.
BeginKevPass(w) ==
    \E d \in kevJobs \ InHand :
        /\ pass[w].doc = 0
        /\ d \notin delayed => \A e \in kevJobs \ (InHand \union delayed) : d <= e
        /\ instant' = instant + 1
        /\ pass' = [pass EXCEPT ![w] = [doc |-> d, at |-> instant + 1, previous |-> PreviousOf(d)]]
        /\ delayed' = delayed \ {d}
        /\ UNCHANGED <<raw, kevJobs, evidences, putOff>>

Removed(d, previous) == previous \ Listed[d]

\* A statement the catalog has made before keeps its row and its instant.
StateOnce(rows) ==
    evidences' = evidences \union
        {r \in rows : \A e \in evidences : <<e.raw, e.type, e.cve>> # <<r.raw, r.type, r.cve>>}

PutOff(d) == putOff < MaxPutOff /\ putOff' = putOff + 1 /\ delayed' = delayed \union {d}

\* The pass commits; its job is settled, or delivered once more.
CommitKevPass(w) ==
    LET d == pass[w].doc
        row(type, c) == [raw |-> d, type |-> type, cve |-> c, at |-> pass[w].at]
    IN /\ d # 0
       /\ StateOnce({row("kev", c) : c \in Listed[d]}
                 \union {row("kev_removed", c) : c \in Removed(d, pass[w].previous)})
       /\ pass' = [pass EXCEPT ![w] = NoPass]
       /\ \/ kevJobs' = kevJobs \ {d} /\ UNCHANGED <<delayed, putOff>>
          \/ PutOff(d) /\ UNCHANGED kevJobs
       /\ UNCHANGED <<raw, instant>>

KevPassFails(w) ==
    /\ pass[w].doc # 0 /\ PutOff(pass[w].doc)
    /\ pass' = [pass EXCEPT ![w] = NoPass]
    /\ UNCHANGED <<raw, kevJobs, evidences, instant>>

\* Mutant of KEV: a removal does not count.
KEVEver(c) == \E e \in evidences : e.cve = c /\ e.type = "kev"

\* factorsFromSource: listed, and not removed after the newest listing.
KEV(c) ==
    LET of(type) == {e.at : e \in {x \in evidences : x.cve = c /\ x.type = type}}
    IN of("kev") # {} /\ (of("kev_removed") # {} => Max(of("kev_removed")) <= Max(of("kev")))

KevNext == \/ StoreCatalog
           \/ \E w \in KevWorkers : BeginKevPass(w) \/ CommitKevPass(w) \/ KevPassFails(w)

KevSpec == KevInit /\ [][KevNext]_kevVars

-------------------------------------------------------------------------------
(* Properties *)

\* When every stored catalog is normalised, the KEV factor of a CVE is whether
\* the newest catalog lists it.
FactorFollowsCatalog ==
    kevJobs = {} /\ raw > 0 => \A c \in KevCVEs : KEV(c) <=> c \in Listed[raw]

\* evidences.sql: "removals are historised, never silently dropped".
RemovalIsHistorised ==
    \A d \in 2..raw : {d - 1, d} \intersect kevJobs = {} =>
        \A c \in Listed[d - 1] \ Listed[d] :
            \E e \in evidences : e.raw = d /\ e.type = "kev_removed" /\ e.cve = c
===============================================================================
