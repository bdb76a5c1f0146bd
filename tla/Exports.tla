-------------------------------- MODULE Exports --------------------------------
(***************************************************************************)
(* Exports: create_export.go, generate_export.go, download_export.go,      *)
(* sweep_exports.go, repo/export.go, export/spool.go and the worker's      *)
(* export.generate job and sweep.  A command inserts a pending row and its *)
(* job; the job scans the signals, writes the artifact under the export's  *)
(* key and stamps the row; a sweep removes the expired artifacts.          *)
(*                                                                         *)
(* The content of an artifact, and so its checksum, is the version of the  *)
(* signals and rules it was made of.                                       *)
(***************************************************************************)
EXTENDS Naturals, FiniteSets

CONSTANTS ExportIds,
          Generators,      \* workers that deliver export.generate
          Sweepers,        \* workers that sweep
          Readers,         \* users who download
          ExportTTL,       \* export.ttl
          MaxExportNow,    \* bound: the clock
          MaxVersions,     \* bound: changes of the signals
          MaxExportFaults, \* bound: failures and crashes
          MaxOverlaps      \* bound: deliveries beside a running one

ASSUME ExportBounds ==
    {ExportTTL, MaxExportNow, MaxVersions, MaxExportFaults, MaxOverlaps} \subseteq Nat

VARIABLES expNow, version,
          row,       \* row[e]: the row of exports
          spool,     \* spool[e]: the content of the artifact, or none
          jobs,      \* jobs[e]: none, queued or settled
          gen,       \* gen[g]: the generation in worker g
          sweep,     \* sweep[v]: the rows v has listed, and whether it removed the artifact
          reader,    \* reader[d]: the row that d's download has read
          served,    \* history: stamped and served content
          expFaults, overlaps

exportVars == <<expNow, version, row, spool, jobs, gen, sweep, reader, served, expFaults, overlaps>>

NoContent == 0
NoRow == [status |-> "none", stamp |-> NoContent, created |-> 0, expires |-> 0]
NoGen == [pc |-> "idle", of |-> CHOOSE e \in ExportIds : TRUE, at |-> 0, content |-> NoContent]
NoSweep == [list |-> {}, removed |-> {}]

ExportTypeOK ==
    /\ expNow \in 0..MaxExportNow /\ version \in 1..MaxVersions
    /\ \A e \in ExportIds :
         /\ row[e].status \in {"none", "pending", "failed", "completed", "expired"}
         /\ row[e].stamp \in 0..version /\ row[e].created \in 0..expNow
         /\ row[e].expires \in 0..(expNow + ExportTTL)
         /\ row[e].status \in {"completed", "expired"} <=> row[e].stamp # NoContent
    /\ spool \in [ExportIds -> 0..version]
    /\ jobs \in [ExportIds -> {"none", "queued", "settled"}]
    /\ \A g \in Generators : gen[g].pc \in {"idle", "scan", "write", "mark"}
    /\ \A v \in Sweepers : sweep[v].removed \subseteq sweep[v].list
    /\ \A d \in Readers : reader[d] \subseteq ExportIds \X (1..version)

ExportInit ==
    /\ expNow = 0 /\ version = 1
    /\ row = [e \in ExportIds |-> NoRow]
    /\ spool = [e \in ExportIds |-> NoContent]
    /\ jobs = [e \in ExportIds |-> "none"]
    /\ gen = [g \in Generators |-> NoGen]
    /\ sweep = [v \in Sweepers |-> NoSweep]
    /\ reader = [d \in Readers |-> {}] /\ served = {}
    /\ expFaults = 0 /\ overlaps = 0

ExportFault == expFaults < MaxExportFaults /\ expFaults' = expFaults + 1

TimePasses ==
    /\ expNow < MaxExportNow /\ expNow' = expNow + 1
    /\ UNCHANGED <<version, row, spool, jobs, gen, sweep, reader, served, expFaults, overlaps>>

SignalsChange ==
    /\ version < MaxVersions /\ version' = version + 1
    /\ UNCHANGED <<expNow, row, spool, jobs, gen, sweep, reader, served, expFaults, overlaps>>

-------------------------------------------------------------------------------
(* Creation and generation. *)

\* Mutant of JobOf: the row is committed without its job.
NoJobOf(e) == UNCHANGED jobs

JobOf(e) == jobs' = [jobs EXCEPT ![e] = "queued"]

CreateExport(e) ==
    /\ row[e].status = "none"
    /\ row' = [row EXCEPT ![e].status = "pending", ![e].created = expNow]
    /\ JobOf(e)
    /\ UNCHANGED <<expNow, version, spool, gen, sweep, reader, served, expFaults, overlaps>>

\* A delivery; beside another one only when that one's lease has run out.
StartGenerate(g, e) ==
    /\ gen[g].pc = "idle" /\ jobs[e] = "queued"
    /\ IF \E h \in Generators : gen[h].pc # "idle" /\ gen[h].of = e
       THEN overlaps < MaxOverlaps /\ overlaps' = overlaps + 1
       ELSE UNCHANGED overlaps
    /\ IF row[e].status \in {"completed", "expired"}
       THEN UNCHANGED gen /\ jobs' = [jobs EXCEPT ![e] = "settled"]
       ELSE gen' = [gen EXCEPT ![g] = [NoGen EXCEPT !.pc = "scan", !.of = e, !.at = expNow]]
            /\ UNCHANGED jobs
    /\ UNCHANGED <<expNow, version, row, spool, sweep, reader, served, expFaults>>

Scan(g) ==
    /\ gen[g].pc = "scan"
    /\ gen' = [gen EXCEPT ![g].pc = "write", ![g].content = version]
    /\ UNCHANGED <<expNow, version, row, spool, jobs, sweep, reader, served, expFaults, overlaps>>

\* Mutant of Stored: an artifact that is already there is kept.
StoredOnce(e, content) == IF spool[e] = NoContent THEN content ELSE spool[e]

Stored(e, content) == content

\* A temporary file renamed to the export's key.
WriteArtifact(g) ==
    /\ gen[g].pc = "write"
    /\ spool' = [spool EXCEPT ![gen[g].of] = Stored(gen[g].of, gen[g].content)]
    /\ gen' = [gen EXCEPT ![g].pc = "mark"]
    /\ UNCHANGED <<expNow, version, row, jobs, sweep, reader, served, expFaults, overlaps>>

Unstamped(e) == row[e].status \in {"pending", "failed"}

\* A row that is stamped already is a conflict, which is permanent.
MarkCompleted(g) ==
    LET e == gen[g].of IN
    /\ gen[g].pc = "mark"
    /\ row' = IF Unstamped(e)
              THEN [row EXCEPT ![e].status = "completed", ![e].stamp = gen[g].content,
                               ![e].expires = gen[g].at + ExportTTL]
              ELSE row
    /\ jobs' = [jobs EXCEPT ![e] = "settled"]
    /\ gen' = [gen EXCEPT ![g] = NoGen]
    /\ UNCHANGED <<expNow, version, spool, sweep, reader, served, expFaults, overlaps>>

Failable(e) == row[e].status \in {"pending", "failed"}

\* The scan or the write fails, and the job comes again; or there are too many
\* rows, or its attempts are used up.
GenerateFails(g) ==
    LET e == gen[g].of IN
    /\ gen[g].pc \in {"scan", "write"} /\ ExportFault
    /\ row' = IF Failable(e) THEN [row EXCEPT ![e].status = "failed"] ELSE row
    /\ jobs' \in {jobs, [jobs EXCEPT ![e] = "settled"]}
    /\ gen' = [gen EXCEPT ![g] = NoGen]
    /\ UNCHANGED <<expNow, version, spool, sweep, reader, served, overlaps>>

\* The worker dies, or the stamp's transaction fails: the job comes again.
GeneratorDies(g) ==
    /\ gen[g].pc # "idle" /\ ExportFault
    /\ gen' = [gen EXCEPT ![g] = NoGen]
    /\ UNCHANGED <<expNow, version, row, spool, jobs, sweep, reader, served, overlaps>>

-------------------------------------------------------------------------------
(* Download. *)

ReadExport(d, e) ==
    /\ reader[d] = {}
    /\ row[e].status = "completed" /\ expNow < row[e].expires
    /\ reader' = [reader EXCEPT ![d] = {<<e, row[e].stamp>>}]
    /\ UNCHANGED <<expNow, version, row, spool, jobs, gen, sweep, served, expFaults, overlaps>>

\* A missing artifact is an error; one that is there is streamed and audited.
OpenArtifact(d) ==
    /\ \E r \in reader[d] :
          served' = IF spool[r[1]] = NoContent THEN served
                    ELSE served \union {<<r[2], spool[r[1]]>>}
    /\ reader' = [reader EXCEPT ![d] = {}]
    /\ UNCHANGED <<expNow, version, row, spool, jobs, gen, sweep, expFaults, overlaps>>

-------------------------------------------------------------------------------
(* The sweep. *)

DueForSweep == {e \in ExportIds : row[e].status = "completed" /\ row[e].expires <= expNow}

BeginSweep(v) ==
    /\ sweep[v].list = {} /\ DueForSweep # {}
    /\ sweep' = [sweep EXCEPT ![v] = [list |-> DueForSweep, removed |-> {}]]
    /\ UNCHANGED <<expNow, version, row, spool, jobs, gen, reader, served, expFaults, overlaps>>

\* A failure to remove the artifact is ignored.
RemoveArtifact(v) ==
    /\ \E e \in sweep[v].list \ sweep[v].removed :
         /\ sweep' = [sweep EXCEPT ![v].removed = @ \union {e}]
         /\ \/ spool' = [spool EXCEPT ![e] = NoContent] /\ UNCHANGED expFaults
            \/ ExportFault /\ UNCHANGED spool
    /\ sweep[v].removed = {}
    /\ UNCHANGED <<expNow, version, row, jobs, gen, reader, served, overlaps>>

Markable(v, e) == row[e].status = "completed"

\* A row that another sweep has marked meanwhile ends this one.
MarkExpired(v) ==
    /\ \E e \in sweep[v].removed :
         IF Markable(v, e)
         THEN /\ row' = [row EXCEPT ![e].status = "expired"]
              /\ sweep' = [sweep EXCEPT ![v] = [list |-> @.list \ {e}, removed |-> {}]]
         ELSE UNCHANGED row /\ sweep' = [sweep EXCEPT ![v] = NoSweep]
    /\ UNCHANGED <<expNow, version, spool, jobs, gen, reader, served, expFaults, overlaps>>

SweeperDies(v) ==
    /\ sweep[v] # NoSweep /\ ExportFault
    /\ sweep' = [sweep EXCEPT ![v] = NoSweep]
    /\ UNCHANGED <<expNow, version, row, spool, jobs, gen, reader, served, overlaps>>

Generate(g) == (\E e \in ExportIds : StartGenerate(g, e)) \/ Scan(g) \/ WriteArtifact(g) \/ MarkCompleted(g)
Sweep(v) == BeginSweep(v) \/ RemoveArtifact(v) \/ MarkExpired(v)

ExportNext ==
    \/ TimePasses \/ SignalsChange
    \/ \E e \in ExportIds : CreateExport(e)
    \/ \E g \in Generators : Generate(g) \/ GenerateFails(g) \/ GeneratorDies(g)
    \/ \E d \in Readers : OpenArtifact(d) \/ \E e \in ExportIds : ReadExport(d, e)
    \/ \E v \in Sweepers : Sweep(v) \/ SweeperDies(v)

ExportFairness ==
    /\ \A g \in Generators : WF_exportVars(Generate(g))
    /\ \A v \in Sweepers : WF_exportVars(Sweep(v))
ExportSpec == ExportInit /\ [][ExportNext]_exportVars
ExportLiveSpec == ExportSpec /\ ExportFairness

-------------------------------------------------------------------------------
(* Properties *)

\* While no two deliveries of one job overlap, a completed export that has not
\* expired has the artifact its row was stamped for, whatever crashed on the
\* way (GenerateExport: a retry regenerates the artifact and stamps the row).
StampMatchesArtifact ==
    overlaps = 0 => \A e \in ExportIds :
        row[e].status = "completed" /\ expNow < row[e].expires => spool[e] = row[e].stamp

\* A stamp is final: a completed export changes to expired only, and keeps its
\* checksum (exports.sql: the guards of MarkExportCompleted and MarkExportFailed).
StampedOnce ==
    [][\A e \in ExportIds : row[e].status \in {"completed", "expired"} =>
          /\ row'[e].stamp = row[e].stamp /\ row'[e].expires = row[e].expires
          /\ row'[e].status # row[e].status =>
               row[e].status = "completed" /\ row'[e].status = "expired"]_exportVars

\* A created export is generated unless a delivery fails.
CreatedIsGenerated ==
    \A e \in ExportIds : row[e].status = "pending" ~>
        row[e].status \in {"completed", "expired"} \/ expFaults > 0

\* A completed export whose time is up is marked expired, even if a sweep died
\* between the removal of its artifact and the mark (SweepExports: "a crash
\* between the deletion and the mark cannot strand a row").
TimedOutIsExpired ==
    \A e \in ExportIds : row[e].status = "completed" /\ row[e].expires <= expNow ~>
        row[e].status = "expired"

-------------------------------------------------------------------------------
(* What the code's own comments say of it. *)

\* export_ports.go, Checksum: "the lowercase hex SHA-256 of the artifact bytes".
ServedAsStamped == \A s \in served : s[1] = s[2]

\* sweep_exports.go, Expired: "completed exports whose artifact was deleted and
\* whose row was flipped".
ExpiredHasNoArtifact == \A e \in ExportIds : row[e].status = "expired" => spool[e] = NoContent

\* export_ports.go, ExpiresAt: "the artifact expiry (created_at + export.ttl)".
ExpiresAfterCreation ==
    \A e \in ExportIds : row[e].status = "completed" => row[e].expires = row[e].created + ExportTTL
===============================================================================
