------------------------------- MODULE AuditChain -------------------------------
(***************************************************************************)
(* The optional hash chain of the audit trail: repo/audit.go and           *)
(* repo/audit_chain.go.  A command takes its instant, opens a transaction  *)
(* and appends its audit rows; with the chain on each append takes an      *)
(* advisory lock, which the transaction keeps, and links the row to the    *)
(* row that is last in the order of (occurred_at, id).  VerifyChain reads  *)
(* the whole trail.                                                        *)
(*                                                                         *)
(* A row's hash covers its content and its predecessor's hash; it is       *)
(* modelled by the row's id, and an edit by a flag: the stored hash is not *)
(* the one recomputed.                                                     *)
(***************************************************************************)
EXTENDS Naturals, FiniteSets

CONSTANTS RowIds,       \* numbers; the database draws one at random
          AuditWriters, \* commands at work at once
          RowsPerTx,    \* audit rows of one command
          MaxInstant,   \* bound: the last instant
          MaxRestarts   \* bound: restarts that turn the chain on or off

ASSUME RowIdsAssumption == RowIds \subseteq Nat \ {0} /\ IsFiniteSet(RowIds)
ASSUME AuditBounds == {RowsPerTx, MaxInstant, MaxRestarts} \subseteq Nat

VARIABLES auditNow,        \* the clock the commands read
          chainOn,    \* retention.hash_chain_enabled
          trail,      \* committed rows of audit_events
          writer,     \* writer[w]: instant and rows of its open transaction
          lock,       \* who holds the advisory lock
          tampered,   \* history: the rows somebody else has edited or deleted
          inOrder,    \* history: rows were appended in the order of their instants
          latest,     \* history: the latest instant appended
          restarts

chainVars == <<auditNow, chainOn, trail, writer, lock, tampered, inOrder, latest, restarts>>

NoTx == [at |-> 0, rows |-> {}, left |-> 0]
NoHash == 0          \* an SQL NULL
ChainStart == 0            \* prev_hash of the first row
Hashes == RowIds \union {NoHash}
UsedIds == tampered \union {r.id : r \in trail \union UNION {writer[w].rows : w \in AuditWriters}}
TxOpen(w) == writer[w] # NoTx

ChainTypeOK ==
    /\ auditNow \in 1..MaxInstant /\ latest \in 0..MaxInstant /\ restarts \in 0..MaxRestarts
    /\ \A r \in trail \union UNION {writer[w].rows : w \in AuditWriters} :
         /\ r.id \in RowIds /\ r.at \in 1..auditNow
         /\ r.hash \in {NoHash, r.id} /\ r.prev \in Hashes /\ r.prev # r.id
    /\ \A w \in AuditWriters : writer[w].left \in 0..RowsPerTx
    /\ tampered \subseteq RowIds
    /\ \A w \in lock : TxOpen(w)
    /\ \A r, s \in trail : r.id = s.id => r = s

ChainInit ==
    /\ auditNow = 1 /\ chainOn \in BOOLEAN
    /\ trail = {} /\ lock = {}
    /\ writer = [w \in AuditWriters |-> NoTx]
    /\ tampered = {} /\ inOrder = TRUE /\ latest = 0 /\ restarts = 0

-------------------------------------------------------------------------------
(* Commands. *)

InstantPasses ==
    /\ auditNow < MaxInstant /\ auditNow' = auditNow + 1
    /\ UNCHANGED <<chainOn, trail, writer, lock, tampered, inOrder, latest, restarts>>

\* A command reads the clock once, before its transaction.
BeginCommand(w) ==
    /\ ~TxOpen(w)
    /\ writer' = [writer EXCEPT ![w] = [at |-> auditNow, rows |-> {}, left |-> RowsPerTx]]
    /\ UNCHANGED <<auditNow, chainOn, trail, lock, tampered, inOrder, latest, restarts>>

SortsBefore(r, s) == r.at < s.at \/ (r.at = s.at /\ r.id < s.id)

\* The last chained row w's transaction can see.
LatestAuditHash(w) ==
    LET chained == {r \in trail \union writer[w].rows : r.hash # NoHash}
        last == {r \in chained : \A s \in chained \ {r} : SortsBefore(s, r)}
    IN IF chained = {} THEN ChainStart ELSE (CHOOSE r \in last : TRUE).hash

\* Mutant of TakeLock: the append does not wait for another holder.
LockShared(w) == lock' = lock \union {w}

TakeLock(w) == lock \subseteq {w} /\ lock' = {w}

AppendRow(w) ==
    /\ TxOpen(w) /\ writer[w].left > 0
    /\ IF chainOn THEN TakeLock(w) ELSE UNCHANGED lock
    /\ \E id \in RowIds \ UsedIds :
         LET row == [id |-> id, at |-> writer[w].at, edited |-> FALSE,
                     prev |-> IF chainOn THEN LatestAuditHash(w) ELSE NoHash,
                     hash |-> IF chainOn THEN id ELSE NoHash]
         IN writer' = [writer EXCEPT ![w].rows = @ \union {row}, ![w].left = @ - 1]
    /\ inOrder' = (inOrder /\ (chainOn => latest < writer[w].at))
    /\ latest' = IF chainOn /\ latest < writer[w].at THEN writer[w].at ELSE latest
    /\ UNCHANGED <<auditNow, chainOn, trail, tampered, restarts>>

CloseTx(w) ==
    /\ writer' = [writer EXCEPT ![w] = NoTx]
    /\ lock' = lock \ {w}
    /\ UNCHANGED <<auditNow, chainOn, tampered, inOrder, latest, restarts>>

CommitRows(w) ==
    /\ TxOpen(w) /\ writer[w].left = 0
    /\ trail' = trail \union writer[w].rows
    /\ CloseTx(w)

\* Another statement of the command fails, or its process dies.
RollbackRows(w) ==
    /\ TxOpen(w)
    /\ CloseTx(w) /\ UNCHANGED trail

\* The processes are restarted with the setting changed.
RestartWithSetting ==
    /\ restarts < MaxRestarts /\ restarts' = restarts + 1
    /\ \A w \in AuditWriters : ~TxOpen(w)
    /\ chainOn' = ~chainOn
    /\ UNCHANGED <<auditNow, trail, writer, lock, tampered, inOrder, latest>>

\* A chained row is edited or removed behind the application, or by retention.
EditRow(r) ==
    /\ r.hash # NoHash /\ tampered = {}
    /\ trail' = (trail \ {r}) \union {[r EXCEPT !.edited = TRUE]}
    /\ tampered' = {r.id}
    /\ UNCHANGED <<auditNow, chainOn, writer, lock, inOrder, latest, restarts>>

\* The removal of a row that nothing links to yet leaves no trace by design.
RemoveRow(r) ==
    /\ r.hash # NoHash /\ tampered = {}
    /\ \E s \in trail : s.hash # NoHash /\ s.prev = r.hash
    /\ trail' = trail \ {r}
    /\ tampered' = {r.id}
    /\ UNCHANGED <<auditNow, chainOn, writer, lock, inOrder, latest, restarts>>

ChainNext ==
    \/ InstantPasses \/ RestartWithSetting
    \/ \E w \in AuditWriters : BeginCommand(w) \/ AppendRow(w) \/ CommitRows(w) \/ RollbackRows(w)
    \/ \E r \in trail : EditRow(r) \/ RemoveRow(r)

ChainSpec == ChainInit /\ [][ChainNext]_chainVars

-------------------------------------------------------------------------------
(* Verification. *)

Chained == {r \in trail : r.hash # NoHash}
Heads == {r \in Chained : r.prev = ChainStart}
Linked(r) == {s \in Chained : s.prev = r.hash}

\* The walk from the head along the links: the rows visited in at most n steps.
Visited[n \in Nat] == IF n = 0 THEN Heads
                      ELSE Visited[n - 1] \union UNION {Linked(r) : r \in Visited[n - 1]}

\* Mutant of VerifyChain: a row is to follow the row it links to in time.
VerifyByInstant ==
    LET rows == Chained  walk == Visited[Cardinality(Chained)] IN
    rows = {} \/ /\ \A r \in rows : r.prev = ChainStart \/ \E s \in rows : s.hash = r.prev /\ s.at <= r.at
                 /\ Cardinality(Heads) = 1
                 /\ \A r \in walk : ~r.edited /\ Cardinality(Linked(r)) <= 1
                 /\ walk = rows

\* No link dangles, there is one head, and the walk from it forks nowhere,
\* finds every hash as recomputed and reaches every row.
VerifyChain ==
    LET rows == Chained  walk == Visited[Cardinality(Chained)] IN
    rows = {} \/ /\ \A r \in rows : r.prev = ChainStart \/ \E s \in rows : s.hash = r.prev
                 /\ Cardinality(Heads) = 1
                 /\ \A r \in walk : ~r.edited /\ Cardinality(Linked(r)) <= 1
                 /\ walk = rows

\* What it is to decide: the rows are one chain, each as it was written.
IsChain ==
    \E order \in [1..Cardinality(Chained) -> Chained] :
        /\ \A r \in Chained : \E i \in DOMAIN order : order[i] = r
        /\ \A i \in DOMAIN order : order[i].prev = IF i = 1 THEN ChainStart ELSE order[i - 1].hash
        /\ \A r \in Chained : ~r.edited

-------------------------------------------------------------------------------
(* Properties *)

\* The verification accepts exactly the trails that are one unedited chain, in
\* whatever order of instants its rows were appended (audit_chain.go,
\* VerifyChain).
VerifyDecidesChain == VerifyChain <=> IsChain

\* One edit of a chained row, or the removal of a row that another row links
\* to, never goes unseen, whatever is appended afterwards (audit_chain.go: a row
\* edited or removed after the chain started breaks the links).
TamperingIsSeen == tampered # {} => ~VerifyChain

\* Concurrent appends do not fork the chain as long as the instants of the rows
\* grow with the order of the appends (audit.go, stampChain: the advisory lock).
OrderedChainVerifies == inOrder /\ tampered = {} => VerifyChain

-------------------------------------------------------------------------------
(* What the code's own comments say of it. *)

\* audit.go, stampChain: the lock is taken "so concurrent chained appends cannot
\* fork the chain".
UntouchedChainVerifies == tampered = {} => VerifyChain
===============================================================================
