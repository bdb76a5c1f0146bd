------------------------------ MODULE OutboxRelay ------------------------------
(***************************************************************************)
(* The transactional outbox and its relay: db/queries/outbox.sql, the      *)
(* postgres store (repo/outboxrelay.go) and the drain loop of the worker   *)
(* (adapters/worker/relay.go).  Several worker processes drain the same    *)
(* table.  A claim hands a worker a batch of due rows with a 60 second     *)
(* lease; the worker then dispatches the events of its batch one after the *)
(* other, and settles each row with a statement guarded by                 *)
(* status = 'claimed' and by nothing else.  A worker may crash, a store    *)
(* call may fail, and a handler may outlive the lease of its row.          *)
(***************************************************************************)
EXTENDS Integers, FiniteSets

CONSTANTS Rows,         \* outbox rows; their order is (available_at, id)
          Registered,   \* the rows whose type has a handler in the registry
          Workers,      \* worker processes
          NoRow,        \* "no event is being dispatched"
          BatchSize,    \* claimBatchSize
          MaxAttempts,  \* maxAttempts, the cap of ch. 14.2
          MaxFaults     \* bound: crashes, failed store calls and late handlers

ASSUME RowsAssumption == Rows \subseteq Int /\ IsFiniteSet(Rows)
ASSUME NoRowAssumption == NoRow \notin Rows
ASSUME RegisteredAssumption == Registered \subseteq Rows
ASSUME LimitsAssumption == /\ BatchSize \in Nat \ {0}
                           /\ MaxAttempts \in Nat \ {0}
                           /\ MaxFaults \in Nat

VARIABLES status,    \* status[r]: the status column ("absent": not inserted)
          lease,     \* lease[r]: lease_until as seen from now()
          attempts,  \* attempts[r]: the attempts column
          got,       \* got[w][r]: the attempts value w's claim of r returned,
                     \* 0 when r is not (or no longer) in w's batch
          cur,       \* cur[w]: the event w is dispatching
          pc,        \* pc[w]: "next", "handling", or what the handler returned
          verdicts,  \* history: what handler runs of r returned, and for which
                     \* delivery attempt
          faults     \* faults so far

rows == <<status, lease, attempts>>
local == <<got, cur, pc>>
vars == <<rows, local, verdicts, faults>>

Terminal == {"done", "dead_letter"}
Results == {"ok", "retry", "permanent"}

TypeOK ==
    /\ status \in [Rows -> {"absent", "pending", "claimed"} \union Terminal]
    /\ lease \in [Rows -> {"none", "held", "expired"}]
    /\ attempts \in [Rows -> Nat]
    /\ got \in [Workers -> [Rows -> Nat]]
    /\ cur \in [Workers -> Rows \union {NoRow}]
    /\ pc \in [Workers -> {"next", "handling"} \union Results]
    /\ verdicts \in [Rows -> SUBSET (Results \X Nat)]
    /\ faults \in 0..MaxFaults

Init ==
    /\ status = [r \in Rows |-> "absent"]
    /\ lease = [r \in Rows |-> "none"]
    /\ attempts = [r \in Rows |-> 0]
    /\ got = [w \in Workers |-> [r \in Rows |-> 0]]
    /\ cur = [w \in Workers |-> NoRow]
    /\ pc = [w \in Workers |-> "next"]
    /\ verdicts = [r \in Rows |-> {}]
    /\ faults = 0

\* The rows of w's current batch that it has not finished with.
Hands(w) == {r \in Rows : got[w][r] > 0}

-------------------------------------------------------------------------------
(* The table. *)

\* A command appends its event in the transaction of its state change.
AppendOutbox(r) ==
    /\ status[r] = "absent"
    /\ status' = [status EXCEPT ![r] = "pending"]
    /\ UNCHANGED <<lease, attempts, local, verdicts, faults>>

\* now() passes lease_until.  If a worker still has the row in its batch, its
\* handler (or the one it queues behind) is late: that is counted as a fault.
LeaseExpires(r) ==
    /\ status[r] = "claimed"
    /\ lease[r] = "held"
    /\ lease' = [lease EXCEPT ![r] = "expired"]
    /\ IF \E w \in Workers : r \in Hands(w)
         THEN faults < MaxFaults /\ faults' = faults + 1
         ELSE UNCHANGED faults
    /\ UNCHANGED <<status, attempts, local, verdicts>>

\* Mutant of Due: the claim ignores the lease.
DueIgnoringLease == {r \in Rows : status[r] \in {"pending", "claimed"}}

\* Mutant of Due: an expired claim is never taken over.
DueOnlyPending == {r \in Rows : status[r] = "pending"}

Due == {r \in Rows : \/ status[r] = "pending"
                     \/ status[r] = "claimed" /\ lease[r] = "expired"}

\* ORDER BY available_at, id LIMIT batch_size.
IsDueBatch(b) ==
    /\ b \subseteq Due
    /\ \A x \in b, y \in Due \ b : x < y
    /\ Cardinality(b) <= BatchSize
    /\ b # Due => Cardinality(b) = BatchSize

-------------------------------------------------------------------------------
(* One drain of worker w. *)

ClaimBatch(w) ==
    /\ pc[w] = "next"
    /\ Hands(w) = {}
    /\ \E b \in SUBSET Due :
         /\ b # {}
         /\ IsDueBatch(b)
         /\ status' = [r \in Rows |-> IF r \in b THEN "claimed" ELSE status[r]]
         /\ lease' = [r \in Rows |-> IF r \in b THEN "held" ELSE lease[r]]
         /\ attempts' = [r \in Rows |-> IF r \in b THEN attempts[r] + 1
                                                   ELSE attempts[r]]
         /\ got' = [got EXCEPT ![w] =
                      [r \in Rows |-> IF r \in b THEN attempts[r] + 1 ELSE 0]]
    /\ UNCHANGED <<cur, pc, verdicts, faults>>

\* RETURNING has no order: any event of the batch may come next.  A type
\* without a handler is a permanent failure without a handler run.
Dispatch(w, r) ==
    /\ pc[w] = "next"
    /\ r \in Hands(w)
    /\ cur' = [cur EXCEPT ![w] = r]
    /\ pc' = [pc EXCEPT ![w] = IF r \in Registered THEN "handling"
                                                   ELSE "permanent"]
    /\ UNCHANGED <<rows, got, verdicts, faults>>

HandlerReturns(w, v) ==
    /\ pc[w] = "handling"
    /\ pc' = [pc EXCEPT ![w] = v]
    /\ verdicts' = [verdicts EXCEPT ![cur[w]] = @ \union {<<v, got[w][cur[w]]>>}]
    /\ UNCHANGED <<rows, got, cur, faults>>

\* The loop of Drain moves on to the next event of the batch.
NextEvent(w) ==
    /\ got' = [got EXCEPT ![w][cur[w]] = 0]
    /\ cur' = [cur EXCEPT ![w] = NoRow]
    /\ pc' = [pc EXCEPT ![w] = "next"]

\* Mutant of SettleIfClaimed: no guard on the status.
SettleAlways(r, s) == status' = [status EXCEPT ![r] = s]

\* Mutant of SettleIfClaimed: a status the table does not know.
SettleMisspelt(r, s) ==
    status' = [status EXCEPT ![r] = IF s = "done" THEN s ELSE "deadletter"]

\* UPDATE outbox SET status = s WHERE id = r AND status = 'claimed': zero rows
\* are fine for the relay.
SettleIfClaimed(r, s) ==
    status' = [status EXCEPT ![r] = IF @ = "claimed" THEN s ELSE @]

Ack(w) ==
    /\ pc[w] = "ok"
    /\ SettleIfClaimed(cur[w], "done")
    /\ NextEvent(w)
    /\ UNCHANGED <<lease, attempts, verdicts, faults>>

\* Mutant of MayRetry: the cap is one attempt too low.
MayRetryOneLess(w) == pc[w] = "retry" /\ got[w][cur[w]] + 1 < MaxAttempts

\* Mutant of MayRetry: no cap.
MayRetryForever(w) == pc[w] = "retry"

\* isRetryable(err) && event.Attempts < maxAttempts
MayRetry(w) == pc[w] = "retry" /\ got[w][cur[w]] < MaxAttempts

LeaveForRetry(w) ==
    /\ MayRetry(w)
    /\ NextEvent(w)
    /\ UNCHANGED <<rows, verdicts, faults>>

DeadLetter(w) ==
    /\ pc[w] \in {"retry", "permanent"}
    /\ ~MayRetry(w)
    /\ SettleIfClaimed(cur[w], "dead_letter")
    /\ NextEvent(w)
    /\ UNCHANGED <<lease, attempts, verdicts, faults>>

\* The batch is forgotten; the rows keep their lease until it expires.
LoseBatch(w) ==
    /\ faults < MaxFaults
    /\ faults' = faults + 1
    /\ got' = [got EXCEPT ![w] = [r \in Rows |-> 0]]
    /\ cur' = [cur EXCEPT ![w] = NoRow]
    /\ pc' = [pc EXCEPT ![w] = "next"]
    /\ UNCHANGED <<rows, verdicts>>

\* Ack or DeadLetter returns an error: Drain returns it.
StoreFailure(w) ==
    /\ pc[w] \in Results
    /\ ~MayRetry(w)
    /\ LoseBatch(w)

\* The process dies anywhere in a drain and is started again.
Crash(w) ==
    /\ Hands(w) # {}
    /\ LoseBatch(w)

-------------------------------------------------------------------------------
DrainStep(w) == \/ ClaimBatch(w)
                \/ \E r \in Rows : Dispatch(w, r)
                \/ \E v \in Results : HandlerReturns(w, v)
                \/ Ack(w)
                \/ LeaveForRetry(w)
                \/ DeadLetter(w)

Next == \/ \E r \in Rows : AppendOutbox(r) \/ LeaseExpires(r)
        \/ \E w \in Workers : DrainStep(w) \/ StoreFailure(w) \/ Crash(w)

Spec == Init /\ [][Next]_vars

\* The ticker of Scheduler.Run starts a drain in every interval, handlers run
\* under contexts with timeouts, and time passes.
Fairness == /\ \A w \in Workers : WF_vars(DrainStep(w))
            /\ \A r \in Rows : WF_vars(LeaseExpires(r))

FairSpec == Spec /\ Fairness

-------------------------------------------------------------------------------
(* Properties *)

\* Some handler run of r returned v.
Returned(r, v) == \E d \in verdicts[r] : d[1] = v

\* A row that reached done or dead_letter keeps that status whatever an
\* overtaken worker still does with its copy of the event (outbox.sql: the
\* guard status = 'claimed' of AckOutbox and DeadLetterOutbox).
TerminalIsFinal ==
    [][\A r \in Rows : status[r] \in Terminal => status'[r] = status[r]]_vars

\* Every settled row was settled for a reason: done needs a delivery that
\* succeeded, dead_letter one that failed permanently, one that failed at or
\* past the attempt cap, or a type nobody handles (dispatch in relay.go).
SettledForCause ==
    \A r \in Rows :
      /\ status[r] = "done" => Returned(r, "ok")
      /\ status[r] = "dead_letter" =>
           \/ r \notin Registered
           \/ Returned(r, "permanent")
           \/ \E d \in verdicts[r] : d[1] = "retry" /\ d[2] >= MaxAttempts

\* The cap of ch. 14.2 counts deliveries, not failures that were reported, so a
\* row is handed out at most maxAttempts times plus once for every crash, lost
\* store call or late handler: nothing is redelivered forever.
RedeliveryBound ==
    \A r \in Rows : attempts[r] <= MaxAttempts + faults

\* As long as nothing crashes and no handler outlives its lease, no two
\* workers ever have the same row in their batches (FOR UPDATE SKIP LOCKED and
\* the lease predicate of ClaimOutboxBatch).
OverlapNeedsFault ==
    \A v, w \in Workers : v # w /\ Hands(v) \intersect Hands(w) # {} => faults > 0

\* No appended row is lost: it is done or dead-lettered in the end, whatever
\* crashed in between (ARCH-001 section 2: at-least-once, never lost).
EveryRowSettles ==
    \A r \in Rows : status[r] = "pending" ~> status[r] \in Terminal

\* outbox.sql, DeadLetterOutbox: "only a row the relay currently holds can be
\* dead-lettered".  A worker holds a row if its claim is the last one.
DeadLetterOnlyByHolder ==
    [][\A w \in Workers : \A r \in Rows :
         /\ cur[w] = r
         /\ cur'[w] # r
         /\ status[r] = "claimed"
         /\ status'[r] = "dead_letter"
         => got[w][r] = attempts[r]]_vars

-------------------------------------------------------------------------------
(* The relay implements the job queue. *)

phaseBar == [r \in Rows |->
               CASE status[r] \in {"pending", "claimed"} -> "queued"
                 [] status[r] = "dead_letter" -> "failed"
                 [] OTHER -> status[r]]

handledBar == [r \in Rows |-> Returned(r, "ok")]

JQ == INSTANCE JobQueue WITH Jobs <- Rows, phase <- phaseBar, handled <- handledBar

\* The relay is a job queue: safety and liveness of JobQueue.
ImplementsJobQueue == JQ!JQSpec
===============================================================================
