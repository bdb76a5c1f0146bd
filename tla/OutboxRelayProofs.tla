--------------------------- MODULE OutboxRelayProofs ---------------------------
(***************************************************************************)
(* Proofs about OutboxRelay, for any number of rows and workers, any batch *)
(* size, any attempt cap and any number of faults.  The invariants are     *)
(* inductive relative to the ones before them:                             *)
(*   TypeOK                                                                *)
(*   HandsOK      what a worker holds was claimed, and when                *)
(*   CauseOK      what a worker is about to do has a recorded reason       *)
(*   AttemptsOK   how far the attempt counter can be, by state of the row  *)
(*   ExclusiveOK  without a fault, a batch is held by one worker           *)
(***************************************************************************)
EXTENDS OutboxRelay, TLAPS

HandsOK ==
    \A w \in Workers :
      /\ pc[w] # "next" => cur[w] \in Hands(w)
      /\ \A r \in Rows :
           /\ got[w][r] <= attempts[r]
           /\ got[w][r] > 0 => status[r] \notin {"absent", "pending"}

CauseOK ==
    \A w \in Workers :
      pc[w] \in Results =>
        \/ <<pc[w], got[w][cur[w]]>> \in verdicts[cur[w]]
        \/ pc[w] = "permanent" /\ cur[w] \notin Registered

\* Nobody is going to settle the delivery that r was last claimed for.
Abandoned(r) == /\ status[r] = "claimed"
                /\ \/ lease[r] = "expired"
                   \/ \A w \in Workers : got[w][r] # attempts[r]

AttemptsOK ==
    \A r \in Rows :
      /\ status[r] \in {"absent", "pending"} => attempts[r] = 0
      /\ status[r] = "claimed" => attempts[r] > 0
      /\ attempts[r] <= MaxAttempts + faults
      /\ Abandoned(r) => attempts[r] < MaxAttempts + faults

ExclusiveOK ==
    faults = 0 =>
      \A w \in Workers : \A r \in Hands(w) :
        /\ status[r] = "claimed" /\ lease[r] = "held"
        /\ \A v \in Workers \ {w} : r \notin Hands(v)

USE LimitsAssumption, NoRowAssumption, RegisteredAssumption DEF Terminal, Results

-------------------------------------------------------------------------------
(* Types *)

\* An empty outbox with idle workers has the types.
LEMMA InitTypes == Init => TypeOK
  BY DEF Init, TypeOK

\* Every step keeps the types of the table's columns and of the workers' state.
LEMMA StepTypes == TypeOK /\ [Next]_vars => TypeOK'
<1> SUFFICES ASSUME TypeOK, [Next]_vars PROVE TypeOK'
  OBVIOUS
<1> USE DEF TypeOK, rows, local
<1>1. ASSUME NEW r \in Rows, AppendOutbox(r) PROVE TypeOK'
  BY <1>1 DEF AppendOutbox
<1>2. ASSUME NEW r \in Rows, LeaseExpires(r) PROVE TypeOK'
  BY <1>2 DEF LeaseExpires
<1>3. ASSUME NEW w \in Workers, ClaimBatch(w) PROVE TypeOK'
  BY <1>3 DEF ClaimBatch
<1>4. ASSUME NEW w \in Workers, NEW r \in Rows, Dispatch(w, r) PROVE TypeOK'
  BY <1>4 DEF Dispatch
<1>5. ASSUME NEW w \in Workers, NEW v \in Results, HandlerReturns(w, v)
      PROVE  TypeOK'
  <2>1. pc' \in [Workers -> {"next", "handling"} \union Results]
    BY <1>5 DEF HandlerReturns
  <2>2. verdicts' \in [Rows -> SUBSET (Results \X Nat)]
    <3>1. CASE cur[w] \in Rows
      <4>1. <<v, got[w][cur[w]]>> \in Results \X Nat
        BY <3>1
      <4> QED
        BY <1>5, <3>1, <4>1 DEF HandlerReturns
    <3>2. CASE cur[w] = NoRow
      BY <1>5, <3>2 DEF HandlerReturns
    <3> QED
      BY <3>1, <3>2
  <2> QED
    BY <1>5, <2>1, <2>2 DEF HandlerReturns
<1>6. ASSUME NEW w \in Workers, Ack(w) PROVE TypeOK'
  BY <1>6 DEF Ack, SettleIfClaimed, NextEvent
<1>7. ASSUME NEW w \in Workers, LeaveForRetry(w) PROVE TypeOK'
  BY <1>7 DEF LeaveForRetry, NextEvent
<1>8. ASSUME NEW w \in Workers, DeadLetter(w) PROVE TypeOK'
  BY <1>8 DEF DeadLetter, SettleIfClaimed, NextEvent
<1>9. ASSUME NEW w \in Workers, LoseBatch(w) PROVE TypeOK'
  BY <1>9 DEF LoseBatch
<1>10. CASE UNCHANGED vars
  BY <1>10 DEF vars
<1> QED
  BY <1>1, <1>2, <1>3, <1>4, <1>5, <1>6, <1>7, <1>8, <1>9, <1>10
     DEF Next, DrainStep, StoreFailure, Crash

\* The type invariant of the relay.
THEOREM TypeCorrect == Spec => []TypeOK
<1>1. Init => TypeOK
  BY InitTypes
<1>2. TypeOK /\ [Next]_vars => TypeOK'
  BY StepTypes
<1> QED
  BY <1>1, <1>2, PTL DEF Spec

-------------------------------------------------------------------------------
(* What is settled stays settled *)

FinalStep == \A r \in Rows : status[r] \in Terminal => status'[r] = status[r]

\* A claim takes due rows only, and both settling statements leave a row alone
\* that is not claimed: no step moves a row out of done or dead_letter.
LEMMA StepKeepsTerminal == TypeOK /\ [Next]_vars => FinalStep
<1> SUFFICES ASSUME TypeOK, [Next]_vars,
                    NEW r \in Rows, status[r] \in Terminal
             PROVE  status'[r] = status[r]
  BY DEF FinalStep
<1> USE DEF TypeOK, rows
<1>1. ASSUME NEW q \in Rows, AppendOutbox(q) PROVE status'[r] = status[r]
  BY <1>1 DEF AppendOutbox
<1>2. ASSUME NEW w \in Workers, ClaimBatch(w) PROVE status'[r] = status[r]
  BY <1>2 DEF ClaimBatch, Due
<1>3. ASSUME NEW w \in Workers, Ack(w) PROVE status'[r] = status[r]
  BY <1>3 DEF Ack, SettleIfClaimed
<1>4. ASSUME NEW w \in Workers, DeadLetter(w) PROVE status'[r] = status[r]
  BY <1>4 DEF DeadLetter, SettleIfClaimed
<1>5. ASSUME UNCHANGED status PROVE status'[r] = status[r]
  BY <1>5
<1> QED
  BY <1>1, <1>2, <1>3, <1>4, <1>5
     DEF Next, vars, DrainStep, StoreFailure, Crash, LeaseExpires, Dispatch,
         HandlerReturns, LeaveForRetry, LoseBatch

\* TerminalIsFinal for any number of workers, crashes and late handlers.
THEOREM TerminalStatusIsFinal == Spec => TerminalIsFinal
<1>1. TypeOK /\ [Next]_vars => [FinalStep]_vars
  BY StepKeepsTerminal
<1> QED
  BY <1>1, TypeCorrect, PTL DEF Spec, TerminalIsFinal, FinalStep

-------------------------------------------------------------------------------
(* What a worker holds *)

\* At the start no worker has a job in hand.
LEMMA InitHands == Init => HandsOK
  BY DEF Init, HandsOK

\* got is set when a row is claimed and forgotten when the worker is done with
\* it; only a claim raises the attempts column.
LEMMA StepHands == TypeOK /\ TypeOK' /\ HandsOK /\ [Next]_vars => HandsOK'
<1> SUFFICES ASSUME TypeOK, TypeOK', HandsOK, [Next]_vars PROVE HandsOK'
  OBVIOUS
<1> USE DEF TypeOK, HandsOK, Hands, rows, local
<1>1. ASSUME NEW r \in Rows, AppendOutbox(r) PROVE HandsOK'
  BY <1>1 DEF AppendOutbox
<1>2. ASSUME NEW r \in Rows, LeaseExpires(r) PROVE HandsOK'
  BY <1>2 DEF LeaseExpires
<1>3. ASSUME NEW w \in Workers, ClaimBatch(w) PROVE HandsOK'
  BY <1>3 DEF ClaimBatch
<1>4. ASSUME NEW w \in Workers, NEW r \in Rows, Dispatch(w, r) PROVE HandsOK'
  BY <1>4 DEF Dispatch
<1>5. ASSUME NEW w \in Workers, NEW v \in Results, HandlerReturns(w, v)
      PROVE  HandsOK'
  BY <1>5 DEF HandlerReturns
<1>6. ASSUME NEW w \in Workers, Ack(w) PROVE HandsOK'
  BY <1>6 DEF Ack, SettleIfClaimed, NextEvent
<1>7. ASSUME NEW w \in Workers, LeaveForRetry(w) PROVE HandsOK'
  BY <1>7 DEF LeaveForRetry, NextEvent
<1>8. ASSUME NEW w \in Workers, DeadLetter(w) PROVE HandsOK'
  BY <1>8 DEF DeadLetter, SettleIfClaimed, NextEvent
<1>9. ASSUME NEW w \in Workers, LoseBatch(w) PROVE HandsOK'
  BY <1>9 DEF LoseBatch
<1>10. CASE UNCHANGED vars
  BY <1>10 DEF vars
<1> QED
  BY <1>1, <1>2, <1>3, <1>4, <1>5, <1>6, <1>7, <1>8, <1>9, <1>10
     DEF Next, DrainStep, StoreFailure, Crash

\* Types and hands hold in every reachable state.
LEMMA HandsInvariant == Spec => [](TypeOK /\ HandsOK)
<1>1. TypeOK /\ TypeOK' /\ HandsOK /\ [Next]_vars => HandsOK'
  BY StepHands
<1>2. Init => HandsOK
  BY InitHands
<1> QED
  BY <1>1, <1>2, TypeCorrect, PTL DEF Spec

-------------------------------------------------------------------------------
(* Why a row is settled *)

\* A result in pc is recorded in verdicts when it gets there, verdicts only
\* grow, and a row reaches a terminal status through a result in pc.
CauseInv == CauseOK /\ SettledForCause

\* At the start no job is settled, so nothing needs a cause.
LEMMA InitCause == Init => CauseInv
  BY DEF Init, CauseInv, CauseOK, SettledForCause

\* Every step that settles a job has its cause.
LEMMA StepCause == TypeOK /\ HandsOK /\ CauseInv /\ [Next]_vars => CauseInv'
<1> SUFFICES ASSUME TypeOK, HandsOK, CauseInv, [Next]_vars PROVE CauseInv'
  OBVIOUS
<1> USE DEF TypeOK, CauseInv, CauseOK, SettledForCause, Returned, rows, local
<1>0. \A w \in Workers : pc[w] # "next" => cur[w] \in Rows
  BY DEF HandsOK, Hands
<1>1. ASSUME NEW r \in Rows, AppendOutbox(r) PROVE CauseInv'
  BY <1>1 DEF AppendOutbox
<1>2. ASSUME NEW r \in Rows, LeaseExpires(r) PROVE CauseInv'
  BY <1>2 DEF LeaseExpires
<1>3. ASSUME NEW w \in Workers, ClaimBatch(w) PROVE CauseInv'
  BY <1>0, <1>3 DEF ClaimBatch
<1>4. ASSUME NEW w \in Workers, NEW r \in Rows, Dispatch(w, r) PROVE CauseInv'
  BY <1>4 DEF Dispatch
<1>5. ASSUME NEW w \in Workers, NEW v \in Results, HandlerReturns(w, v)
      PROVE  CauseInv'
  BY <1>0, <1>5 DEF HandlerReturns
<1>6. ASSUME NEW w \in Workers, Ack(w) PROVE CauseInv'
  <2> DEFINE r == cur[w]
  <2>1. r \in Rows /\ Returned(r, "ok")
    BY ZenonT(60), <1>0, <1>6 DEF Ack
  <2>2. \A q \in Rows : status'[q] = status[q] \/ (q = r /\ status'[q] = "done")
    BY <1>6 DEF Ack, SettleIfClaimed
  <2>3. SettledForCause'
    BY <2>1, <2>2, <1>6 DEF Ack
  <2>4. CauseOK'
    BY <1>6 DEF Ack, NextEvent
  <2> QED
    BY <2>3, <2>4
<1>7. ASSUME NEW w \in Workers, LeaveForRetry(w) PROVE CauseInv'
  BY <1>7 DEF LeaveForRetry, NextEvent
<1>8. ASSUME NEW w \in Workers, DeadLetter(w) PROVE CauseInv'
  <2> DEFINE r == cur[w]
  <2>1. /\ r \in Rows
        /\ \/ r \notin Registered
           \/ Returned(r, "permanent")
           \/ \E d \in verdicts[r] : d[1] = "retry" /\ d[2] >= MaxAttempts
    <3>1. CASE pc[w] = "permanent"
      BY ZenonT(60), <1>0, <1>8, <3>1
    <3>2. CASE pc[w] = "retry"
      <4>1. r \in Rows /\ <<"retry", got[w][r]>> \in verdicts[r]
        BY <1>0, <3>2
      <4>2. got[w][r] >= MaxAttempts
        BY <1>8, <3>2, <4>1 DEF DeadLetter, MayRetry
      <4> QED
        BY <4>1, <4>2
    <3> QED
      BY <1>8, <3>1, <3>2 DEF DeadLetter
  <2>2. \A q \in Rows :
          status'[q] = status[q] \/ (q = r /\ status'[q] = "dead_letter")
    BY <1>8 DEF DeadLetter, SettleIfClaimed
  <2>3. SettledForCause'
    BY <2>1, <2>2, <1>8 DEF DeadLetter
  <2>4. CauseOK'
    BY <1>8 DEF DeadLetter, NextEvent
  <2> QED
    BY <2>3, <2>4
<1>9. ASSUME NEW w \in Workers, LoseBatch(w) PROVE CauseInv'
  BY <1>9 DEF LoseBatch
<1>10. CASE UNCHANGED vars
  BY <1>10 DEF vars
<1> QED
  BY ZenonT(60), <1>1, <1>2, <1>3, <1>4, <1>5, <1>6, <1>7, <1>8, <1>9, <1>10
     DEF Next, DrainStep, StoreFailure, Crash

\* No row is ever done without a delivery that succeeded, or dead-lettered
\* without one of the four causes, for any number of workers and faults.
THEOREM SettlementHasCause == Spec => []SettledForCause
<1>1. Init => CauseInv
  BY InitCause
<1>2. TypeOK /\ HandsOK /\ CauseInv /\ [Next]_vars => CauseInv'
  BY StepCause
<1>3. CauseInv => SettledForCause
  BY DEF CauseInv
<1> QED
  BY <1>1, <1>2, <1>3, HandsInvariant, PTL DEF Spec

-------------------------------------------------------------------------------
(* How often a row is delivered *)

\* At the start no job has been attempted.
LEMMA InitAttempts == Init => AttemptsOK
  BY DEF Init, AttemptsOK, Abandoned

\* A row is claimed again only if it is Abandoned.  A worker abandons it below
\* the cap, or by a fault that makes room for one more attempt.
LEMMA StepAttempts ==
    TypeOK /\ TypeOK' /\ HandsOK /\ AttemptsOK /\ [Next]_vars => AttemptsOK'
<1> SUFFICES ASSUME TypeOK, TypeOK', HandsOK, AttemptsOK, [Next]_vars
             PROVE  AttemptsOK'
  OBVIOUS
<1> USE DEF TypeOK, HandsOK, AttemptsOK, Abandoned, Hands, rows, local
<1>1. ASSUME NEW r \in Rows, AppendOutbox(r) PROVE AttemptsOK'
  BY <1>1 DEF AppendOutbox
<1>2. ASSUME NEW r \in Rows, LeaseExpires(r) PROVE AttemptsOK'
  BY <1>2 DEF LeaseExpires
<1>3. ASSUME NEW w \in Workers, ClaimBatch(w) PROVE AttemptsOK'
  <2>1. PICK b \in SUBSET Due :
          /\ status' = [r \in Rows |-> IF r \in b THEN "claimed" ELSE status[r]]
          /\ lease' = [r \in Rows |-> IF r \in b THEN "held" ELSE lease[r]]
          /\ attempts' = [r \in Rows |-> IF r \in b THEN attempts[r] + 1
                                                     ELSE attempts[r]]
          /\ got' = [got EXCEPT ![w] =
                       [r \in Rows |-> IF r \in b THEN attempts[r] + 1 ELSE 0]]
    BY ZenonT(60), <1>3 DEF ClaimBatch
  <2> SUFFICES ASSUME NEW r \in Rows PROVE AttemptsOK!(r)'
    BY DEF AttemptsOK
  <2>2. faults' = faults /\ Hands(w) = {}
    BY <1>3 DEF ClaimBatch
  <2>3. CASE r \in b
    <3>0. status[r] = "pending" \/ (status[r] = "claimed" /\ lease[r] = "expired")
      BY <2>3 DEF Due
    <3>1. attempts[r] < MaxAttempts + faults
      BY <3>0
    <3>2. attempts'[r] = attempts[r] + 1 /\ got'[w][r] = attempts'[r]
      BY <2>1, <2>3
    <3> QED
      BY <2>1, <2>2, <2>3, <3>1, <3>2
  <2>4. CASE r \notin b
    <3>1. got'[w][r] = got[w][r]
      BY <2>1, <2>2, <2>4
    <3> QED
      BY <2>1, <2>2, <2>4, <3>1
  <2> QED
    BY <2>3, <2>4
<1>4. ASSUME NEW w \in Workers, NEW r \in Rows, Dispatch(w, r) PROVE AttemptsOK'
  BY <1>4 DEF Dispatch
<1>5. ASSUME NEW w \in Workers, NEW v \in Results, HandlerReturns(w, v)
      PROVE  AttemptsOK'
  BY <1>5 DEF HandlerReturns
<1>6. ASSUME NEW w \in Workers, Ack(w) PROVE AttemptsOK'
  BY <1>6 DEF Ack, SettleIfClaimed, NextEvent
<1>7. ASSUME NEW w \in Workers, LeaveForRetry(w) PROVE AttemptsOK'
  BY <1>7 DEF LeaveForRetry, MayRetry, NextEvent
<1>8. ASSUME NEW w \in Workers, DeadLetter(w) PROVE AttemptsOK'
  BY <1>8 DEF DeadLetter, SettleIfClaimed, NextEvent
<1>9. ASSUME NEW w \in Workers, LoseBatch(w) PROVE AttemptsOK'
  BY <1>9 DEF LoseBatch
<1>10. CASE UNCHANGED vars
  BY <1>10 DEF vars
<1> QED
  BY <1>1, <1>2, <1>3, <1>4, <1>5, <1>6, <1>7, <1>8, <1>9, <1>10
     DEF Next, DrainStep, StoreFailure, Crash

\* A row is delivered at most maxAttempts times plus once per fault.
THEOREM RedeliveryIsBounded == Spec => []RedeliveryBound
<1>1. Init => AttemptsOK
  BY InitAttempts
<1>2. TypeOK /\ TypeOK' /\ HandsOK /\ AttemptsOK /\ [Next]_vars => AttemptsOK'
  BY StepAttempts
<1>3. AttemptsOK => RedeliveryBound
  BY DEF AttemptsOK, RedeliveryBound
<1> QED
  BY <1>1, <1>2, <1>3, HandsInvariant, PTL DEF Spec

-------------------------------------------------------------------------------
(* One worker per row *)

\* At the start no batch is open, so none share a job.
LEMMA InitExclusive == Init => ExclusiveOK
  BY DEF Init, ExclusiveOK, Hands

\* Without a fault no lease runs out while a worker holds the row, so what is
\* due is in nobody's hands.
LEMMA StepExclusive ==
    TypeOK /\ TypeOK' /\ HandsOK /\ ExclusiveOK /\ [Next]_vars => ExclusiveOK'
<1> SUFFICES ASSUME TypeOK, TypeOK', HandsOK, ExclusiveOK, [Next]_vars
             PROVE  ExclusiveOK'
  OBVIOUS
<1> USE DEF TypeOK, HandsOK, ExclusiveOK, Hands, rows, local
<1>1. ASSUME NEW r \in Rows, AppendOutbox(r) PROVE ExclusiveOK'
  BY <1>1 DEF AppendOutbox
<1>2. ASSUME NEW r \in Rows, LeaseExpires(r) PROVE ExclusiveOK'
  BY <1>2 DEF LeaseExpires
<1>3. ASSUME NEW w \in Workers, ClaimBatch(w) PROVE ExclusiveOK'
  BY <1>3 DEF ClaimBatch, Due
<1>4. ASSUME NEW w \in Workers, NEW r \in Rows, Dispatch(w, r) PROVE ExclusiveOK'
  BY <1>4 DEF Dispatch
<1>5. ASSUME NEW w \in Workers, NEW v \in Results, HandlerReturns(w, v)
      PROVE  ExclusiveOK'
  BY <1>5 DEF HandlerReturns
<1>6. ASSUME NEW w \in Workers, Ack(w) PROVE ExclusiveOK'
  BY <1>6 DEF Ack, SettleIfClaimed, NextEvent
<1>7. ASSUME NEW w \in Workers, LeaveForRetry(w) PROVE ExclusiveOK'
  BY <1>7 DEF LeaveForRetry, MayRetry, NextEvent
<1>8. ASSUME NEW w \in Workers, DeadLetter(w) PROVE ExclusiveOK'
  BY <1>8 DEF DeadLetter, SettleIfClaimed, NextEvent
<1>9. ASSUME NEW w \in Workers, LoseBatch(w) PROVE ExclusiveOK'
  BY <1>9 DEF LoseBatch
<1>10. CASE UNCHANGED vars
  BY <1>10 DEF vars
<1> QED
  BY <1>1, <1>2, <1>3, <1>4, <1>5, <1>6, <1>7, <1>8, <1>9, <1>10
     DEF Next, DrainStep, StoreFailure, Crash

\* Types, hands and exclusive batches hold in every reachable state.
LEMMA ExclusiveInvariant == Spec => [](TypeOK /\ HandsOK /\ ExclusiveOK)
<1>1. Init => ExclusiveOK
  BY InitExclusive
<1>2. TypeOK /\ TypeOK' /\ HandsOK /\ ExclusiveOK /\ [Next]_vars => ExclusiveOK'
  BY StepExclusive
<1> QED
  BY <1>1, <1>2, HandsInvariant, PTL DEF Spec

\* Two workers hold the same row only after a fault.
THEOREM BatchesAreExclusive == Spec => []OverlapNeedsFault
<1>1. TypeOK /\ ExclusiveOK => OverlapNeedsFault
  BY DEF TypeOK, ExclusiveOK, OverlapNeedsFault, Hands
<1> QED
  BY <1>1, ExclusiveInvariant, PTL

-------------------------------------------------------------------------------
(* The relay implements the job queue (its safety part) *)

\* The empty outbox is the empty queue.
LEMMA InitRefines == Init => JQ!JQInit
  BY DEF Init, JQ!JQInit, phaseBar, handledBar, Returned

\* Appending enqueues, a handler that succeeds handles, Ack completes,
\* DeadLetter abandons; a settling statement that matches no row and everything
\* else are invisible to the queue.
LEMMA StepRefines ==
    TypeOK /\ HandsOK /\ CauseInv /\ [Next]_vars => [JQ!JQNext]_(JQ!jqVars)
<1> SUFFICES ASSUME TypeOK, HandsOK, CauseInv, [Next]_vars
             PROVE  JQ!JQNext \/ UNCHANGED JQ!jqVars
  OBVIOUS
<1> USE DEF TypeOK, rows, local
<1>0. ASSUME UNCHANGED <<status, verdicts>> PROVE UNCHANGED JQ!jqVars
  BY <1>0 DEF JQ!jqVars, phaseBar, handledBar, Returned
<1>1. ASSUME NEW r \in Rows, AppendOutbox(r) PROVE JQ!Enqueue(r)
  BY <1>1 DEF AppendOutbox, JQ!Enqueue, phaseBar, handledBar, Returned
<1>2. ASSUME NEW w \in Workers, ClaimBatch(w) PROVE UNCHANGED JQ!jqVars
  <2>1. \A r \in Rows : phaseBar'[r] = phaseBar[r]
    BY <1>2 DEF ClaimBatch, Due, phaseBar
  <2>2. phaseBar' = phaseBar
    BY <2>1 DEF phaseBar
  <2>3. handledBar' = handledBar
    BY <1>2 DEF ClaimBatch, handledBar, Returned
  <2> QED
    BY <2>2, <2>3 DEF JQ!jqVars
<1>3. ASSUME NEW w \in Workers, NEW v \in Results, HandlerReturns(w, v)
      PROVE  (JQ!Handle(cur[w]) /\ cur[w] \in Rows) \/ UNCHANGED JQ!jqVars
  <2>1. PICK r \in Rows : r = cur[w] /\ status[r] \notin {"absent", "pending"}
    BY <1>3 DEF HandlerReturns, HandsOK, Hands
  <2>2. phaseBar' = phaseBar
    BY <1>3 DEF HandlerReturns, phaseBar
  <2>3. verdicts' = [verdicts EXCEPT ![r] = @ \union {<<v, got[w][r]>>}]
    BY <1>3, <2>1 DEF HandlerReturns
  <2>4. CASE v = "ok"
    <3>1. handledBar' = [handledBar EXCEPT ![r] = TRUE]
      <4>1. Returned(r, "ok")'
        <5>1. <<"ok", got[w][r]>> \in verdicts'[r]
          BY <2>1, <2>3, <2>4
        <5> QED
          BY <5>1 DEF Returned
      <4>2. \A q \in Rows \ {r} : Returned(q, "ok")' = Returned(q, "ok")
        BY <2>1, <2>3 DEF Returned
      <4>3. Returned(r, "ok")' = TRUE
        BY <4>1 DEF Returned
      <4> QED
        BY <4>2, <4>3 DEF handledBar
    <3> QED
      BY <2>1, <2>2, <3>1 DEF JQ!Handle, phaseBar
  <2>5. CASE v # "ok"
    <3>1. handledBar' = handledBar
      BY <2>1, <2>3, <2>5 DEF handledBar, Returned
    <3> QED
      BY <2>2, <3>1 DEF JQ!jqVars
  <2> QED
    BY <2>1, <2>4, <2>5
<1>4. ASSUME NEW w \in Workers, Ack(w)
      PROVE  (JQ!Complete(cur[w]) /\ cur[w] \in Rows) \/ UNCHANGED JQ!jqVars
  <2> DEFINE r == cur[w]
  <2>1. r \in Rows /\ handledBar[r] /\ handledBar' = handledBar
    BY ZenonT(60), <1>4
       DEF Ack, HandsOK, Hands, CauseInv, CauseOK, handledBar, Returned
  <2>2. CASE status[r] = "claimed"
    BY <1>4, <2>1, <2>2 DEF Ack, SettleIfClaimed, JQ!Complete, phaseBar
  <2>3. CASE status[r] # "claimed"
    BY <1>4, <2>1, <2>3, <1>0 DEF Ack, SettleIfClaimed
  <2> QED
    BY <2>1, <2>2, <2>3
<1>5. ASSUME NEW w \in Workers, DeadLetter(w)
      PROVE  (JQ!Abandon(cur[w]) /\ cur[w] \in Rows) \/ UNCHANGED JQ!jqVars
  <2> DEFINE r == cur[w]
  <2>1. r \in Rows /\ handledBar' = handledBar
    BY <1>5 DEF DeadLetter, HandsOK, Hands, handledBar, Returned
  <2>2. CASE status[r] = "claimed"
    BY <1>5, <2>1, <2>2 DEF DeadLetter, SettleIfClaimed, JQ!Abandon, phaseBar
  <2>3. CASE status[r] # "claimed"
    BY <1>5, <2>1, <2>3, <1>0 DEF DeadLetter, SettleIfClaimed
  <2> QED
    BY <2>1, <2>2, <2>3
<1> QED
  BY <1>0, <1>1, <1>2, <1>3, <1>4, <1>5
     DEF Next, DrainStep, JQ!JQNext, StoreFailure, Crash, LoseBatch, Dispatch,
         LeaseExpires, LeaveForRetry, vars

\* No appended job is lost, settled twice, or called done without a success.
THEOREM RelayImplementsQueue == Spec => JQ!JQSafeSpec
<1>1. Init => JQ!JQInit
  BY InitRefines
<1>2. TypeOK /\ HandsOK /\ CauseInv /\ [Next]_vars => [JQ!JQNext]_(JQ!jqVars)
  BY StepRefines
<1>3. Spec => []CauseInv
  BY InitCause, StepCause, HandsInvariant, PTL DEF Spec
<1> QED
  BY <1>1, <1>2, <1>3, HandsInvariant, PTL DEF Spec, JQ!JQSafeSpec
================================================================================
