------------------------- MODULE NotifyDeliveryProofs -------------------------
(***************************************************************************)
(* Proofs about NotifyDelivery, for any number of events, channels,        *)
(* workers, crashes and failing transactions.  A step of the handler is a  *)
(* step of the relay or none, so that what OutboxRelayProofs proves holds  *)
(* of the handler's runs as well.  The invariants of the handler:          *)
(*   HandlerOK    where a worker is inside the handler fits where the      *)
(*                relay says it is                                         *)
(*   ReceiptOK    a worker about to write a receipt had its message        *)
(*                accepted                                                 *)
(*   ProgressOK   while nobody is disturbed: the channels a worker is done *)
(*                with are terminal, the one it is at is pending           *)
(***************************************************************************)
EXTENDS NotifyDelivery, OutboxRelayProofs, SequenceTheorems

\* A single worker, or several while no lease ran out under a worker and
\* nothing crashed: nobody else handles the event a worker is handling.
Undisturbed == faults = 0 \/ \A v, w \in Workers : v = w

HandlerOK ==
    \A w \in Workers :
      /\ step[w] # "out" <=> pc[w] = "handling"
      /\ step[w] \in {"deliver", "record"} => todo[w] # <<>>

ReceiptOK ==
    /\ NoReceiptWithoutMessage
    /\ ReceiptFulfilsClock
    /\ \A w \in Workers :
         step[w] = "record" /\ outcome[w] = "ok" => sent[cur[w]][Head(todo[w])] > 0

\* Every channel of event r's policy has a terminal row.
AllTerminal(r) == \A i \in DOMAIN Targets[r] : notif[r][Targets[r][i]] \in NotifTerminal

\* The channels of w's event that w is past have a terminal row.
PastTerminal(w) ==
    \A i \in DOMAIN Targets[cur[w]] :
      \/ notif[cur[w]][Targets[cur[w]][i]] \in NotifTerminal
      \/ \E j \in DOMAIN todo[w] : todo[w][j] = Targets[cur[w]][i]

WorkerOK(w) ==
    /\ step[w] \in {"deliver", "record"} => notif[cur[w]][Head(todo[w])] = "pending"
    /\ step[w] # "out" /\ "temporary" \notin saw[w] => PastTerminal(w)
    /\ pc[w] = "ok" => AllTerminal(cur[w])

ProgressOK == Undisturbed => /\ \A w \in Workers : WorkerOK(w)
                             /\ DoneHasNoOpenChannel

USE TargetsAssumption DEF NotifTerminal
USE DEF relayVars

-------------------------------------------------------------------------------
(* The handler runs under the relay *)

\* Every step of the handler is one of the relay or leaves the relay alone.
LEMMA StepOfRelay == [NotifyNext]_allVars => [Next]_vars
<1> SUFFICES ASSUME [NotifyNext]_allVars PROVE [Next]_vars
  OBVIOUS
<1>1. ASSUME NEW r \in Rows, AppendOutbox(r) \/ LeaseExpires(r) PROVE Next
  BY <1>1 DEF Next
<1>2. ASSUME NEW w \in Workers, NotifyDrainStep(w) PROVE [Next]_vars
  <2>1. CASE RelayStep(w)
    BY <2>1 DEF RelayStep, Next, DrainStep
  <2>2. ASSUME NEW r \in Rows, EnterHandler(w, r) PROVE Next
    BY <2>2 DEF EnterHandler, Next, DrainStep
  <2>3. CASE StoreRow(w) \/ Deliver(w) \/ Record(w)
    BY <2>3 DEF StoreRow, Deliver, Record
  <2>4. CASE ReturnFromHandler(w)
    <3>1. Verdict(w) \in Results
      BY DEF Verdict, Results
    <3>2. HandlerReturns(w, Verdict(w))
      BY <2>4 DEF ReturnFromHandler
    <3> QED
      BY <3>1, <3>2 DEF Next, DrainStep
  <2> QED
    BY <1>2, <2>1, <2>2, <2>3, <2>4 DEF NotifyDrainStep, HandlerStep
<1>3. ASSUME NEW w \in Workers, TxFails(w) PROVE UNCHANGED vars
  BY <1>3 DEF TxFails
<1>4. ASSUME NEW w \in Workers, Interrupted(w) PROVE Next
  BY <1>4 DEF Interrupted, Next
<1>5. CASE UNCHANGED allVars
  BY <1>5 DEF allVars
<1> QED
  BY <1>1, <1>2, <1>3, <1>4, <1>5 DEF NotifyNext

\* The handler under the relay is a relay (the safety part of FairSpec).
THEOREM HandlerRunsUnderRelay == NotifySpec => Spec
<1>1. NotifyInit => Init
  BY DEF NotifyInit
<1> QED
  BY <1>1, StepOfRelay, PTL DEF NotifySpec, Spec

-------------------------------------------------------------------------------
(* Types, and where a worker is *)

\* The head and the tail of a worker's list of channels.
LEMMA TakeApart ==
    ASSUME NEW S, NEW s \in Seq(S), s # <<>>
    PROVE  /\ Head(s) \in S /\ Tail(s) \in Seq(S)
           /\ \A i \in DOMAIN s : s[i] # Head(s) => \E j \in DOMAIN Tail(s) : Tail(s)[j] = s[i]
<1>1. /\ Head(s) \in S /\ Tail(s) \in Seq(S) /\ Len(Tail(s)) = Len(s) - 1
      /\ \A i \in 1..Len(Tail(s)) : Tail(s)[i] = s[i + 1]
  BY HeadTailProperties
<1>2. Len(s) \in Nat \ {0} /\ DOMAIN s = 1..Len(s) /\ Head(s) = s[1]
  BY EmptySeq
<1>3. DOMAIN Tail(s) = 1..(Len(s) - 1)
  BY <1>1
<1>4. ASSUME NEW i \in DOMAIN s, s[i] # Head(s)
      PROVE  \E j \in DOMAIN Tail(s) : Tail(s)[j] = s[i]
  <2>1. i - 1 \in 1..(Len(s) - 1) /\ (i - 1) + 1 = i
    BY <1>2, <1>4
  <2>2. Tail(s)[i - 1] = s[i]
    BY <1>1, <2>1
  <2> QED
    BY <1>3, <2>1, <2>2
<1> QED
  BY <1>1, <1>4

\* A worker that is at a channel of its event has both in hand.
LEMMA AtChannel ==
    ASSUME NotifyTypeOK, HandsOK, HandlerOK, NEW w \in Workers, step[w] # "out"
    PROVE  /\ cur[w] \in Rows /\ pc[w] = "handling" /\ cur[w] \in Hands(w)
           /\ todo[w] \in Seq(Channels)
           /\ todo[w] # <<>> => Head(todo[w]) \in Channels
<1>1. pc[w] = "handling" /\ todo[w] \in Seq(Channels)
  BY DEF HandlerOK, NotifyTypeOK
<1>2. cur[w] \in Hands(w)
  BY <1>1 DEF HandsOK
<1> QED
  BY <1>1, <1>2, TakeApart DEF Hands

\* Nobody is in the handler and nothing is stored.
LEMMA NotifyInitTypes == NotifyInit => NotifyTypeOK /\ HandlerOK
<1> SUFFICES ASSUME NotifyInit PROVE NotifyTypeOK /\ HandlerOK
  OBVIOUS
<1>1. TypeOK
  BY InitTypes DEF NotifyInit
<1>2. HandlerOK
  BY DEF NotifyInit, Init, HandlerOK
<1>3. [w \in Workers |-> <<>>] \in [Workers -> Seq(Channels)]
  OBVIOUS
<1>4. 0 \in 0..MaxTxFailures
  BY TxFailuresAssumption
<1> QED
  BY <1>1, <1>2, <1>3, <1>4 DEF NotifyInit, NotifyTypeOK

\* A channel that is done with, and a handler that is left.
LEMMA DoneTypes ==
    ASSUME NotifyTypeOK, HandlerOK, NEW w \in Workers, step[w] # "out", todo[w] # <<>>,
           NEW failures \in SUBSET {"temporary", "permanent"}, ChannelDone(w, failures)
    PROVE  /\ step' \in [Workers -> {"out", "store", "deliver", "record"}]
           /\ todo' \in [Workers -> Seq(Channels)]
           /\ outcome' \in [Workers -> {"ok", "temporary", "permanent"}]
           /\ saw' \in [Workers -> SUBSET {"temporary", "permanent"}]
<1>1. Tail(todo[w]) \in Seq(Channels)
  BY TakeApart DEF NotifyTypeOK
<1>2. saw[w] \union failures \in SUBSET {"temporary", "permanent"}
  BY DEF NotifyTypeOK
<1> QED
  BY <1>1, <1>2 DEF ChannelDone, NotifyTypeOK

\* The row of w's event and channel is the only one a step of w writes.
LEMMA RowWritten ==
    ASSUME NotifyTypeOK, NEW w \in Workers, NEW r \in Rows, NEW c \in Channels,
           r = cur[w], c = Head(todo[w]), NEW s \in {"absent", "pending"} \union NotifTerminal,
           SetStored(w, s)
    PROVE  /\ notif' \in [Rows -> [Channels -> {"absent", "pending"} \union NotifTerminal]]
           /\ notif'[r][c] = s
           /\ \A q \in Rows, d \in Channels : q # r \/ d # c => notif'[q][d] = notif[q][d]
<1>1. notif' = [notif EXCEPT ![r][c] = s]
  BY DEF SetStored
<1>2. notif \in [Rows -> [Channels -> {"absent", "pending"} \union NotifTerminal]]
  BY DEF NotifyTypeOK
<1> QED
  BY <1>1, <1>2

\* A message that a channel accepts, or not, is counted at that channel only.
LEMMA Accepts ==
    ASSUME NotifyTypeOK, NEW r \in Rows, NEW c \in Channels,
           sent' = [sent EXCEPT ![r][c] = @ + 1] \/ sent' = sent
    PROVE  /\ sent' \in [Rows -> [Channels -> Nat]]
           /\ \A q \in Rows, d \in Channels : sent[q][d] > 0 => sent'[q][d] > 0
           /\ sent' = [sent EXCEPT ![r][c] = @ + 1] => sent'[r][c] > 0
<1>1. sent \in [Rows -> [Channels -> Nat]]
  BY DEF NotifyTypeOK
<1>2. PICK n \in Nat : n = sent[r][c] + 1 /\ n > 0
  BY <1>1
<1>3. CASE sent' = [sent EXCEPT ![r][c] = n]
  BY <1>1, <1>2, <1>3
<1>4. CASE sent' = sent
  BY <1>1, <1>4
<1> QED
  BY <1>2, <1>3, <1>4

\* Every step keeps the types and the place of a worker in the handler.
LEMMA NotifyStepTypes ==
    NotifyTypeOK /\ HandsOK /\ HandlerOK /\ [NotifyNext]_allVars => (NotifyTypeOK /\ HandlerOK)'
<1> SUFFICES ASSUME NotifyTypeOK, HandsOK, HandlerOK, [NotifyNext]_allVars
             PROVE  NotifyTypeOK' /\ HandlerOK'
  OBVIOUS
<1>1. TypeOK'
  BY StepTypes, StepOfRelay DEF NotifyTypeOK
<1>2. ASSUME UNCHANGED notifyVars,
             \A w \in Workers : pc'[w] = "handling" <=> pc[w] = "handling"
      PROVE  NotifyTypeOK' /\ HandlerOK'
  BY <1>1, <1>2 DEF NotifyTypeOK, HandlerOK, notifyVars, handlerVars
<1>3. ASSUME NEW r \in Rows, AppendOutbox(r) \/ LeaseExpires(r), UNCHANGED notifyVars
      PROVE  NotifyTypeOK' /\ HandlerOK'
  BY <1>2, <1>3 DEF AppendOutbox, LeaseExpires, local
<1>4. ASSUME NEW w \in Workers, RelayStep(w) PROVE NotifyTypeOK' /\ HandlerOK'
  <2>1. \A v \in Workers : pc'[v] = "handling" <=> pc[v] = "handling"
    BY <1>4, <1>1 DEF RelayStep, ClaimBatch, Ack, LeaveForRetry, DeadLetter, NextEvent, MayRetry,
                      NotifyTypeOK, TypeOK
  <2> QED
    BY <1>2, <1>4, <2>1 DEF RelayStep
<1>5. ASSUME NEW w \in Workers, NEW r \in Rows, EnterHandler(w, r)
      PROVE  NotifyTypeOK' /\ HandlerOK'
  <2>1. CASE r \in Registered
    <3>1. /\ step' = [step EXCEPT ![w] = "store"] /\ todo' = [todo EXCEPT ![w] = Targets[r]]
          /\ pc' = [pc EXCEPT ![w] = "handling"]
          /\ UNCHANGED <<notif, clock, sent, outcome, saw, txFailures>>
      BY <1>5, <2>1 DEF EnterHandler, Dispatch
    <3> QED
      BY <1>1, <3>1 DEF NotifyTypeOK, TypeOK, HandlerOK
  <2>2. CASE r \notin Registered
    <3>1. pc[w] = "next" /\ pc' = [pc EXCEPT ![w] = "permanent"] /\ UNCHANGED notifyVars
      BY <1>5, <2>2 DEF EnterHandler, Dispatch, notifyVars, handlerVars
    <3> QED
      BY <1>2, <3>1 DEF NotifyTypeOK, TypeOK
  <2> QED
    BY <2>1, <2>2
<1>6. ASSUME NEW w \in Workers, NEW failures \in SUBSET {"temporary", "permanent"},
             step[w] # "out", todo[w] # <<>>, ChannelDone(w, failures), UNCHANGED relayVars,
             notif' \in [Rows -> [Channels -> {"absent", "pending"} \union NotifTerminal]],
             clock' \in {"open", "fulfilled"}, sent' = sent, txFailures' \in 0..MaxTxFailures
      PROVE  NotifyTypeOK' /\ HandlerOK'
  <2>1. HandlerOK'
    BY <1>6 DEF ChannelDone, HandlerOK, NotifyTypeOK, vars, local
  <2> QED
    BY <1>1, <1>6, <2>1, DoneTypes DEF NotifyTypeOK
<1>7. ASSUME NEW w \in Workers, StoreRow(w) PROVE NotifyTypeOK' /\ HandlerOK'
  <2>1. step[w] = "store" /\ todo[w] # <<>> /\ UNCHANGED <<vars, clock, sent, txFailures>>
    BY <1>7 DEF StoreRow
  <2>2. CASE ChannelDone(w, {}) /\ UNCHANGED notif
    BY <1>6, <2>1, <2>2 DEF NotifyTypeOK
  <2>3. CASE SetStored(w, "pending") /\ step' = [step EXCEPT ![w] = "deliver"]
             /\ UNCHANGED <<todo, outcome, saw>>
    <3>1. notif' \in [Rows -> [Channels -> {"absent", "pending"} \union NotifTerminal]]
      BY <2>1, <2>3, AtChannel, RowWritten
    <3>2. HandlerOK'
      BY <2>1, <2>3 DEF HandlerOK, NotifyTypeOK, vars, local
    <3> QED
      BY <1>1, <2>1, <2>3, <3>1, <3>2 DEF NotifyTypeOK
  <2> QED
    BY <1>7, <2>2, <2>3 DEF StoreRow
<1>8. ASSUME NEW w \in Workers, Deliver(w) PROVE NotifyTypeOK' /\ HandlerOK'
  <2>1. PICK res \in {"ok", "temporary", "permanent"} : outcome' = [outcome EXCEPT ![w] = res]
    BY <1>8 DEF Deliver
  <2>2. /\ step[w] = "deliver" /\ step' = [step EXCEPT ![w] = "record"]
        /\ UNCHANGED <<vars, notif, clock, todo, saw, txFailures>>
    BY <1>8 DEF Deliver
  <2>3. sent' = [sent EXCEPT ![cur[w]][Head(todo[w])] = @ + 1] \/ sent' = sent
    BY <1>8 DEF Deliver
  <2>4. cur[w] \in Rows /\ Head(todo[w]) \in Channels
    BY <2>2, AtChannel DEF HandlerOK
  <2>5. sent' \in [Rows -> [Channels -> Nat]]
    BY <2>3, <2>4, Accepts
  <2>6. HandlerOK'
    BY <2>2 DEF HandlerOK, NotifyTypeOK, vars, local
  <2> QED
    BY <1>1, <2>1, <2>2, <2>5, <2>6 DEF NotifyTypeOK
<1>9. ASSUME NEW w \in Workers, Record(w) PROVE NotifyTypeOK' /\ HandlerOK'
  <2>1. /\ step[w] = "record" /\ SetStored(w, Receipt[outcome[w]])
        /\ ChannelDone(w, FailureClass(outcome[w])) /\ UNCHANGED <<vars, sent, txFailures>>
    BY <1>9 DEF Record
  <2>2. todo[w] # <<>> /\ clock' \in {"open", "fulfilled"}
    BY <1>9, <2>1 DEF Record, HandlerOK, NotifyTypeOK
  <2>3. outcome[w] \in {"ok", "temporary", "permanent"}
    BY DEF NotifyTypeOK
  <2>4. /\ Receipt[outcome[w]] \in {"absent", "pending"} \union NotifTerminal
        /\ FailureClass(outcome[w]) \in SUBSET {"temporary", "permanent"}
    BY <2>3 DEF Receipt, FailureClass
  <2>5. notif' \in [Rows -> [Channels -> {"absent", "pending"} \union NotifTerminal]]
    BY <2>1, <2>2, <2>4, AtChannel, RowWritten
  <2> QED
    BY <1>6, <2>1, <2>2, <2>4, <2>5 DEF NotifyTypeOK
<1>10. ASSUME NEW w \in Workers, TxFails(w) PROVE NotifyTypeOK' /\ HandlerOK'
  <2>1. /\ step[w] # "out" /\ todo[w] # <<>> /\ ChannelDone(w, {"temporary"})
        /\ UNCHANGED <<vars, notif, clock, sent>>
    BY <1>10 DEF TxFails, HandlerOK
  <2>2. txFailures' \in 0..MaxTxFailures
    BY <1>10, TxFailuresAssumption DEF TxFails, NotifyTypeOK
  <2> QED
    BY <1>6, <2>1, <2>2 DEF NotifyTypeOK
<1>11. ASSUME NEW w \in Workers, LeaveHandler(w), UNCHANGED <<notif, clock, sent, txFailures>>,
              \A v \in Workers : pc'[v] = "handling" <=> pc[v] = "handling" /\ v # w
       PROVE  NotifyTypeOK' /\ HandlerOK'
  <2>1. <<>> \in Seq(Channels)
    OBVIOUS
  <2> QED
    BY <1>1, <1>11, <2>1 DEF LeaveHandler, NotifyTypeOK, HandlerOK
<1>12. ASSUME NEW w \in Workers, ReturnFromHandler(w) PROVE NotifyTypeOK' /\ HandlerOK'
  <2>1. Verdict(w) \in Results /\ "handling" \notin Results
    BY DEF Verdict, Results
  <2>2. pc' = [pc EXCEPT ![w] = Verdict(w)]
    BY <1>12 DEF ReturnFromHandler, HandlerReturns
  <2>3. \A v \in Workers : pc'[v] = "handling" <=> pc[v] = "handling" /\ v # w
    BY <2>1, <2>2 DEF NotifyTypeOK, TypeOK
  <2> QED
    BY <1>11, <1>12, <2>3 DEF ReturnFromHandler
<1>13. ASSUME NEW w \in Workers, Interrupted(w) PROVE NotifyTypeOK' /\ HandlerOK'
  <2>1. pc' = [pc EXCEPT ![w] = "next"]
    BY <1>13 DEF Interrupted, StoreFailure, Crash, LoseBatch
  <2>2. \A v \in Workers : pc'[v] = "handling" <=> pc[v] = "handling" /\ v # w
    BY <2>1 DEF NotifyTypeOK, TypeOK
  <2> QED
    BY <1>11, <1>13, <2>2 DEF Interrupted
<1>14. CASE UNCHANGED allVars
  BY <1>2, <1>14 DEF allVars, vars, local
<1> QED
  BY <1>3, <1>4, <1>5, <1>7, <1>8, <1>9, <1>10, <1>12, <1>13, <1>14
     DEF NotifyNext, NotifyDrainStep, HandlerStep

\* The invariants that need no other.
NotifyBase == NotifyTypeOK /\ HandsOK /\ HandlerOK

\* The type invariant of the handler, for any number of workers.
THEOREM NotifyTypesHold == NotifySpec => []NotifyBase
<1>1. NotifyInit => NotifyTypeOK /\ HandlerOK
  BY NotifyInitTypes
<1>2. NotifyTypeOK /\ HandsOK /\ HandlerOK /\ [NotifyNext]_allVars => (NotifyTypeOK /\ HandlerOK)'
  BY NotifyStepTypes
<1> QED
  BY <1>1, <1>2, HandlerRunsUnderRelay, HandsInvariant, PTL DEF NotifySpec, NotifyBase

-------------------------------------------------------------------------------
(* Receipts *)

\* A step that writes no row, sends nothing and brings no worker to a channel.
Quiet == /\ UNCHANGED <<notif, clock, sent>>
         /\ \A w \in Workers : step'[w] \in {"deliver", "record"} =>
              /\ step'[w] = step[w] /\ cur'[w] = cur[w]
              /\ todo'[w] = todo[w] /\ outcome'[w] = outcome[w]

\* Three steps of the handler write a row, send a message or go to a channel.
LEMMA WhoIsNotQuiet ==
    ASSUME NotifyBase, [NotifyNext]_allVars
    PROVE  Quiet \/ \E w \in Workers : StoreRow(w) \/ Deliver(w) \/ Record(w)
<1> USE DEF NotifyBase
<1>1. ASSUME UNCHANGED notifyVars, \A w \in Workers : cur'[w] = cur[w] \/ pc[w] # "handling"
      PROVE  Quiet
  BY <1>1 DEF Quiet, notifyVars, handlerVars, HandlerOK
<1>2. ASSUME NEW r \in Rows, AppendOutbox(r) \/ LeaseExpires(r), UNCHANGED notifyVars PROVE Quiet
  BY <1>1, <1>2 DEF AppendOutbox, LeaseExpires, local
<1>3. ASSUME NEW w \in Workers, RelayStep(w) PROVE Quiet
  BY <1>1, <1>3 DEF RelayStep, ClaimBatch, Ack, LeaveForRetry, DeadLetter, NextEvent, MayRetry,
                    NotifyTypeOK, TypeOK
<1>4. ASSUME NEW w \in Workers, NEW r \in Rows, EnterHandler(w, r) PROVE Quiet
  <2>1. CASE r \in Registered
    BY <1>4, <2>1 DEF EnterHandler, Dispatch, Quiet, NotifyTypeOK, TypeOK
  <2>2. CASE r \notin Registered
    BY <1>1, <1>4, <2>2 DEF EnterHandler, Dispatch, notifyVars, handlerVars, NotifyTypeOK, TypeOK
  <2> QED
    BY <2>1, <2>2
<1>5. ASSUME NEW w \in Workers, LeaveHandler(w), UNCHANGED <<notif, clock, sent>>,
             \A v \in Workers \ {w} : cur'[v] = cur[v]
      PROVE  Quiet
  BY <1>5 DEF LeaveHandler, Quiet, NotifyTypeOK
<1>6. ASSUME NEW w \in Workers, ReturnFromHandler(w) PROVE Quiet
  BY <1>5, <1>6 DEF ReturnFromHandler, HandlerReturns
<1>7. ASSUME NEW w \in Workers, Interrupted(w) PROVE Quiet
  BY <1>5, <1>7 DEF Interrupted, StoreFailure, Crash, LoseBatch, NotifyTypeOK, TypeOK
<1>8. ASSUME NEW w \in Workers, TxFails(w) PROVE Quiet
  BY <1>8 DEF TxFails, ChannelDone, Quiet, NotifyTypeOK, vars, local
<1>9. CASE UNCHANGED allVars
  BY <1>1, <1>9 DEF allVars, vars, local
<1> QED
  BY <1>2, <1>3, <1>4, <1>6, <1>7, <1>8, <1>9 DEF NotifyNext, NotifyDrainStep, HandlerStep

\* What a delivery returned is kept with the message it counted until it is
\* recorded, whatever other workers do: a message that was sent stays sent.
LEMMA ReceiptStep == NotifyBase /\ ReceiptOK /\ [NotifyNext]_allVars => ReceiptOK'
<1> SUFFICES ASSUME NotifyBase, ReceiptOK, [NotifyNext]_allVars PROVE ReceiptOK'
  OBVIOUS
<1> USE DEF NotifyBase
<1> DEFINE Sends(w) == step[w] = "record" /\ outcome[w] = "ok" => sent[cur[w]][Head(todo[w])] > 0
<1>0. ClockEvents \subseteq Rows
  BY ClockEventsAssumption
<1>1. CASE Quiet
  BY <1>1 DEF Quiet, ReceiptOK, NoReceiptWithoutMessage, ReceiptFulfilsClock
<1>2. ASSUME NEW w \in Workers, step[w] # "out", todo[w] # <<>>
      PROVE  cur[w] \in Rows /\ Head(todo[w]) \in Channels
  BY <1>2, AtChannel
<1>3. ASSUME NEW w \in Workers, StoreRow(w) PROVE ReceiptOK'
  <2>1. PICK r \in Rows, c \in Channels : r = cur[w] /\ c = Head(todo[w])
    BY <1>2, <1>3 DEF StoreRow
  <2>2. /\ UNCHANGED <<clock, sent, cur>>
        /\ \A v \in Workers : step'[v] = "record" =>
             step[v] = "record" /\ outcome'[v] = outcome[v] /\ todo'[v] = todo[v]
    BY <1>3 DEF StoreRow, ChannelDone, NotifyTypeOK, vars, local
  <2>3. notif' = notif \/ SetStored(w, "pending")
    BY <1>3 DEF StoreRow
  <2>4. \A q \in Rows, d \in Channels : notif'[q][d] = "delivered" => notif[q][d] = "delivered"
    BY <2>1, <2>3, RowWritten
  <2> QED
    BY <1>0, <2>2, <2>4 DEF ReceiptOK, NoReceiptWithoutMessage, ReceiptFulfilsClock
<1>4. ASSUME NEW w \in Workers, Deliver(w) PROVE ReceiptOK'
  <2>1. PICK r \in Rows, c \in Channels : r = cur[w] /\ c = Head(todo[w])
    BY <1>2, <1>4 DEF Deliver, HandlerOK
  <2>2. /\ sent' = [sent EXCEPT ![r][c] = @ + 1] \/ sent' = sent
        /\ outcome'[w] = "ok" => sent' = [sent EXCEPT ![r][c] = @ + 1]
    BY <1>4, <2>1 DEF Deliver, NotifyTypeOK
  <2>3. /\ \A q \in Rows, d \in Channels : sent[q][d] > 0 => sent'[q][d] > 0
        /\ outcome'[w] = "ok" => sent'[r][c] > 0
    BY <2>2, Accepts
  <2>4. /\ UNCHANGED <<notif, clock, cur, todo>>
        /\ \A v \in Workers \ {w} : step'[v] = step[v] /\ outcome'[v] = outcome[v]
    BY <1>4 DEF Deliver, NotifyTypeOK, vars, local
  <2>5. \A v \in Workers : Sends(v)'
    <3>1. ASSUME NEW v \in Workers \ {w}, step[v] = "record", outcome[v] = "ok"
          PROVE  sent'[cur[v]][Head(todo[v])] > 0
      BY <1>2, <2>3, <3>1 DEF ReceiptOK, HandlerOK
    <3> QED
      BY <2>1, <2>3, <2>4, <3>1
  <2> QED
    BY <1>0, <2>3, <2>4, <2>5 DEF ReceiptOK, NoReceiptWithoutMessage, ReceiptFulfilsClock
<1>5. ASSUME NEW w \in Workers, Record(w) PROVE ReceiptOK'
  <2>1. PICK r \in Rows, c \in Channels : r = cur[w] /\ c = Head(todo[w])
    BY <1>2, <1>5 DEF Record, HandlerOK
  <2>2. /\ step[w] = "record" /\ SetStored(w, Receipt[outcome[w]]) /\ UNCHANGED <<sent, cur>>
        /\ clock' = IF outcome[w] = "ok" /\ r \in ClockEvents THEN "fulfilled" ELSE clock
        /\ outcome[w] \in {"ok", "temporary", "permanent"}
    BY <1>5, <2>1 DEF Record, NotifyTypeOK, vars, local
  <2>3. outcome[w] = "ok" => sent[r][c] > 0
    BY <2>1, <2>2 DEF ReceiptOK
  <2>4. /\ Receipt[outcome[w]] \in {"absent", "pending"} \union NotifTerminal
        /\ Receipt[outcome[w]] = "delivered" => outcome[w] = "ok"
    BY <2>2 DEF Receipt
  <2>5. \A q \in Rows, d \in Channels : notif'[q][d] = "delivered" =>
          notif[q][d] = "delivered" \/ (q = r /\ d = c /\ outcome[w] = "ok")
    BY <2>1, <2>2, <2>4, RowWritten
  <2>6. \A v \in Workers : step'[v] = "record" =>
          step[v] = "record" /\ outcome'[v] = outcome[v] /\ todo'[v] = todo[v]
    BY <1>5 DEF Record, ChannelDone, NotifyTypeOK
  <2>7. NoReceiptWithoutMessage'
    BY <2>2, <2>3, <2>5 DEF ReceiptOK, NoReceiptWithoutMessage
  <2>8. ReceiptFulfilsClock'
    BY <1>0, <2>2, <2>5 DEF ReceiptOK, ReceiptFulfilsClock
  <2> QED
    BY <2>2, <2>6, <2>7, <2>8 DEF ReceiptOK
<1> QED
  BY <1>1, <1>3, <1>4, <1>5, WhoIsNotQuiet

\* NoReceiptWithoutMessage: a row says delivered, and the notification clock is
\* fulfilled, only after a message of that event was accepted (deliverChannel).
THEOREM ReceiptsAreTrue == NotifySpec => []NoReceiptWithoutMessage
<1>1. NotifyInit => ReceiptOK
  BY ClockEventsAssumption DEF NotifyInit, ReceiptOK, NoReceiptWithoutMessage, ReceiptFulfilsClock
<1>2. NotifyBase /\ ReceiptOK /\ [NotifyNext]_allVars => ReceiptOK'
  BY ReceiptStep
<1>3. ReceiptOK => NoReceiptWithoutMessage
  BY DEF ReceiptOK
<1> QED
  BY <1>1, <1>2, <1>3, NotifyTypesHold, PTL DEF NotifySpec

\* NotifyDelivery.ReceiptFulfilsClock: a delivered row of a P1 event and an open
\* notification clock never stand side by side, for the two are one transaction.
THEOREM ReceiptsFulfilClocks == NotifySpec => []ReceiptFulfilsClock
<1>1. NotifyInit => ReceiptOK
  BY ClockEventsAssumption DEF NotifyInit, ReceiptOK, NoReceiptWithoutMessage, ReceiptFulfilsClock
<1>2. NotifyBase /\ ReceiptOK /\ [NotifyNext]_allVars => ReceiptOK'
  BY ReceiptStep
<1>3. ReceiptOK => ReceiptFulfilsClock
  BY DEF ReceiptOK
<1> QED
  BY <1>1, <1>2, <1>3, NotifyTypesHold, PTL DEF NotifySpec

-------------------------------------------------------------------------------
(* Progress of an undisturbed worker *)

\* What is final about the rows of notifications.
FinalNotifications ==
    \A r \in Rows, c \in Channels : notif[r][c] \in NotifTerminal => notif'[r][c] = notif[r][c]

\* Undisturbed workers handle different events.
LEMMA Apart ==
    ASSUME NotifyBase, ExclusiveOK, Undisturbed,
           NEW v \in Workers, NEW w \in Workers, v # w, step[v] # "out", step[w] # "out"
    PROVE  cur[v] # cur[w]
<1>1. faults = 0
  BY DEF Undisturbed
<1>2. cur[v] \in Hands(v) /\ cur[w] \in Hands(w)
  BY AtChannel DEF NotifyBase
<1> QED
  BY <1>1, <1>2 DEF ExclusiveOK

\* A step of the handler writes over a pending or absent row only.
LEMMA TerminalStays ==
    ASSUME NotifyBase, ProgressOK, Undisturbed, [NotifyNext]_allVars
    PROVE  FinalNotifications
<1> USE DEF NotifyBase
<1>1. ASSUME NEW w \in Workers, step[w] # "out", todo[w] # <<>>
      PROVE  cur[w] \in Rows /\ Head(todo[w]) \in Channels
  BY <1>1, AtChannel
<1>2. CASE Quiet
  BY <1>2 DEF Quiet, FinalNotifications
<1>3. ASSUME NEW w \in Workers, StoreRow(w) PROVE FinalNotifications
  <2>1. PICK r \in Rows, c \in Channels : r = cur[w] /\ c = Head(todo[w])
    BY <1>1, <1>3 DEF StoreRow
  <2>2. notif' = notif \/ (SetStored(w, "pending") /\ notif[r][c] \notin NotifTerminal)
    BY <1>3, <2>1 DEF StoreRow, Stored
  <2>3. CASE notif' = notif
    BY <2>3 DEF FinalNotifications
  <2>4. CASE SetStored(w, "pending") /\ notif[r][c] \notin NotifTerminal
    BY <2>1, <2>4, RowWritten DEF FinalNotifications
  <2> QED
    BY <2>2, <2>3, <2>4
<1>4. ASSUME NEW w \in Workers, Deliver(w) PROVE FinalNotifications
  BY <1>4 DEF Deliver, FinalNotifications
<1>5. ASSUME NEW w \in Workers, Record(w) PROVE FinalNotifications
  <2>1. PICK r \in Rows, c \in Channels : r = cur[w] /\ c = Head(todo[w])
    BY <1>1, <1>5 DEF Record, HandlerOK
  <2>2. SetStored(w, Receipt[outcome[w]]) /\ notif[r][c] = "pending"
    BY <1>5, <2>1 DEF Record, ProgressOK, WorkerOK
  <2>3. Receipt[outcome[w]] \in {"absent", "pending"} \union NotifTerminal
    BY DEF Receipt, NotifyTypeOK
  <2> QED
    BY <2>1, <2>2, <2>3, RowWritten DEF FinalNotifications
<1> QED
  BY <1>2, <1>3, <1>4, <1>5, WhoIsNotQuiet

\* A worker that goes on to its next channel has a terminal row at the one it
\* leaves, or has seen a temporary failure.
LEMMA PastStays ==
    ASSUME NotifyBase, FinalNotifications, NEW w \in Workers, step[w] # "out", todo[w] # <<>>,
           PastTerminal(w), NEW failures, ChannelDone(w, failures),
           notif'[cur[w]][Head(todo[w])] \in NotifTerminal, cur'[w] = cur[w]
    PROVE  PastTerminal(w)'
<1>1. PICK r \in Rows, c \in Channels : r = cur[w] /\ c = Head(todo[w])
  BY AtChannel DEF NotifyBase
<1>2. todo'[w] = Tail(todo[w]) /\ todo[w] \in Seq(Channels)
  BY DEF ChannelDone, NotifyBase, NotifyTypeOK
<1>3. \A i \in DOMAIN Targets[r] : Targets[r][i] \in Channels
  OBVIOUS
<1>4. ASSUME NEW i \in DOMAIN Targets[r], NEW j \in DOMAIN todo[w], todo[w][j] = Targets[r][i],
             Targets[r][i] # c
      PROVE  \E k \in DOMAIN Tail(todo[w]) : Tail(todo[w])[k] = Targets[r][i]
  BY <1>1, <1>2, <1>4, TakeApart
<1>5. ASSUME NEW i \in DOMAIN Targets[r], notif'[r][Targets[r][i]] \notin NotifTerminal
      PROVE  \E k \in DOMAIN Tail(todo[w]) : Tail(todo[w])[k] = Targets[r][i]
  <2>1. notif[r][Targets[r][i]] \notin NotifTerminal
    BY <1>3, <1>5 DEF FinalNotifications
  <2>2. Targets[r][i] # c
    BY <1>1, <1>5
  <2>3. PICK j \in DOMAIN todo[w] : todo[w][j] = Targets[r][i]
    BY <1>1, <2>1 DEF PastTerminal
  <2> QED
    BY <1>4, <2>2, <2>3
<1> QED
  BY <1>1, <1>2, <1>5 DEF PastTerminal

\* Whatever a step does elsewhere, channels that are done with stay so.
LEMMA Keeps ==
    ASSUME FinalNotifications
    PROVE  /\ \A r \in Rows : AllTerminal(r) => AllTerminal(r)'
           /\ \A w \in Workers : cur[w] \in Rows /\ cur'[w] = cur[w] /\ todo'[w] = todo[w]
                /\ PastTerminal(w) => PastTerminal(w)'
<1>1. \A r \in Rows : \A i \in DOMAIN Targets[r] : Targets[r][i] \in Channels
  OBVIOUS
<1>2. \A r \in Rows : \A i \in DOMAIN Targets[r] :
        notif[r][Targets[r][i]] \in NotifTerminal => notif'[r][Targets[r][i]] \in NotifTerminal
  BY <1>1 DEF FinalNotifications
<1> QED
  BY <1>2 DEF AllTerminal, PastTerminal

\* Nobody becomes undisturbed again.
LEMMA DisturbedStays == TypeOK /\ [Next]_vars /\ Undisturbed' => Undisturbed
<1> SUFFICES ASSUME TypeOK, [Next]_vars, faults' = 0 PROVE faults = 0
  BY DEF Undisturbed
<1>1. faults \in Nat
  BY LimitsAssumption DEF TypeOK
<1>2. faults' = faults \/ faults' = faults + 1
  BY DEF Next, AppendOutbox, LeaseExpires, DrainStep, ClaimBatch, Dispatch, HandlerReturns, Ack,
         LeaveForRetry, DeadLetter, StoreFailure, Crash, LoseBatch, vars
<1> QED
  BY <1>1, <1>2

\* A step of one worker leaves what is known of the others.
LEMMA OthersKeep ==
    ASSUME NotifyBase, ExclusiveOK, ProgressOK, Undisturbed, FinalNotifications,
           NEW w \in Workers, WorkerOK(w)',
           \A v \in Workers \ {w} : /\ step'[v] = step[v] /\ todo'[v] = todo[v] /\ saw'[v] = saw[v]
                                   /\ cur'[v] = cur[v] /\ pc'[v] = pc[v],
           \/ notif' = notif
           \/ /\ step[w] # "out"
              /\ \A q \in Rows \ {cur[w]}, d \in Channels : notif'[q][d] = notif[q][d],
           \A r \in Rows : status'[r] = "done" =>
               status[r] = "done" \/ (pc[w] = "ok" /\ r = cur[w])
    PROVE  ProgressOK'
<1> USE DEF NotifyBase
<1>1. ASSUME NEW v \in Workers \ {w} PROVE WorkerOK(v)'
  <2>1. WorkerOK(v)
    BY DEF ProgressOK
  <2>2. step[v] \in {"deliver", "record"} => notif'[cur[v]][Head(todo[v])] = "pending"
    <3> SUFFICES ASSUME step[v] \in {"deliver", "record"}
                 PROVE  notif'[cur[v]][Head(todo[v])] = notif[cur[v]][Head(todo[v])]
      BY <2>1 DEF WorkerOK
    <3>1. cur[v] \in Rows /\ Head(todo[v]) \in Channels
      BY AtChannel DEF HandlerOK
    <3>2. step[w] # "out" => cur[v] # cur[w]
      BY Apart
    <3> QED
      BY <3>1, <3>2
  <2>3. step[v] # "out" /\ "temporary" \notin saw[v] => PastTerminal(v)'
    BY <2>1, AtChannel, Keeps DEF WorkerOK
  <2>4. pc[v] = "ok" => AllTerminal(cur[v])'
    <3> SUFFICES ASSUME pc[v] = "ok" PROVE AllTerminal(cur[v])'
      OBVIOUS
    <3>1. PICK r \in Rows : r = cur[v]
      BY DEF HandsOK, Hands
    <3> QED
      BY <2>1, <3>1, Keeps DEF WorkerOK, AllTerminal
  <2> QED
    BY <2>2, <2>3, <2>4 DEF WorkerOK, AllTerminal
<1>2. \A r \in Rows : status'[r] = "done" => AllTerminal(r)
  BY DEF ProgressOK, WorkerOK, DoneHasNoOpenChannel, AllTerminal
<1>3. DoneHasNoOpenChannel'
  BY <1>2, Keeps DEF DoneHasNoOpenChannel, AllTerminal
<1> QED
  BY <1>1, <1>3 DEF ProgressOK

\* One step per action of the handler and of the relay.
LEMMA ProgressStep == NotifyBase /\ ExclusiveOK /\ ProgressOK /\ [NotifyNext]_allVars => ProgressOK'
<1> SUFFICES ASSUME NotifyBase, ExclusiveOK, ProgressOK, [NotifyNext]_allVars, Undisturbed'
             PROVE  ProgressOK'
  BY DEF ProgressOK
<1> USE DEF NotifyBase
<1>1. Undisturbed /\ FinalNotifications /\ \A w \in Workers : WorkerOK(w)
  <2>1. Undisturbed
    BY DisturbedStays, StepOfRelay DEF NotifyTypeOK
  <2> QED
    BY <2>1, TerminalStays DEF ProgressOK
<1>2. ASSUME NEW w \in Workers, notif' = notif, WorkerOK(w)',
             \A v \in Workers \ {w} : /\ step'[v] = step[v] /\ todo'[v] = todo[v] /\ saw'[v] = saw[v]
                                     /\ cur'[v] = cur[v] /\ pc'[v] = pc[v],
             \A r \in Rows : status'[r] = "done" =>
               status[r] = "done" \/ (pc[w] = "ok" /\ r = cur[w])
      PROVE  ProgressOK'
  BY <1>1, <1>2, OthersKeep
<1>3. ASSUME NEW r \in Rows, AppendOutbox(r) \/ LeaseExpires(r), UNCHANGED notifyVars
      PROVE  ProgressOK'
  <2>1. /\ UNCHANGED <<cur, pc, step, todo, saw, notif>>
        /\ \A q \in Rows : status'[q] = "done" => status[q] = "done"
    BY <1>3 DEF AppendOutbox, LeaseExpires, notifyVars, handlerVars, local, NotifyTypeOK, TypeOK
  <2> QED
    BY <1>1, <2>1 DEF ProgressOK, WorkerOK, PastTerminal, AllTerminal, DoneHasNoOpenChannel
<1>4. ASSUME NEW w \in Workers, RelayStep(w) PROVE ProgressOK'
  <2>1. /\ UNCHANGED <<step, todo, saw, notif>> /\ step[w] = "out" /\ pc'[w] = "next"
        /\ \A v \in Workers \ {w} : cur'[v] = cur[v] /\ pc'[v] = pc[v]
    BY <1>4 DEF RelayStep, ClaimBatch, Ack, LeaveForRetry, DeadLetter, NextEvent, MayRetry,
                notifyVars, handlerVars, NotifyTypeOK, TypeOK, HandlerOK
  <2>2. \A r \in Rows : status'[r] = "done" => status[r] = "done" \/ (pc[w] = "ok" /\ r = cur[w])
    BY <1>4 DEF RelayStep, ClaimBatch, Ack, LeaveForRetry, DeadLetter, SettleIfClaimed,
                NotifyTypeOK, TypeOK, rows
  <2>3. WorkerOK(w)'
    BY <2>1 DEF WorkerOK
  <2> QED
    BY <1>2, <2>1, <2>2, <2>3
<1>5. ASSUME NEW w \in Workers, NEW r \in Rows, EnterHandler(w, r) PROVE ProgressOK'
  <2>1. /\ cur' = [cur EXCEPT ![w] = r] /\ UNCHANGED <<notif, saw, status>>
        /\ \A v \in Workers \ {w} : pc'[v] = pc[v] /\ step'[v] = step[v] /\ todo'[v] = todo[v]
    BY <1>5 DEF EnterHandler, Dispatch, NotifyTypeOK, TypeOK, rows
  <2>2. CASE r \in Registered
    <3>1. pc'[w] = "handling" /\ step'[w] = "store" /\ todo'[w] = Targets[r] /\ cur'[w] = r
      BY <1>5, <2>2 DEF EnterHandler, Dispatch, NotifyTypeOK, TypeOK
    <3>2. PastTerminal(w)'
      BY <3>1 DEF PastTerminal
    <3> QED
      BY <1>2, <2>1, <3>1, <3>2 DEF WorkerOK, NotifyTypeOK, TypeOK
  <2>3. CASE r \notin Registered
    <3>1. pc'[w] = "permanent" /\ step'[w] = "out"
      BY <1>5, <2>3 DEF EnterHandler, Dispatch, NotifyTypeOK, TypeOK, HandlerOK
    <3> QED
      BY <1>2, <2>1, <3>1 DEF WorkerOK, NotifyTypeOK, TypeOK
  <2> QED
    BY <2>2, <2>3
<1>6. ASSUME NEW w \in Workers, StoreRow(w) PROVE ProgressOK'
  <2>1. /\ step[w] = "store" /\ todo[w] # <<>> /\ pc[w] = "handling"
        /\ UNCHANGED <<cur, pc, status>>
        /\ \A v \in Workers \ {w} : step'[v] = step[v] /\ todo'[v] = todo[v] /\ saw'[v] = saw[v]
    BY <1>6 DEF StoreRow, ChannelDone, HandlerOK, NotifyTypeOK, vars, local, rows
  <2>2. PICK r \in Rows, c \in Channels : r = cur[w] /\ c = Head(todo[w])
    BY <2>1, AtChannel
  <2>3. CASE notif[r][c] \in NotifTerminal /\ ChannelDone(w, {}) /\ UNCHANGED notif
    <3>1. step'[w] = "store" /\ saw'[w] = saw[w]
      BY <2>3 DEF ChannelDone, NotifyTypeOK
    <3>2. "temporary" \notin saw[w] => PastTerminal(w)
      BY <1>1, <2>1 DEF WorkerOK
    <3>3. "temporary" \notin saw[w] => PastTerminal(w)'
      BY <1>1, <2>1, <2>2, <2>3, <3>2, PastStays
    <3> QED
      BY <1>2, <2>1, <2>3, <3>1, <3>3 DEF WorkerOK
  <2>4. CASE SetStored(w, "pending") /\ step' = [step EXCEPT ![w] = "deliver"]
             /\ UNCHANGED <<todo, saw>>
    <3>1. notif'[r][c] = "pending" /\ \A q \in Rows \ {r}, d \in Channels : notif'[q][d] = notif[q][d]
      BY <2>2, <2>4, RowWritten
    <3>2. "temporary" \notin saw[w] => PastTerminal(w)'
      BY <1>1, <2>1, <2>2, <2>4, Keeps DEF WorkerOK
    <3>3. WorkerOK(w)'
      BY <2>1, <2>2, <2>4, <3>1, <3>2 DEF WorkerOK
    <3> QED
      BY <1>1, <2>1, <2>2, <3>1, <3>3, OthersKeep
  <2> QED
    BY <1>6, <2>2, <2>3, <2>4 DEF StoreRow, Stored
<1>7. ASSUME NEW w \in Workers, Deliver(w) PROVE ProgressOK'
  <2>1. /\ step[w] = "deliver" /\ pc[w] = "handling" /\ step'[w] = "record"
        /\ UNCHANGED <<notif, cur, pc, status, todo, saw>>
        /\ \A v \in Workers \ {w} : step'[v] = step[v]
    BY <1>7 DEF Deliver, HandlerOK, NotifyTypeOK, vars, local, rows
  <2>2. WorkerOK(w)'
    BY <1>1, <2>1 DEF WorkerOK, PastTerminal
  <2> QED
    BY <1>2, <2>1, <2>2
<1>8. ASSUME NEW w \in Workers, Record(w) PROVE ProgressOK'
  <2>1. /\ step[w] = "record" /\ todo[w] # <<>> /\ pc[w] = "handling"
        /\ SetStored(w, Receipt[outcome[w]]) /\ ChannelDone(w, FailureClass(outcome[w]))
        /\ UNCHANGED <<cur, pc, status>> /\ outcome[w] \in {"ok", "temporary", "permanent"}
    BY <1>8 DEF Record, HandlerOK, NotifyTypeOK, vars, local, rows
  <2>2. PICK r \in Rows, c \in Channels : r = cur[w] /\ c = Head(todo[w])
    BY <2>1, AtChannel
  <2>3. /\ \A v \in Workers \ {w} : step'[v] = step[v] /\ todo'[v] = todo[v] /\ saw'[v] = saw[v]
        /\ step'[w] = "store" /\ saw'[w] = saw[w] \union FailureClass(outcome[w])
    BY <2>1 DEF ChannelDone, NotifyTypeOK
  <2>4. /\ Receipt[outcome[w]] \in {"absent", "pending"} \union NotifTerminal
        /\ "temporary" \notin FailureClass(outcome[w]) => Receipt[outcome[w]] \in NotifTerminal
    BY <2>1 DEF Receipt, FailureClass
  <2>5. /\ notif'[r][c] = Receipt[outcome[w]]
        /\ \A q \in Rows \ {r}, d \in Channels : notif'[q][d] = notif[q][d]
    BY <2>1, <2>2, <2>4, RowWritten
  <2>6. "temporary" \notin saw'[w] => PastTerminal(w)'
    <3> SUFFICES ASSUME "temporary" \notin saw'[w] PROVE PastTerminal(w)'
      OBVIOUS
    <3>1. PastTerminal(w)
      BY <1>1, <2>1, <2>3 DEF WorkerOK
    <3>2. notif'[cur[w]][Head(todo[w])] \in NotifTerminal
      BY <2>2, <2>3, <2>4, <2>5
    <3> QED
      BY <1>1, <2>1, <3>1, <3>2, PastStays
  <2>7. WorkerOK(w)'
    BY <2>1, <2>3, <2>6 DEF WorkerOK
  <2> QED
    BY <1>1, <2>1, <2>2, <2>3, <2>5, <2>7, OthersKeep
<1>9. ASSUME NEW w \in Workers, TxFails(w) PROVE ProgressOK'
  <2>1. /\ step[w] # "out" /\ pc[w] = "handling" /\ UNCHANGED <<notif, cur, pc, status>>
        /\ step'[w] = "store" /\ "temporary" \in saw'[w]
        /\ \A v \in Workers \ {w} : step'[v] = step[v] /\ todo'[v] = todo[v] /\ saw'[v] = saw[v]
    BY <1>9 DEF TxFails, ChannelDone, HandlerOK, NotifyTypeOK, vars, local, rows
  <2>2. WorkerOK(w)'
    BY <2>1 DEF WorkerOK
  <2> QED
    BY <1>2, <2>1, <2>2
<1>10. ASSUME NEW w \in Workers, ReturnFromHandler(w) PROVE ProgressOK'
  <2>1. /\ step[w] = "store" /\ todo[w] = <<>> /\ UNCHANGED <<notif, cur, status>>
        /\ pc' = [pc EXCEPT ![w] = Verdict(w)] /\ step'[w] = "out"
        /\ \A v \in Workers \ {w} : step'[v] = step[v] /\ todo'[v] = todo[v] /\ saw'[v] = saw[v]
    BY <1>10 DEF ReturnFromHandler, HandlerReturns, LeaveHandler, NotifyTypeOK, rows
  <2>2. pc'[w] = Verdict(w) /\ \A v \in Workers \ {w} : pc'[v] = pc[v]
    BY <2>1 DEF NotifyTypeOK, TypeOK
  <2>3. Verdict(w) = "ok" => "temporary" \notin saw[w]
    BY DEF Verdict
  <2>4. DOMAIN todo[w] = {}
    BY <2>1
  <2>5. Verdict(w) = "ok" => AllTerminal(cur[w])
    BY <1>1, <2>1, <2>3, <2>4 DEF WorkerOK, PastTerminal, AllTerminal
  <2>6. WorkerOK(w)'
    BY <2>1, <2>2, <2>5 DEF WorkerOK, AllTerminal
  <2> QED
    BY <1>2, <2>1, <2>2, <2>6
<1>11. ASSUME NEW w \in Workers, Interrupted(w) PROVE ProgressOK'
  <2>1. /\ UNCHANGED <<notif, status>> /\ pc'[w] = "next" /\ step'[w] = "out"
        /\ \A v \in Workers \ {w} : /\ step'[v] = step[v] /\ todo'[v] = todo[v] /\ saw'[v] = saw[v]
                                  /\ cur'[v] = cur[v] /\ pc'[v] = pc[v]
    BY <1>11 DEF Interrupted, StoreFailure, Crash, LoseBatch, LeaveHandler, NotifyTypeOK, TypeOK, rows
  <2>2. WorkerOK(w)'
    BY <2>1 DEF WorkerOK
  <2> QED
    BY <1>2, <2>1, <2>2
<1>12. CASE UNCHANGED allVars
  BY <1>1, <1>12 DEF allVars, vars, rows, local, notifyVars, handlerVars,
                     ProgressOK, WorkerOK, PastTerminal, AllTerminal, DoneHasNoOpenChannel
<1> QED
  BY <1>3, <1>4, <1>5, <1>6, <1>7, <1>8, <1>9, <1>10, <1>11, <1>12
     DEF NotifyNext, NotifyDrainStep, HandlerStep

\* The invariant of undisturbed workers, with the relay's it rests on.
LEMMA ProgressHolds == NotifySpec => [](NotifyBase /\ ExclusiveOK /\ ProgressOK)
<1>1. NotifyInit => ProgressOK
  BY DEF NotifyInit, Init, ProgressOK, WorkerOK, DoneHasNoOpenChannel
<1>2. NotifyBase /\ ExclusiveOK /\ ProgressOK /\ [NotifyNext]_allVars => ProgressOK'
  BY ProgressStep
<1> QED
  BY <1>1, <1>2, NotifyTypesHold, HandlerRunsUnderRelay, ExclusiveInvariant, PTL DEF NotifySpec

\* DoneHasNoOpenChannel while nobody is disturbed: with one worker whatever
\* crashes, with several until a lease runs out under one of them or one crashes
\* (handle: the event is acknowledged when no channel failed temporarily).
THEOREM DoneIsDelivered == NotifySpec => [](Undisturbed => DoneHasNoOpenChannel)
<1>1. ProgressOK => (Undisturbed => DoneHasNoOpenChannel)
  BY DEF ProgressOK
<1> QED
  BY <1>1, ProgressHolds, PTL

\* TerminalNotificationIsFinal under the same condition on the state before the
\* step: the second transaction writes by row id and trusts what the first one
\* saw, which is right as long as nobody else handles the event.
THEOREM ReceiptsAreFinal == NotifySpec => [][Undisturbed => FinalNotifications]_allVars
<1>1. NotifyBase /\ ProgressOK /\ [NotifyNext]_allVars => [Undisturbed => FinalNotifications]_allVars
  BY TerminalStays
<1> QED
  BY <1>1, ProgressHolds, PTL DEF NotifySpec

\* The two properties as the runs check them, for one worker and any number of
\* events, channels, crashes and failing transactions.
THEOREM SoloWorker ==
    ASSUME \A v, w \in Workers : v = w
    PROVE  NotifySpec => []DoneHasNoOpenChannel /\ TerminalNotificationIsFinal
<1>1. Undisturbed
  BY DEF Undisturbed
<1>2. ProgressOK => DoneHasNoOpenChannel
  BY <1>1 DEF ProgressOK
<1>3. NotifyBase /\ ProgressOK /\ [NotifyNext]_allVars => [FinalNotifications]_allVars
  BY <1>1, TerminalStays
<1> QED
  BY <1>2, <1>3, ProgressHolds, PTL
     DEF NotifySpec, TerminalNotificationIsFinal, FinalNotifications
===============================================================================
