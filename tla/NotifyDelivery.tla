---------------------------- MODULE NotifyDelivery ----------------------------
(***************************************************************************)
(* The notify handler (adapters/worker/notify.go) running under the relay  *)
(* of OutboxRelay: for one event it goes through the channels of the       *)
(* policy, and for each channel stores the notification row, delivers it   *)
(* outside any transaction and records the receipt in a second             *)
(* transaction, which also fulfils the signal's notification clock.  Two   *)
(* workers can be inside the handler for the same event when a lease       *)
(* expires; a crash can fall between any two of its steps.                 *)
(*                                                                         *)
(* The rows are the notification events of one signal.  Abstracted: the    *)
(* attempts counter and the error text of a notification row.              *)
(***************************************************************************)
EXTENDS OutboxRelay, Sequences

CONSTANTS Targets,        \* Targets[r]: NotifyPolicy.targets for event r, in order
          InApp,          \* the in-app channel
          ClockEvents,    \* the created/escalated events whose payload says P1
          MaxTxFailures   \* bound: failed transactions of the handler

Channels == UNION {{Targets[r][i] : i \in DOMAIN Targets[r]} : r \in Rows}

ASSUME TargetsAssumption ==
    \A r \in Rows : Targets[r] \in Seq(Channels) /\ Len(Targets[r]) > 0
                    /\ Targets[r][1] = InApp

ASSUME ClockEventsAssumption == ClockEvents \subseteq Rows

ASSUME TxFailuresAssumption == MaxTxFailures \in Nat

VARIABLES notif,       \* notif[r][c]: status of the row (r, c) of notifications
          clock,       \* the signal's notification clock
          sent,        \* history: sent[r][c] messages accepted by the channel
          step,        \* step[w]: where w is inside the handler
          todo,        \* todo[w]: the channels w has not finished with
          outcome,     \* outcome[w]: what port.Deliver returned to w
          saw,         \* saw[w]: the failure classes w has seen for this event
          txFailures   \* failed transactions so far

relayVars == vars
handlerVars == <<step, todo, outcome, saw>>
notifyVars == <<notif, clock, sent, handlerVars, txFailures>>
allVars == <<relayVars, notifyVars>>

NotifTerminal == {"delivered", "failed"}

NotifyTypeOK ==
    /\ TypeOK
    /\ notif \in [Rows -> [Channels -> {"absent", "pending"} \union NotifTerminal]]
    /\ clock \in {"open", "fulfilled"}
    /\ sent \in [Rows -> [Channels -> Nat]]
    /\ step \in [Workers -> {"out", "store", "deliver", "record"}]
    /\ todo \in [Workers -> Seq(Channels)]
    /\ outcome \in [Workers -> {"ok", "temporary", "permanent"}]
    /\ saw \in [Workers -> SUBSET {"temporary", "permanent"}]
    /\ txFailures \in 0..MaxTxFailures

NotifyInit ==
    /\ Init
    /\ notif = [r \in Rows |-> [c \in Channels |-> "absent"]]
    /\ clock = "open"
    /\ sent = [r \in Rows |-> [c \in Channels |-> 0]]
    /\ step = [w \in Workers |-> "out"]
    /\ todo = [w \in Workers |-> <<>>]
    /\ outcome = [w \in Workers |-> "ok"]
    /\ saw = [w \in Workers |-> {}]
    /\ txFailures = 0

-------------------------------------------------------------------------------
(* Inside the handler. *)

\* The relay calls the handler: policy.targets gives the channels.
EnterHandler(w, r) ==
    /\ Dispatch(w, r)
    /\ IF r \in Registered
         THEN /\ step' = [step EXCEPT ![w] = "store"]
              /\ todo' = [todo EXCEPT ![w] = Targets[r]]
         ELSE UNCHANGED <<step, todo>>
    /\ UNCHANGED <<notif, clock, sent, outcome, saw, txFailures>>

Stored(w) == notif[cur[w]][Head(todo[w])]

SetStored(w, s) == notif' = [notif EXCEPT ![cur[w]][Head(todo[w])] = s]

\* deliverChannel returns; the loop of handle notes the class of the error.
ChannelDone(w, failures) ==
    /\ todo' = [todo EXCEPT ![w] = Tail(@)]
    /\ step' = [step EXCEPT ![w] = "store"]
    /\ outcome' = [outcome EXCEPT ![w] = "ok"]
    /\ saw' = [saw EXCEPT ![w] = @ \union failures]

\* Mutant of StoreRow: a terminal row is delivered again.
StoreRowAgain(w) ==
    /\ step[w] = "store"
    /\ todo[w] # <<>>
    /\ SetStored(w, "pending")
    /\ step' = [step EXCEPT ![w] = "deliver"]
    /\ UNCHANGED <<todo, outcome, saw, relayVars, clock, sent, txFailures>>

\* Mutant of StoreRow: the loop does not get past a terminal row.
StoreRowStuck(w) ==
    /\ step[w] = "store"
    /\ todo[w] # <<>>
    /\ Stored(w) \notin NotifTerminal
    /\ SetStored(w, "pending")
    /\ step' = [step EXCEPT ![w] = "deliver"]
    /\ UNCHANGED <<todo, outcome, saw, relayVars, clock, sent, txFailures>>

\* First transaction: the row is inserted pending unless it is there; only a
\* pending row is delivered, a terminal one is skipped.
StoreRow(w) ==
    /\ step[w] = "store"
    /\ todo[w] # <<>>
    /\ IF Stored(w) \in NotifTerminal
         THEN /\ ChannelDone(w, {})
              /\ UNCHANGED notif
         ELSE /\ SetStored(w, "pending")
              /\ step' = [step EXCEPT ![w] = "deliver"]
              /\ UNCHANGED <<todo, outcome, saw>>
    /\ UNCHANGED <<relayVars, clock, sent, txFailures>>

\* port.Deliver.  The in-app channel has no transport.  A transport can time
\* out after the other side accepted the message.
Deliver(w) ==
    /\ step[w] = "deliver"
    /\ \E res \in IF Head(todo[w]) = InApp THEN {"ok"}
                                            ELSE {"ok", "temporary", "permanent"} :
       \E accepted \in BOOLEAN :
         /\ res = "ok" => accepted
         /\ res = "permanent" => ~accepted
         /\ outcome' = [outcome EXCEPT ![w] = res]
         /\ sent' = IF accepted
                      THEN [sent EXCEPT ![cur[w]][Head(todo[w])] = @ + 1]
                      ELSE sent
    /\ step' = [step EXCEPT ![w] = "record"]
    /\ UNCHANGED <<relayVars, notif, clock, todo, saw, txFailures>>

\* Mutant of Receipt: a transport that timed out counts as delivered.
ReceiptOptimistic == [ok |-> "delivered", permanent |-> "failed", temporary |-> "delivered"]

\* What the second transaction writes for each outcome of the delivery.
Receipt == [ok |-> "delivered", permanent |-> "failed", temporary |-> "pending"]

FailureClass(res) == IF res = "ok" THEN {} ELSE {res}

\* Second transaction: the receipt, written by row id, and the fulfilment of
\* the notification clock for a delivered P1 event.
Record(w) ==
    /\ step[w] = "record"
    /\ SetStored(w, Receipt[outcome[w]])
    /\ clock' = IF outcome[w] = "ok" /\ cur[w] \in ClockEvents
                  THEN "fulfilled" ELSE clock
    /\ ChannelDone(w, FailureClass(outcome[w]))
    /\ UNCHANGED <<relayVars, sent, txFailures>>

\* One of the two transactions fails and rolls back: a temporary failure of
\* the channel whatever the delivery returned.
TxFails(w) ==
    /\ \/ step[w] = "store" /\ todo[w] # <<>>
       \/ step[w] = "record"
    /\ txFailures < MaxTxFailures
    /\ txFailures' = txFailures + 1
    /\ ChannelDone(w, {"temporary"})
    /\ UNCHANGED <<relayVars, notif, clock, sent>>

\* Mutant of Verdict: only failures of a single class count.
VerdictOfOneClass(w) == CASE saw[w] = {"temporary"} -> "retry"
                          [] saw[w] = {"permanent"} -> "permanent"
                          [] OTHER -> "ok"

\* A temporary failure of any channel outweighs a permanent one.
Verdict(w) == CASE "temporary" \in saw[w] -> "retry"
                [] saw[w] = {"permanent"} -> "permanent"
                [] OTHER -> "ok"

\* Forgets w's local state of the handler.
LeaveHandler(w) ==
    /\ step' = [step EXCEPT ![w] = "out"]
    /\ todo' = [todo EXCEPT ![w] = <<>>]
    /\ outcome' = [outcome EXCEPT ![w] = "ok"]
    /\ saw' = [saw EXCEPT ![w] = {}]

ReturnFromHandler(w) ==
    /\ step[w] = "store"
    /\ todo[w] = <<>>
    /\ HandlerReturns(w, Verdict(w))
    /\ LeaveHandler(w)
    /\ UNCHANGED <<notif, clock, sent, txFailures>>

-------------------------------------------------------------------------------
HandlerStep(w) == \/ StoreRow(w)
                  \/ Deliver(w)
                  \/ Record(w)
                  \/ ReturnFromHandler(w)

\* The steps of the relay that the handler takes no part in.
RelayStep(w) == /\ ClaimBatch(w) \/ Ack(w) \/ LeaveForRetry(w) \/ DeadLetter(w)
                /\ UNCHANGED notifyVars

NotifyDrainStep(w) == \/ RelayStep(w)
                      \/ \E r \in Rows : EnterHandler(w, r)
                      \/ HandlerStep(w)

Interrupted(w) == /\ StoreFailure(w) \/ Crash(w)
                  /\ LeaveHandler(w)
                  /\ UNCHANGED <<notif, clock, sent, txFailures>>

NotifyNext ==
    \/ /\ \E r \in Rows : AppendOutbox(r) \/ LeaseExpires(r)
       /\ UNCHANGED notifyVars
    \/ \E w \in Workers : NotifyDrainStep(w) \/ TxFails(w) \/ Interrupted(w)

NotifySpec == NotifyInit /\ [][NotifyNext]_allVars

NotifyFairSpec ==
    /\ NotifySpec
    /\ \A w \in Workers : WF_allVars(NotifyDrainStep(w))
    /\ \A r \in Rows : WF_allVars(LeaseExpires(r) /\ UNCHANGED notifyVars)

-------------------------------------------------------------------------------
(* Properties *)

\* The receipt of a delivered P1 notification and the fulfilment of the
\* notification clock commit together (notify.go, deliverChannel: C-3): there
\* is no delivered row of such an event beside an open clock.
ReceiptFulfilsClock ==
    \A r \in ClockEvents, c \in Channels :
        notif[r][c] = "delivered" => clock = "fulfilled"

\* The clock is not fulfilled, and no row says delivered, unless a message of
\* that event really was accepted on some (that) channel.
NoReceiptWithoutMessage ==
    /\ clock = "fulfilled" => \E r \in ClockEvents, c \in Channels : sent[r][c] > 0
    /\ \A r \in Rows, c \in Channels : notif[r][c] = "delivered" => sent[r][c] > 0

\* While no handler outlived its lease, an event acknowledged as done has a
\* terminal notification row on every channel of its policy: the handler never
\* reports success while a channel is still open.  (With one worker, crashes
\* included, this holds always.)
DoneHasNoOpenChannel ==
    \A r \in Rows : status[r] = "done" =>
        \A i \in DOMAIN Targets[r] : notif[r][Targets[r][i]] \in NotifTerminal

\* notify.go, header: a redelivery "skips a terminal one and only retries a
\* still-pending one" (a terminal notification row is final).
TerminalNotificationIsFinal ==
    [][\A r \in Rows, c \in Channels :
         notif[r][c] \in NotifTerminal => notif'[r][c] = notif[r][c]]_allVars

\* notify.go, header: "a permanent delivery failure ... is recorded and
\* dead-letters the event with last_error".
FailedChannelIsDeadLettered ==
    \A r \in Rows : status[r] = "done" =>
        \A c \in Channels : notif[r][c] # "failed"

\* notify.go of the port, Deliver: "a redelivery of the same event must not
\* produce a second message".
NoSecondMessage ==
    \A r \in Rows, c \in Channels \ {InApp} : sent[r][c] <= 1
===============================================================================
