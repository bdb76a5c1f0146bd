--------------------------- MODULE MCNotifyDelivery ---------------------------
(* Instances of NotifyDelivery for TLC. *)
EXTENDS NotifyDelivery, TLC

CONSTANTS in_app, smtp, webhook

\* A signal.created event at P1 with both transports configured.
AllChannels == [r \in {1} |-> <<in_app, smtp, webhook>>]

\* The same with the SMTP relay only.
InAppAndSmtp == [r \in {1} |-> <<in_app, smtp>>]

\* A P1 event and a reopen proposal, which is passive.
ActiveAndPassive ==
    [r \in {1, 2} |-> IF r = 1 THEN <<in_app, smtp>> ELSE <<in_app>>]
==============================================================================
