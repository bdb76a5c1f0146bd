\* Two workers inside the handler for the same event, a second and passive event
\* beside it.  FairSpec is the specification of OutboxRelay with its fairness.
SPECIFICATION NotifyFairSpec
CONSTANTS
    in_app = in_app
    smtp = smtp
    webhook = webhook
    InApp = in_app
    Targets <- ActiveAndPassive
    ClockEvents = {1}
    MaxTxFailures = 1
    NoRow = NoRow
    Workers = {w1, w2}
    Rows = {1, 2}
    Registered = {1, 2}
    BatchSize = 2
    MaxAttempts = 2
    MaxFaults = 1

PROPERTY FairSpec
CHECK_DEADLOCK FALSE
