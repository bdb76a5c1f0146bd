\* One worker that may crash twice, one active event on three channels, two
\* failing transactions.
SPECIFICATION NotifySpec
CONSTANTS
    in_app = in_app
    smtp = smtp
    webhook = webhook
    InApp = in_app
    Targets <- AllChannels
    ClockEvents = {1}
    MaxTxFailures = 2
    NoRow = NoRow
    Workers = {w1}
    Rows = {1}
    Registered = {1}
    BatchSize = 2
    MaxAttempts = 3
    MaxFaults = 2
INVARIANTS NoReceiptWithoutMessage DoneHasNoOpenChannel
PROPERTY TerminalNotificationIsFinal
CHECK_DEADLOCK FALSE
