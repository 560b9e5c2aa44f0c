\* Two clients: transactions with every kind of command and timeouts; or one channel
\* and two patterns, with queues of two messages.
SPECIFICATION SessionsSpec
CONSTANTS
    Client = {c1, c2}
    Key = {k1, k2}
    Names = {"SET", "ZADD", "SMOVE", "FLUSHALL"}
    Timeouts = TRUE
    MaxQueue = 2
    MaxCommands = 2
    Star = "*"
    One = "?"
    Capacity = 2
    MaxMessages = 1
SYMMETRY Symmetry
CHECK_DEADLOCK FALSE
INVARIANTS
    WatchIndexExact
    ChangeIsKnown
    SubscriptionsExact
PROPERTY
    PublishReaches
