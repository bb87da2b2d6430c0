SPECIFICATION FairSpec
CONSTANTS
    a1 = a1
    a2 = a2
    x1 = x1
    x2 = x2
    Poller = Poller
    Null = Null
    App = {a1, a2}
    Transports = {x1, x2}
    Ops = {"connect", "send", "disconnect", "send_timeout", "close"}
CHECK_DEADLOCK FALSE
INVARIANTS RefProtects TransportsOwned
PROPERTIES Reclaimed
