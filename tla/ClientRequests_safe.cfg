SPECIFICATION Spec
CONSTANTS
    r1 = r1
    r2 = r2
    s1 = s1
    p1 = p1
    NoReq = NoReq
    Rpc = {r1, r2}
    Silent = {s1}
    Ping = {p1}
    MaxPending = 2
    SeqMod = 3
    Timeouts = {1}
    DisconnectIn = {"poller"}
    MaxDisconnects = 0
    MaxConnects = 0
SYMMETRY Symmetry
INVARIANTS AtMostOnce 
PROPERTIES PingStackSafe
