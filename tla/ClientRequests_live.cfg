SPECIFICATION FairSpec
CONSTANTS
    r1 = r1
    r2 = r2
    NoReq = NoReq
    Rpc = {r1, r2}
    Silent = {}
    Ping = {}
    MaxPending = 2
    SeqMod = 3
    Timeouts = {1}
    DisconnectIn = {"poller"}
    MaxDisconnects = 1
    MaxConnects = 1
PROPERTIES KeepsPromise EventuallyCalled
