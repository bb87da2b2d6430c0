SPECIFICATION Spec
CONSTANTS
    Threads = {t1, t2}
    Peers = {p1, p2}
    NPeer = NPeer
    NThread = NThread
    MaxClients = 2
CHECK_DEADLOCK FALSE
INVARIANTS ClientProtected RightPeer NoClientLeak
