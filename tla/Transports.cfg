SPECIFICATION Spec
CONSTANTS
    Servers = {s1, s2}
    Clients = {c1}
    Accepted = {a1}
    NSock = 4
    Backlog = 1
    NoServer = NoServer
INVARIANTS OneOwner ConnectIsReal AddressServed
PROPERTIES LossSeen
