SPECIFICATION FairSpec
CONSTANTS
    MaxConnections = 2
    HandshakeTimeout = 1
    KeepaliveTimeout = 2
CHECK_DEADLOCK FALSE
INVARIANTS NoDanglingTimer FreedAlone
PROPERTIES DeadPeerReclaimed 
