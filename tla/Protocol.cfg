SPECIFICATION ProtocolSpec
CONSTANTS
    Calls = {1, 2, 3, 4}
    NSlots = 2
    NSeq = 3
    MaxConnects = 1
    n1 = n1
    n2 = n2
    n3 = n3
    Names = {n1, n2, n3}
    NoName = NoName
    Hash <- MCHash
    NEntries = 3
    MaxFrames = 2
    MsgMod = 2
CHECK_DEADLOCK FALSE
INVARIANTS OwnAnswer EntriesKept
PROPERTIES RpcKeepsPromise AlwaysCalled
