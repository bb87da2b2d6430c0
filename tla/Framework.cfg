SPECIFICATION Spec
CONSTANTS
    Calls = {1, 2}
    Urls = {"/a"}
    UrlOf <- MCUrlOf
    MaxRuns = 1
    MaxSignals = 1
    MaxChanges = 1
    Users = {u1, u2}
    NoUser = NoUser
    MaxConnects = 1
    HandlersReenter = FALSE
CHECK_DEADLOCK FALSE
INVARIANTS Survives NodeAlive OwnReply
PROPERTIES RunReturns OperationsEnd
