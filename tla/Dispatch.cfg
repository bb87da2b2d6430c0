SPECIFICATION Spec
CONSTANTS
    MethodUrls <- MCMethodUrls
    CallUrls <- MCCallUrls
    NCells = 3
    MaxAdds = 4
    MayRemoveTail = FALSE
    u1 = u1
    u2 = u2
    Users = {u1, u2}
    Worker = Worker
    Nothing = Nothing
    Topics <- MCTopics
    Published <- MCPublished
    AutoUrls <- MCAutoUrls
    MaxRequests = 3
    MaxPublishes = 1
    MaxLinks = 2
    MaxCalls = 1
    MaxOps = 4
SYMMETRY Symmetry
INVARIANTS MatchesExpected OwnArg SidesAgree HandlerCalled
CHECK_DEADLOCK FALSE
