SPECIFICATION FairSpec
CONSTANTS
    UrlCount = 2
    MaxPingLost = 3
    MaxFaults = 3
    MaxStarts = 3
CHECK_DEADLOCK FALSE
INVARIANTS ClientOutlivesWorker AnnouncedSubscribed
PROPERTIES LossReported Reconnects StopReturns
