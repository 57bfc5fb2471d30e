SPECIFICATION FairClusterSpec
CONSTANTS
    c1 = c1
    c2 = c2
    w1 = w1
    w2 = w2
    a1 = a1
    NoID = NoID
    NoHit = NoHit
    MaxLate = 0
    Clients <- MCOneClient
    Ghosts <- MCNoGhosts
    WorkerIDs <- MCTwoIDs
    Addresses <- MCAddresses
    Deltas <- MCZero
    Rates <- MCZero
    MaxWorkers = 0
    StaleAfter = 1
    PruneEvery = 1
    MaxTotal = 0
    Processes = 1
CHECK_DEADLOCK FALSE
PROPERTY SignalledWorkerExits
