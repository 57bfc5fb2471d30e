SPECIFICATION FairSpec
CONSTANTS
    c1 = c1
    c2 = c2
    w1 = w1
    w2 = w2
    a1 = a1
    a2 = a2
    Clients <- MCClients
    WorkerIDs <- MCWorkerIDs
    Addresses <- MCAddresses
    Deltas <- MCDeltas
    Rates <- MCRates
    MaxWorkers = 1
    StaleAfter = 1
    PruneEvery = 1
    MaxTotal = 0
    Processes = 1
PROPERTY SignalEndsProcess
CHECK_DEADLOCK FALSE
