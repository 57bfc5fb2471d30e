SPECIFICATION FairReportSpec
CONSTANTS
    BatchSize = 2
    ChannelCap = 1
    Configs <- MCConfigs
    MaxTried = 4
    MaxRuns = 2
    MaxUnheard = 1
INVARIANTS
    TypeOK
    KeysAndHitsAccounted
    FileTrailsMemory
    MaxKeysRespected
    DeltasConserved
    ReportedKeysWereTried
PROPERTIES
    KeyIndexSteps
    CancelIsHeeded
    CountedKeysAreTaken
CHECK_DEADLOCK FALSE
