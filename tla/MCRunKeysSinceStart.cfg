SPECIFICATION ReportSpec
CONSTANTS
    BatchSize = 2
    ChannelCap = 1
    Configs <- MCConfigs
    MaxTried = 4
    MaxRuns = 2
    MaxUnheard = 0
INVARIANT
    RunKeysSinceStart
CHECK_DEADLOCK FALSE
