SPECIFICATION BackoffSpec
CONSTANTS
    h1 = h1
    h2 = h2
    h3 = h3
    k1 = k1
    Handlers <- MCHandlers
    Keys <- MCKeys
    Exempt <- MCExempt
    Limit = 2
    Window = 3
    MaxDelay = 1
    MaxTime = 7
    Callers <- MCCallers
    Base = 2
    Cap = 3
    MaxLoad = 4
SYMMETRY Symmetry
INVARIANTS
    TypeOK
    WindowBound
PROPERTIES
    RefusalsAreEarned
    RetriesArePaced
CHECK_DEADLOCK FALSE
