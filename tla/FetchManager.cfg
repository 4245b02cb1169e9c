SPECIFICATION FairSpec
CONSTANTS
    a = a
    Names <- MCNames
    m_mapping <- MCMapping
    m_maxParallelFetches = 1
    MaxPause = 2
    LengthsAgree = FALSE
    UintSize = 65536
    MaxEnqueue = 2
    MaxStray = 1
INVARIANTS Accounting
PROPERTIES QueuedIsStarted CompletedLeaves BroadcastIsTried
