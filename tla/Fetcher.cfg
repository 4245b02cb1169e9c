SPECIFICATION FairSpec
CONSTANTS
    m_minSeqNo = 1
    m_maxSeqNo = 5
    m_pipeline = 2
    MaxReexpress = 2
    MaxRestart = 2
CHECK_DEADLOCK FALSE
INVARIANTS PipelineExact FinishSound
PROPERTIES CompletesWithoutLoss ImplementsLife
