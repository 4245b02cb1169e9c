SPECIFICATION FairSpec
CONSTANTS
    me = me
    peer = peer
    Malformed = Malformed
    Local = me
    Device <- MCDevice
    Mentioned <- Nobody
    Told <- MCTold
    PeerHash <- MCPeerHash
    Tag <- MCTag
    PeriodicTag <- MCPeriodicTag
    MaxLocalSeq = 1
    MaxSeq = 1
    TaskPool = 3
    MaxQueue = 1
PROPERTY KeepsSendingInterests
CHECK_DEADLOCK FALSE
