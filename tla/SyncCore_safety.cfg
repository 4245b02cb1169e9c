SPECIFICATION Spec
CONSTANTS
    me = me
    peer = peer
    Malformed = Malformed
    Local = me
    Device <- MCDevice
    Mentioned <- Peers
    Told <- MCTold
    PeerHash <- NoPeerHash
    Tag <- MCTag
    PeriodicTag <- MCPeriodicTag
    MaxLocalSeq = 1
    MaxSeq = 2
    TaskPool = 3
    MaxQueue = 1
INVARIANTS TypeOK RootsLogged ReportsComplete
