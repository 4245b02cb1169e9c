SPECIFICATION LogSpec
CONSTANTS
    me = me
    peer = peer
    Local = me
    Device <- MCDevice
    MaxSeq = 2
    MaxState = 3
INVARIANTS EntriesSound SettledNeverReused
