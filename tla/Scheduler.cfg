SPECIFICATION ClientsFairSpec
CONSTANTS
    c1 = c1
    c2 = c2
    Client <- MCClient
    Tag <- MCTag
    PeriodicTag <- MCPeriodicTag
    TaskPool = 1
    MaxQueue = 2
INVARIANTS ClientsTypeOK PeriodicAlive GrantedWillRun
PROPERTIES OneRunPerGrant PeriodicKeepsRunning
