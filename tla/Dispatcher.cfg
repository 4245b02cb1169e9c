SPECIFICATION FairSpec
CONSTANTS
    File = {"f"}
    Device = {1, 2, 3}
    Hash = {"x", "y"}
    Local = 2
    Remote <- MCRemote
    Segs <- MCSegs
    Worlds <- MCWorlds
CHECK_DEADLOCK FALSE
INVARIANTS FolderSound
PROPERTIES EditIsLogged ReportedIsLogged ShownIsAssembled
