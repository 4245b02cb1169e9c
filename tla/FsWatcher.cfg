SPECIFICATION FairSpec
CONSTANTS
    Root = "root"
    SubDir = {"d"}
    File = {"a", "d/b"}
    DirOf <- MCDirOf
    Excluded = {}
    MaxEdit = 3
    MaxStop = 1
CHECK_DEADLOCK FALSE
INVARIANTS TableSound
PROPERTIES ChangeIsReported GoneLeavesTable
