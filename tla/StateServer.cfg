SPECIFICATION FairSpec
CONSTANTS
    Action <- MCAction
    File <- MCFile
    Folder <- MCFolder
    Page = 1
    Restore <- MCRestore
    NoHash = "nothing"
    Worlds <- MCWorlds
    MaxPage = 4
    MaxRemove = 1
CHECK_DEADLOCK FALSE
INVARIANTS ListingIsComplete RestoreSound
PROPERTIES ListingEnds
