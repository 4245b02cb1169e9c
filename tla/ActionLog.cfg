SPECIFICATION Spec
CONSTANTS
  File = {"f", "g"}
  Device = {1, 2, 3}
  Hash = {"x", "y"}
  Local = 2
  Remote <- MCRemote
  Pad = {0, 1}
  MaxNumber = 2
  MaxCrash = 1
CHECK_DEADLOCK FALSE
INVARIANTS ShowsWinner LocalActionsSound
