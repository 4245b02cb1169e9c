---------------------------- MODULE MCActionLog ----------------------------
(***************************************************************************)
(* This device is 2, between its peers 1 and 3 in the order of names.      *)
(* Peer 3 has seen the action of peer 1.  An update of this device may tie *)
(* with the first and win, or with the second and lose; a deletion may tie *)
(* with the second.  The deletion by peer 3 does not decode.               *)
(***************************************************************************)
EXTENDS ActionLog

Update(d, n, f, v, h) ==
    [dev |-> d, seq |-> n, act |-> UPDATE, file |-> f, version |-> v, hash |-> h]

MCRemote ==
    { Update(1, 1, "f", 0, "x"), Update(3, 1, "f", 1, "y"),
      [dev |-> 3, seq |-> 2, act |-> DELETE, file |-> "f", version |-> 2, hash |-> NoHash] }
=============================================================================
