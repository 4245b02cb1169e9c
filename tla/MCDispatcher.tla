---------------------------- MODULE MCDispatcher ----------------------------
(***************************************************************************)
(* Device 1 publishes two contents of a file one after the other, device 3 *)
(* the first of them too.  Each world takes some of these updates.         *)
(***************************************************************************)
EXTENDS Dispatcher

Update(d, n, f, v, h) ==
    [dev |-> d, seq |-> n, act |-> "update", file |-> f, version |-> v, hash |-> h]

MCRemote == {Update(1, 1, "f", 0, "x"), Update(1, 2, "f", 1, "y"), Update(3, 1, "f", 1, "x")}
MCSegs == [h \in Hash |-> IF h = "x" THEN 2 ELSE 1]

World(working, last1, last3) == <<working, [seq |-> 1 :> last1 @@ 3 :> last3, changes |-> 3]>>
MCWorlds == {
    World(Conversions, 1, 1), World(Conversions, 2, 0), World(Conversions \ {"sized"}, 1, 1),
    World({"printed"}, 2, 0), World({}, 1, 1)}
=============================================================================
