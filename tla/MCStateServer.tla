---------------------------- MODULE MCStateServer ----------------------------
(***************************************************************************)
(* Three actions of two devices on two files, one of them in a folder, in  *)
(* pages of one; the two devices have stored the same contents.            *)
(***************************************************************************)
EXTENDS StateServer

Act(f, v, h, d) == [file |-> f, version |-> v, hash |-> h, dev |-> d]
MCAction == {Act(<<"a">>, 0, "x", "A"), Act(<<"a">>, 1, NoHash, "A"), Act(<<"d", "b">>, 0, "x", "B")}
MCFile == <<<<"a">>, <<"d", "b">>>>
MCFolder == {<<>>, <<"d">>}

Cmd(f, v, h) == [file |-> f, version |-> v, hash |-> h]
MCRestore == {Cmd(<<"d", "b">>, 0, "x")}

World(p, q) == [port |-> p, asked |-> q]
Lists == {"actions", "file", "files"}
MCWorlds == {World(Conversions, Lists), World({}, Lists),
             World(Conversions, {"file", "restore"}), World(Conversions \ {"sized"}, {"restore"}),
             World(Conversions \ {"keys"}, {"restore"}), World({}, {"restore"})}
=============================================================================
