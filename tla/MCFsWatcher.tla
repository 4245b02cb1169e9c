---------------------------- MODULE MCFsWatcher ----------------------------
(***************************************************************************)
(* One file in the shared folder and one in a subfolder.                   *)
(***************************************************************************)
EXTENDS FsWatcher

MCDirOf == [f \in File |-> IF f = "d/b" THEN "d" ELSE Root]
=============================================================================
