----------------------------- MODULE FileState -----------------------------
(***************************************************************************)
(* The FileState table (src/src/file-state.cc): for every file of the      *)
(* shared folder the action that it currently shows, and whether its       *)
(* content is on disk.  Each operator is one SQL statement, given the      *)
(* table before it; Changes is what sqlite3_changes reports after it.      *)
(* The table has its own database and its statements commit by themselves. *)
(***************************************************************************)
EXTENDS Naturals

CONSTANTS File, Device, Hash

\* The file_hash of an action that deletes, and of no content.
NoHash == "none"

ASSUME HashAssumption == NoHash \notin Hash

\* No row of the table has the file's name.
NoRow == [dev |-> 0, seq |-> 0, version |-> 0, hash |-> NoHash, complete |-> FALSE]

\* The columns that the properties tell apart; directory, times, mode and
\* the number of segments follow from the action.
Row == [dev: Device, seq: Nat, version: Nat, hash: Hash, complete: BOOLEAN]

Exists(files, f) == files[f] # NoRow

Changes(files, f) == IF Exists(files, f) THEN 1 ELSE 0

\* What the row shows of action a, leaving is_complete aside.
ShowsAction(row, a) ==
    /\ row # NoRow
    /\ row.dev = a.dev /\ row.seq = a.seq /\ row.version = a.version /\ row.hash = a.hash

\* UPDATE of UpdateFile: every column but is_complete, if there is a row.
UpdateRow(files, a) ==
    IF Exists(files, a.file)
    THEN [files EXCEPT ![a.file].dev = a.dev, ![a.file].seq = a.seq,
                       ![a.file].version = a.version, ![a.file].hash = a.hash]
    ELSE files

\* INSERT of UpdateFile: is_complete is left NULL, which reads as 0.  It
\* fails on the primary key, unnoticed, when there is a row.
InsertRow(files, a) ==
    IF Exists(files, a.file)
    THEN files
    ELSE [files EXCEPT ![a.file] = [dev |-> a.dev, seq |-> a.seq, version |-> a.version,
                                    hash |-> a.hash, complete |-> FALSE]]

DeleteFile(files, f) == [files EXCEPT ![f] = NoRow]

\* Mutant: the row is looked for under type 1, so nothing is marked.
SetFileCompleteMissed(files, f) == files

SetFileComplete(files, f) ==
    IF Exists(files, f) THEN [files EXCEPT ![f].complete = TRUE] ELSE files
=============================================================================
