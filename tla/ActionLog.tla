----------------------------- MODULE ActionLog -----------------------------
(***************************************************************************)
(* The action log of one device (src/src/action-log.cc), the file state    *)
(* that its trigger maintains, and the handlers of Dispatcher that write   *)
(* local actions to it.                                                    *)
(*                                                                         *)
(* Two threads share the log's database connection.  The dispatcher thread *)
(* handles notifications about local files, one at a time, in a            *)
(* transaction of several statements; the fetch thread inserts the actions *)
(* of other devices as they arrive, in any order and possibly again.  A    *)
(* statement holds the connection until its trigger has returned, but      *)
(* UpdateFile, which the trigger calls, is several statements on the       *)
(* connection of FileState.  The two databases commit separately and the   *)
(* process may die between any two statements.                             *)
(***************************************************************************)
EXTENDS FileState, Integers, FiniteSets, FiniteSetsExt

CONSTANTS
    Local,      \* GetLocalName(): this device
    Remote,     \* the actions that other devices may send
    Pad,        \* the bytes read behind a name's value (see KeyLess)
    MaxNumber,  \* bound: local sequence numbers
    MaxCrash    \* bound: deaths of the process

UPDATE == 0
DELETE == 1

Action == [dev: Device, seq: Nat, act: {UPDATE, DELETE}, file: File, version: Nat,
           hash: Hash \cup {NoHash}]

ASSUME DeviceAssumption == Device \subseteq (Nat \ {0}) /\ Local \in Device

\* A device numbers its actions once and raises the version of a file with
\* each of them; an update carries the hash of the content.
ASSUME RemoteAssumption ==
    /\ Remote \subseteq {a \in Action : a.dev # Local /\ a.seq > 0}
    /\ \A a \in Remote : a.act = UPDATE => a.hash \in Hash
    /\ \A a, b \in Remote :
          a # b /\ a.dev = b.dev
            => a.seq # b.seq /\ (a.file = b.file => a.version # b.version)

ASSUME BoundAssumption == 0 \in Pad /\ Pad \subseteq Nat /\ MaxNumber \in Nat /\ MaxCrash \in Nat

VARIABLES
    log,        \* the rows of ActionLog, as the connection sees them
    durable,    \* the rows that have been committed
    txn,        \* the dispatcher thread has a transaction open
    files,      \* the rows of FileState
    applying,   \* the action whose UpdateFile is between its statements
    changes,    \* sqlite3_changes on the connection of FileState, which only
                \* UpdateFile reads; 0 while none is under way
    job,        \* the local action that the dispatcher thread works on
    number,     \* the last local sequence number (SyncLog)
    torn,       \* history: files whose row and log have come apart
    halted,     \* history: files whose local update was cut short
    burnt,      \* history: numbers whose action was lost with the process
    crashes

databases == <<log, durable, txn, files, changes, applying, number>>
history == <<torn, halted, burnt, crashes>>
vars == <<databases, job, history>>

\* No action.
None == [dev |-> 0]

Idle == [pc |-> "idle", a |-> None]

\* What a job knows of its action before it has asked the logs.
Draft(act, f, h) ==
    [dev |-> Local, seq |-> 0, act |-> act, file |-> f, version |-> 0, hash |-> h]

-----------------------------------------------------------------------------
(* Rows of the log.  A row is an action and the key it is stored under.    *)

\* AddLocalActionDelete binds device_name.wire() where everything else binds
\* device_name.value(), and both bind size() bytes.  A value thus drags in
\* the bytes behind the buffer, and a wire sorts before every value: the
\* type of a Name is less than the type of a component.
KeyForm(act) == IF act = DELETE THEN "wire" ELSE "value"

LogRow == [a: Action, form: {"wire", "value"}, pad: Pad]

\* The order in which SQLite compares the device_name of two rows, for
\* device names none of which is a prefix of another.
KeyLess(r, s) ==
    \/ r.form = "wire" /\ s.form = "value"
    \/ r.form = s.form /\ r.a.dev < s.a.dev
    \/ r.form = s.form /\ r.a.dev = s.a.dev /\ r.pad < s.pad

SameKey(r, s) == r.form = s.form /\ r.a.dev = s.a.dev /\ r.pad = s.pad /\ r.a.seq = s.a.seq

RowsOf(f) == {r \in log : r.a.file = f}

\* Mutant: the second subselect of the trigger is missing.
TriggerAppliesNoTie(r) == \A s \in RowsOf(r.a.file) : s.a.version <= r.a.version

\* The WHEN clause of ActionLogInsert_trigger.
TriggerApplies(r) ==
    \A s \in RowsOf(r.a.file) :
       /\ ~(s.a.version > r.a.version)
       /\ ~(s.a.version = r.a.version /\ KeyLess(r, s))

\* The rows that GetLatestActionForFile may return: the order of rows of one
\* version is left to the database.
LatestActionForFile(f) == {r \in RowsOf(f) : \A s \in RowsOf(f) : s.a.version <= r.a.version}

-----------------------------------------------------------------------------
Init ==
    /\ log = {} /\ durable = {} /\ txn = FALSE
    /\ files = [f \in File |-> NoRow] /\ changes = 0 /\ applying = None
    /\ job = Idle /\ number = 0
    /\ torn = {} /\ halted = {} /\ burnt = {} /\ crashes = 0

\* A statement on the log's connection waits for the one whose trigger runs.
LogFree == applying = None

\* Outside a transaction a statement commits when it ends.
Committed(rows) == IF txn THEN durable ELSE rows

\* INSERT INTO ActionLog with its trigger, up to the end of the first
\* statement on FileState: apply_action updates or deletes the file's row.
InsertAction(r) ==
    /\ LogFree
    /\ ~\E s \in log : SameKey(r, s)
    /\ log' = log \cup {r}
    /\ LET f == r.a.file IN
       \/ /\ ~TriggerApplies(r)
          /\ durable' = Committed(log')
          /\ UNCHANGED <<files, changes, applying, torn>>
       \/ /\ TriggerApplies(r) /\ r.a.act = UPDATE
          /\ files' = UpdateRow(files, r.a)
          /\ changes' = Changes(files, f)
          /\ applying' = r.a
          /\ UNCHANGED <<durable, torn>>
       \/ /\ TriggerApplies(r) /\ r.a.act = DELETE
          /\ files' = DeleteFile(files, f)
          /\ torn' = torn \ {f}
          /\ durable' = Committed(log')
          /\ UNCHANGED <<changes, applying>>

\* The rest of UpdateFile and with it the end of the INSERT: a row is
\* inserted if sqlite3_changes says that the UPDATE met none.
UpdateFileInsert ==
    /\ applying # None
    /\ LET f == applying.file IN
       /\ files' = IF changes = 0 THEN InsertRow(files, applying) ELSE files
       /\ torn' = IF ShowsAction(files'[f], applying) THEN torn \ {f} ELSE torn \cup {f}
    /\ applying' = None /\ changes' = 0
    /\ durable' = Committed(log)
    /\ UNCHANGED <<log, txn, job, number, halted, burnt, crashes>>

-----------------------------------------------------------------------------
(* The dispatcher thread.                                                  *)

\* Did_LocalFile_AddOrModify_Execute: content h is found in file f.  The
\* notification is dropped if the row has that hash or is not complete.
LocalFileAddOrModify(f, h) ==
    /\ job = Idle /\ number < MaxNumber
    /\ files[f].hash # h
    /\ Exists(files, f) => files[f].complete
    /\ job' = [pc |-> "begin", a |-> Draft(UPDATE, f, h)]
    /\ UNCHANGED <<databases, history>>

\* Did_LocalFile_Delete_Execute.
LocalFileDelete(f) ==
    /\ job = Idle /\ number < MaxNumber
    /\ job' = [pc |-> "begin", a |-> Draft(DELETE, f, NoHash)]
    /\ UNCHANGED <<databases, history>>

\* BEGIN TRANSACTION; an update takes its number here.
BeginTransaction ==
    /\ job.pc = "begin" /\ LogFree
    /\ txn' = TRUE
    /\ \/ /\ job.a.act = UPDATE
          /\ number' = number + 1
          /\ job' = [pc |-> "latest", a |-> [job.a EXCEPT !.seq = number']]
       \/ /\ job.a.act = DELETE
          /\ job' = [job EXCEPT !.pc = "latest"]
          /\ UNCHANGED number
    /\ UNCHANGED <<log, durable, files, changes, applying, history>>

\* GetLatestActionForFile for an update: one more than the latest version.
LatestForUpdate ==
    /\ job.pc = "latest" /\ job.a.act = UPDATE /\ LogFree
    /\ LET versions == {r.a.version : r \in RowsOf(job.a.file)}
       IN job' = [pc |-> "insert",
                  a |-> [job.a EXCEPT !.version = IF versions = {} THEN 0 ELSE Max(versions) + 1]]
    /\ UNCHANGED <<databases, history>>

\* No row, or a deletion: the latest action leaves nothing to delete.
MayBeGone(f) == RowsOf(f) = {} \/ \E r \in LatestActionForFile(f) : r.a.act = DELETE

\* Mutant: the number is taken before the log is asked.
NothingToDeleteNumbered ==
    /\ job.pc = "latest" /\ job.a.act = DELETE /\ LogFree
    /\ MayBeGone(job.a.file)
    /\ number' = number + 1
    /\ job' = [job EXCEPT !.pc = "end"]
    /\ UNCHANGED <<log, durable, txn, files, changes, applying, history>>

\* AddLocalActionDelete finds nothing to delete and returns.  Its DELETE
\* FROM FileState names a table that this database does not have.
NothingToDelete ==
    /\ job.pc = "latest" /\ job.a.act = DELETE /\ LogFree
    /\ MayBeGone(job.a.file)
    /\ job' = [job EXCEPT !.pc = "end"]
    /\ UNCHANGED <<databases, history>>

\* AddLocalActionDelete finds an update; it takes its number after that.
LatestForDelete ==
    /\ job.pc = "latest" /\ job.a.act = DELETE /\ LogFree
    /\ \E r \in LatestActionForFile(job.a.file) :
          /\ r.a.act = UPDATE
          /\ number' = number + 1
          /\ job' = [pc |-> "insert",
                     a |-> [job.a EXCEPT !.seq = number', !.version = r.a.version + 1]]
    /\ UNCHANGED <<log, durable, txn, files, changes, applying, history>>

InsertLocal(pad) ==
    /\ job.pc = "insert"
    /\ KeyForm(job.a.act) = "wire" => pad = 0
    /\ InsertAction([a |-> job.a, form |-> KeyForm(job.a.act), pad |-> pad])
    /\ job' = [job EXCEPT !.pc = "end"]
    /\ UNCHANGED <<txn, number, halted, burnt, crashes>>

\* END TRANSACTION.
EndTransaction ==
    /\ job.pc = "end" /\ LogFree
    /\ txn' = FALSE
    /\ durable' = log
    /\ job' = IF job.a.act = UPDATE THEN [job EXCEPT !.pc = "complete"] ELSE Idle
    /\ UNCHANGED <<log, files, changes, applying, number, history>>

\* SetFileComplete, on the connection of FileState: also while an action of
\* the fetch thread is between the statements of UpdateFile.
CompleteLocal ==
    /\ job.pc = "complete"
    /\ files' = SetFileComplete(files, job.a.file)
    /\ changes' = IF LogFree THEN 0 ELSE Changes(files, job.a.file)
    /\ halted' = halted \ {job.a.file}
    /\ job' = Idle
    /\ UNCHANGED <<log, durable, txn, applying, number, torn, burnt, crashes>>

-----------------------------------------------------------------------------
(* The fetch thread and the process.                                       *)

\* AddRemoteAction for an action that decodes.  A deletion does not: its
\* Data holds the memory of a string object instead of its characters.
AddRemoteAction(a, pad) ==
    /\ a.act = UPDATE
    /\ InsertAction([a |-> a, form |-> "value", pad |-> pad])
    /\ UNCHANGED <<txn, job, number, halted, burnt, crashes>>

\* The process dies and is started again: the log loses what is not
\* committed, FileState and SyncLog keep everything.
Crash ==
    /\ crashes < MaxCrash /\ crashes' = crashes + 1
    /\ log' = durable
    /\ txn' = FALSE /\ applying' = None /\ job' = Idle /\ changes' = 0
    /\ torn' = torn \cup {r.a.file : r \in log \ durable}
    /\ burnt' = burnt \cup ((1..number) \ {r.a.seq : r \in {q \in durable : q.a.dev = Local}})
    /\ halted' = IF job.pc \in {"end", "complete"} /\ job.a.act = UPDATE
                 THEN halted \cup {job.a.file} ELSE halted
    /\ UNCHANGED <<durable, files, number>>

Next ==
    \/ \E f \in File, h \in Hash : LocalFileAddOrModify(f, h)
    \/ \E f \in File : LocalFileDelete(f)
    \/ BeginTransaction
    \/ LatestForUpdate
    \/ NothingToDelete
    \/ LatestForDelete
    \/ \E pad \in Pad : InsertLocal(pad)
    \/ EndTransaction
    \/ CompleteLocal
    \/ UpdateFileInsert
    \/ \E a \in Remote, pad \in Pad : AddRemoteAction(a, pad)
    \/ Crash

Spec == Init /\ [][Next]_vars

-----------------------------------------------------------------------------
(* Properties.                                                             *)

TypeOK ==
    /\ log \subseteq LogRow /\ durable \subseteq log
    /\ txn \in BOOLEAN /\ (~txn /\ LogFree => durable = log)
    /\ files \in [File -> Row \cup {NoRow}]
    /\ changes \in {0, 1} /\ (LogFree => changes = 0)
    /\ applying \in Action \cup {None}
    /\ job.pc \in {"idle", "begin", "latest", "insert", "end", "complete"}
    /\ job.a \in Action \cup {None}
    /\ txn <=> job.pc \in {"latest", "insert", "end"}
    /\ number \in 0..MaxNumber
    /\ torn \subseteq File /\ halted \subseteq File
    /\ burnt \subseteq 1..MaxNumber /\ crashes \in 0..MaxCrash

\* Action a is overruled by b: b has the higher version, or the same version
\* and is not a deletion where a is one, or comes from the greater name.
Overruled(a, b) ==
    \/ b.version > a.version
    \/ b.version = a.version /\ a.act = DELETE /\ b.act = UPDATE
    \/ b.version = a.version /\ a.act = b.act /\ b.dev > a.dev

\* Whatever the order in which local and remote actions reach the log, and
\* however often, FileState shows of every file the one logged action that
\* no other overrules, or no row if that is a deletion: two devices with the
\* same actions show the same files (ActionLogInsert_trigger, apply_action).
\* Exceptions are the file whose UpdateFile is under way and the torn ones:
\* those whose action was rolled back by the end of the process, and those
\* whose row was not inserted because SetFileComplete had changed the count.
ShowsWinner ==
    \A f \in File \ torn :
       (applying # None => applying.file # f) =>
          LET acts == {r.a : r \in RowsOf(f)}
              winners == {a \in acts : \A b \in acts : ~Overruled(a, b)}
          IN  IF acts = {} THEN files[f] = NoRow
              ELSE \E a \in winners : /\ winners = {a}
                                      /\ IF a.act = DELETE THEN files[f] = NoRow
                                         ELSE ShowsAction(files[f], a)

\* Between notifications, a row that a local update wrote is complete, so
\* that Did_LocalFile_AddOrModify_Execute accepts the next edit of the file.
\* Only a process that dies before SetFileComplete leaves one incomplete.
OwnRowsComplete ==
    job = Idle =>
       \A f \in File \ halted : files[f].dev = Local => files[f].complete

\* Every local number that was handed out names a logged action, which the
\* other devices will ask for, unless the process died before the commit.
NumbersAreLogged ==
    \A n \in (1..number) \ burnt :
       \/ \E r \in log : r.a.dev = Local /\ r.a.seq = n
       \/ job.a # None /\ job.a.seq = n

\* Local actions are sound whatever is interleaved with their statements: their
\* numbers name logged actions and their files stay editable
\* (AddLocalActionUpdate, AddLocalActionDelete, SetFileComplete).
LocalActionsSound == TypeOK /\ OwnRowsComplete /\ NumbersAreLogged

=============================================================================
