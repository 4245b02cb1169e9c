------------------------------- MODULE SyncLog -------------------------------
(***************************************************************************)
(* SyncLog (src/sync-log.cc) statement by statement.  All threads share    *)
(* one SQLite connection.  RememberStateInStateLog runs a transaction      *)
(* under m_stateUpdateMutex; UpdateDeviceSeqNo and GetNextLocalSeqNo take  *)
(* no lock, so their statements fall between those of the transaction and  *)
(* become part of it.                                                      *)
(*                                                                         *)
(* SQLite is external: a statement is atomic, ROLLBACK (also the one that  *)
(* follows a crash) restores every table as it was at BEGIN, and           *)
(* last_insert_rowid is the id of the connection's latest INSERT, by       *)
(* whatever thread.                                                        *)
(***************************************************************************)
EXTENDS SyncState, FiniteSets

CONSTANT MaxState   \* bound on state_id

ASSUME LogAssumption ==
    Local \in Device /\ IsFiniteSet(Device) /\ MaxState \in Nat \ {0}

NoHash == [d \in Device |-> -2]

\* The tables: SyncNodes (seq_no and device_id of every device, 0 for none),
\* SyncLog (state_hash by state_id) and SyncStateNodes.
Tables == [seq_no     : Snapshot,
           device_id  : [Device -> 0..Cardinality(Device)],
           state_hash : [1..MaxState -> Snapshot \cup {NoHash}],
           nodes      : SUBSET [state_id : 1..MaxState, device : Device, seq_no : SeqNo],
           last_state : 0..MaxState]

VARIABLES
    db,         \* the tables as the connection sees them
    saved,      \* the tables as of BEGIN, for ROLLBACK
    last_insert_rowid,
    remember,   \* the thread in RememberStateInStateLog: [pc, rowId]
    next,       \* number that GetNextLocalSeqNo has read, or Absent
    handed,     \* observation: numbers GetNextLocalSeqNo has returned
    settled,    \* observation: those returned outside any transaction
    collided    \* observation: a device was inserted between the INSERT into
                \* SyncLog and the call of sqlite3_last_insert_rowid

logVars == <<db, saved, last_insert_rowid, remember, next, handed, settled, collided>>

Known(d) == db.device_id[d] # 0
States == {i \in 1..MaxState : db.state_hash[i] # NoHash}
RowsOf(i) == {r \in db.nodes : r.state_id = i}

\* The constructor, on a new database.
LogInit ==
    /\ db = [seq_no     |-> [d \in Device |-> IF d = Local THEN 0 ELSE Absent],
             device_id  |-> [d \in Device |-> IF d = Local THEN 1 ELSE 0],
             state_hash |-> [i \in 1..MaxState |-> NoHash],
             nodes      |-> {},
             last_state |-> 0]
    /\ saved = db
    /\ last_insert_rowid = 1
    /\ remember = [pc |-> "idle", rowId |-> 0]
    /\ next = Absent
    /\ handed = {}
    /\ settled = {}
    /\ collided = FALSE

\* Mutant: the INSERT replaces the number of a known device.
UpdateDeviceSeqNoNameAny(d, seq) ==
    /\ Known(d)
    /\ db' = [db EXCEPT !.seq_no[d] = seq]
    /\ UNCHANGED <<saved, last_insert_rowid, remember, next, handed, settled, collided>>

\* UpdateDeviceSeqNo(name, seqNo) for a device that has a row: the trigger
\* updates it and drops the INSERT.
UpdateDeviceSeqNoName(d, seq) ==
    /\ Known(d)
    /\ db' = [db EXCEPT !.seq_no = UpdateDeviceSeqNo(@, d, seq)]
    /\ UNCHANGED <<saved, last_insert_rowid, remember, next, handed, settled, collided>>

\* The same for a new device: a row with the next device_id.
InsertDevice(d, seq) ==
    /\ ~Known(d)
    /\ LET id == Cardinality({e \in Device : Known(e)}) + 1
       IN  /\ db' = [db EXCEPT !.seq_no[d] = seq, !.device_id[d] = id]
           /\ last_insert_rowid' = id
    /\ collided' = (collided \/ remember.pc = "rowid")
    /\ UNCHANGED <<saved, remember, next, handed, settled>>

\* GetNextLocalSeqNo: SELECT, then UPDATE ... MAX.
GetNextLocalSeqNoSelect ==
    /\ next = Absent
    /\ db.seq_no[Local] < MaxSeq
    /\ next' = db.seq_no[Local] + 1
    /\ UNCHANGED <<db, saved, last_insert_rowid, remember, handed, settled, collided>>

\* Mutant: the number is returned without being stored.
GetNextLocalSeqNoNoUpdate ==
    /\ next # Absent
    /\ next' = Absent
    /\ handed' = handed \cup {next}
    /\ settled' = IF remember.pc = "idle" THEN settled \cup {next} ELSE settled
    /\ UNCHANGED <<db, saved, last_insert_rowid, remember, collided>>

GetNextLocalSeqNoUpdate ==
    /\ next # Absent
    /\ db' = [db EXCEPT !.seq_no = UpdateDeviceSeqNo(@, Local, next)]
    /\ next' = Absent
    /\ handed' = handed \cup {next}
    /\ settled' = IF remember.pc = "idle" THEN settled \cup {next} ELSE settled
    /\ UNCHANGED <<saved, last_insert_rowid, remember, collided>>

-----------------------------------------------------------------------------
(* RememberStateInStateLog.                                                 *)

Remember(from, to) == remember.pc = from /\ remember' = [remember EXCEPT !.pc = to]

\* BEGIN TRANSACTION
RememberBegin ==
    /\ Remember("idle", "hash")
    /\ db.last_state < MaxState
    /\ saved' = db
    /\ UNCHANGED <<db, last_insert_rowid, next, handed, settled, collided>>

\* INSERT INTO SyncLog SELECT hash(...): the guard trigger first deletes an
\* equal hash, and with it (ON DELETE CASCADE) its rows of SyncStateNodes.
RememberInsertHash ==
    /\ Remember("hash", "rowid")
    /\ LET same == {i \in States : db.state_hash[i] = db.seq_no}
           id   == db.last_state + 1
       IN  /\ db' = [db EXCEPT
                 !.state_hash = [i \in 1..MaxState |->
                     IF i = id THEN db.seq_no
                     ELSE IF i \in same THEN NoHash ELSE db.state_hash[i]],
                 !.nodes = {r \in @ : r.state_id \notin same},
                 !.last_state = id]
           /\ last_insert_rowid' = id
    /\ UNCHANGED <<saved, next, handed, settled, collided>>

\* sqlite3_last_insert_rowid
RememberRowId ==
    /\ remember.pc = "rowid"
    /\ remember' = [pc |-> "nodes", rowId |-> last_insert_rowid]
    /\ UNCHANGED <<db, saved, last_insert_rowid, next, handed, settled, collided>>

\* Mutant: the rows go to a fixed state.
RememberInsertNodesFirst ==
    /\ Remember("nodes", "select")
    /\ db' = [db EXCEPT !.nodes = @ \cup
                 {[state_id |-> 1, device |-> d, seq_no |-> db.seq_no[d]] :
                     d \in {e \in Device : Known(e)}}]
    /\ UNCHANGED <<saved, last_insert_rowid, next, handed, settled, collided>>

\* INSERT INTO SyncStateNodes.  Without a state of that id the foreign key
\* makes it fail, and its result is not looked at.
RememberInsertNodes ==
    /\ Remember("nodes", "select")
    /\ IF remember.rowId \in States
       THEN db' = [db EXCEPT !.nodes = @ \cup
                      {[state_id |-> remember.rowId, device |-> d, seq_no |-> db.seq_no[d]] :
                          d \in {e \in Device : Known(e)}}]
       ELSE UNCHANGED db
    /\ UNCHANGED <<saved, last_insert_rowid, next, handed, settled, collided>>

\* SELECT state_hash and COMMIT, which releases the lock.
RememberCommit ==
    /\ remember.pc = "select"
    /\ remember.rowId \in States
    /\ remember' = [pc |-> "idle", rowId |-> 0]
    /\ saved' = db
    /\ UNCHANGED <<db, last_insert_rowid, next, handed, settled, collided>>

\* The process ends: by a crash, or because RememberStateInStateLog found no
\* hash, rolled back and threw (nothing catches it).  It is started again on
\* the same database, whose open transaction is rolled back.
Restart ==
    /\ db' = IF remember.pc = "idle" THEN db ELSE saved
    /\ saved' = db'
    /\ remember' = [pc |-> "idle", rowId |-> 0]
    /\ last_insert_rowid' = 0
    /\ next' = Absent
    /\ UNCHANGED <<handed, settled, collided>>

RememberThrow ==
    /\ remember.pc = "select"
    /\ remember.rowId \notin States
    /\ Restart

Crash == Restart

LogNext ==
    \/ \E d \in Device, seq \in SeqNo :
          /\ d = Local => seq \in handed   \* nobody else makes our numbers up
          /\ UpdateDeviceSeqNoName(d, seq)
    \/ \E d \in Device, seq \in SeqNo : InsertDevice(d, seq)
    \/ GetNextLocalSeqNoSelect
    \/ GetNextLocalSeqNoUpdate
    \/ RememberBegin
    \/ RememberInsertHash
    \/ RememberRowId
    \/ RememberInsertNodes
    \/ RememberCommit
    \/ RememberThrow
    \/ Crash

LogSpec == LogInit /\ [][LogNext]_logVars

-----------------------------------------------------------------------------
LogTypeOK ==
    /\ db \in Tables
    /\ saved \in Tables
    /\ last_insert_rowid \in Nat
    /\ remember \in [pc : {"idle", "hash", "rowid", "nodes", "select"}, rowId : Nat]
    /\ next \in SeqNo \cup {Absent}
    /\ settled \subseteq handed /\ handed \subseteq SeqNo
    /\ collided \in BOOLEAN

\* The state that RememberStateInStateLog is in the middle of writing.
Unfinished(i) == remember.pc \in {"rowid", "nodes"} /\ i = db.last_state

\* Nothing in the state log, neither a hash nor a row of SyncStateNodes, is
\* ahead of SyncNodes, whatever statements, rollbacks and crashes interleave:
\* no hash announces what this device does not know
\* (RememberStateInStateLog, UpdateDeviceSeqNo).
LoggedIsKnown ==
    /\ \A i \in States : AtMost(db.state_hash[i], db.seq_no)
    /\ \A r \in db.nodes : r.state_id \in States /\ r.seq_no <= db.seq_no[r.device]

\* Unless a device was inserted at the wrong moment, every state of the log
\* has exactly one row for each device its hash covers, with a number at
\* least the hashed one: a difference computed from the rows never falls
\* behind the hash (RememberStateInStateLog).
RowsCoverHash ==
    ~collided => \A i \in States : ~Unfinished(i) =>
        /\ \A d \in Device : db.state_hash[i][d] # Absent =>
              \E r \in RowsOf(i) : r.device = d /\ r.seq_no >= db.state_hash[i][d]
        /\ \A r, q \in RowsOf(i) : r.device = q.device => r = q

\* The entries of the state log are sound: well formed, never ahead of SyncNodes
\* and with rows that cover their hashes, although RememberStateInStateLog is five
\* statements on a connection that other threads use and that a crash rolls back.
EntriesSound == LogTypeOK /\ LoggedIsKnown /\ RowsCoverHash

\* A local sequence number that GetNextLocalSeqNo returned outside a
\* transaction is never returned again, also after a crash.
SettledNeverReused == next # Absent => next \notin settled

=============================================================================
