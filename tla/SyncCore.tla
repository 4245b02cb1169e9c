------------------------------ MODULE SyncCore ------------------------------
(***************************************************************************)
(* One device's SyncCore (src/sync-core.cc) with its SyncLog               *)
(* (src/sync-log.cc) and its Scheduler.                                    *)
(*                                                                         *)
(* Three threads share the SyncLog tables, m_rootHash and the scheduler:   *)
(*   - the face thread delivers Interests and Data (handleSyncInterest,    *)
(*     handleSyncData, handleRecoverData and handleStateData);             *)
(*   - the scheduler's executor thread runs the tasks (sendSyncInterest,   *)
(*     localStateChanged, recover);                                        *)
(*   - the application thread records local actions (GetNextLocalSeqNo,    *)
(*     called by ActionLog) and then calls localStateChangedDelayed.       *)
(* m_rootHash has no lock, so every access to it is a step of its own.     *)
(* The calls of SyncLog are single statements, except that                 *)
(* RememberStateInStateLog takes two: only calls of itself are kept out in *)
(* between (m_stateUpdateMutex), and on the shared connection every other  *)
(* statement sees what the open transaction has done so far.               *)
(*                                                                         *)
(* The network is the environment: any Interest may arrive, and once an    *)
(* Interest of a kind has been expressed, Data with any message may arrive *)
(* for it (sync Interests are re-expressed for ever, so one of them is     *)
(* outstanding most of the time; the timeout handlers are empty).          *)
(***************************************************************************)
EXTENDS SyncState, Scheduler

CONSTANTS
    MaxLocalSeq,    \* bound on the local device's sequence number
    Mentioned,      \* devices that peers' messages are about
    Told,           \* what they say of them: sequence numbers, Absent for DELETE
    PeerHash,       \* hashes peers put in their sync Interests
    Malformed       \* Data without content, or whose content does not parse

ASSUME MaxLocalSeqAssumption == MaxLocalSeq \in SeqNo

ASSUME LocalAssumption == Local \in Device /\ Mentioned \subseteq Device

ASSUME ToldAssumption == Told \subseteq SeqNo \cup {Absent}

\* Tags.  The tag of recover tasks is "r-" followed by the printed hash, and
\* operator<< for Hash prints nothing, so all of them share one tag.
SYNC_INTEREST_TAG == "send-sync-interest"
SYNC_INTEREST_TAG2 == "send-sync-interest2"
LOCAL_STATE_CHANGE_DELAYED_TAG == "local-state-changed"
RECOVER_TAG == "r-"

SyncTags == {SYNC_INTEREST_TAG, SYNC_INTEREST_TAG2,
             LOCAL_STATE_CHANGE_DELAYED_TAG, RECOVER_TAG}

ASSUME TagsAssumption == Tag = SyncTags /\ PeriodicTag = {SYNC_INTEREST_TAG}

\* m_sendSyncInterestTask, made by the constructor.
m_sendSyncInterestTask == [tag |-> SYNC_INTEREST_TAG, n |-> 1]

\* A hash read from an Interest is the component's whole TLV block: the bytes
\* of the sender's hash behind a header, so never the hash that was sent.
WireHash(h) == [x \in Device \cup {"header"} |-> IF x \in Device THEN h[x] ELSE 0]

VARIABLES
    nodes,          \* table SyncNodes: device -> seq_no
    log,            \* table SyncLog: the hashes remembered
    rows,           \* table SyncStateNodes: the rows of each hash, Origin if none
    m_rootHash,
    expressed,      \* kinds of Interest expressed so far: "sync", "recover"
    face,           \* face thread: [pc, msg, old, new]
    exec,           \* executor thread: [pc, old, new]
    app,            \* application thread: its pc
    recoverFor,     \* hash bound into the recover task's closure
    reported,       \* observation: sequence numbers handed to the callback
    published,      \* observation: largest local number put in Data
    overlapped      \* observation: localStateChanged came between the steps of a
                    \* handleStateData in one of three harmful ways

\* old and new are C++ locals: they are Origin outside their scope.
threadVars == <<face, exec, app>>
storeVars == <<nodes, log, rows, m_rootHash>>
observations == <<reported, published, overlapped>>
vars == <<nodes, log, rows, m_rootHash, expressed, face, exec, app, recoverFor,
          reported, published, overlapped, schedulerVars>>

Remotes == Device \ {Local}

\* The messages peers send: at most one state per device; about our own
\* device they know what we told them.
Msg == {m \in SUBSET [name : Mentioned, seq : Told] :
            \A s, t \in m : s.name = t.name => s = t}

\* Is the hash in table SyncLog?
LookupSyncLog(h) == h \in log

\* The content is a gzipped SyncStateMsg.
Parses(msg) == msg # Malformed

\* m_stateUpdateMutex: the thread with this control state is between the two
\* statements of RememberStateInStateLog.
Remembering(thread) == thread.pc = "rows"

\* INSERT INTO SyncLog.  The guard trigger deletes an equal hash first, and with it
\* its rows in SyncStateNodes.  The row id is read with it: that a new device may be
\* inserted before sqlite3_last_insert_rowid is called is in SyncLog (collided).
InsertHash ==
    /\ log' = log \cup {nodes}
    /\ rows' = [rows EXCEPT ![nodes] = Origin]

\* Mutant: the INSERT of the rows comes to nothing.
InsertRowsIgnored(h) == rows' = rows

\* INSERT INTO SyncStateNodes, from what SyncNodes holds by now; then COMMIT.
InsertRows(h) == rows' = [rows EXCEPT ![h] = nodes]

-----------------------------------------------------------------------------
(* The constructor, after SyncLog's own: the local device has a row.        *)

FirstState == [d \in Device |-> IF d = Local THEN 0 ELSE Absent]

FirstTask == [tag |-> SYNC_INTEREST_TAG2, n |-> 1]

Init ==
    /\ nodes = FirstState
    /\ log = {FirstState}
    /\ rows = [h \in Snapshot |-> IF h = FirstState THEN FirstState ELSE Origin]
    /\ m_rootHash = FirstState
    /\ expressed = {}
    /\ face = [pc |-> "idle", msg |-> {}, old |-> Origin, new |-> Origin]
    /\ exec = [pc |-> "idle", old |-> Origin, new |-> Origin]
    /\ app = "idle"
    /\ recoverFor = Origin
    /\ reported = [d \in Device |-> {}]
    /\ published = 0
    /\ overlapped = FALSE
    /\ m_taskMap = [g \in Tag |-> IF g = SYNC_INTEREST_TAG2 THEN FirstTask
                                                           ELSE NoTask]
    /\ armed = {FirstTask}
    /\ m_queue = <<>>
    /\ running = NoTask
    /\ m_invoked = {}

-----------------------------------------------------------------------------
(* Application thread.                                                      *)

GetNextLocalSeqNo ==
    /\ app = "idle"
    /\ nodes[Local] < MaxLocalSeq
    /\ nodes' = UpdateDeviceSeqNo(nodes, Local, nodes[Local] + 1)
    /\ app' = "notify"
    /\ UNCHANGED <<log, rows, m_rootHash, expressed, face, exec, recoverFor,
                   observations, schedulerVars>>

LocalStateChangedDelayed ==
    /\ app = "notify"
    /\ IF m_taskMap[LOCAL_STATE_CHANGE_DELAYED_TAG] = NoTask
       THEN ScheduleOneTimeTask(LOCAL_STATE_CHANGE_DELAYED_TAG)
       ELSE UNCHANGED schedulerVars
    /\ app' = "idle"
    /\ UNCHANGED <<storeVars, expressed, face, exec, recoverFor, observations>>

-----------------------------------------------------------------------------
(* Face thread.                                                             *)

\* handleSyncInterest.  An equal hash is ignored, and for a logged hash the
\* reply is built but never put, so only the unknown hash has an effect.
\* handleRecoverInterest builds its reply and never puts it either.
HandleSyncInterest(h) ==
    /\ face.pc = "idle"
    /\ WireHash(h) # m_rootHash
    /\ ~LookupSyncLog(WireHash(h))
    /\ m_taskMap[RECOVER_TAG] = NoTask
    /\ ScheduleOneTimeTask(RECOVER_TAG)
    /\ recoverFor' = WireHash(h)
    /\ UNCHANGED <<storeVars, expressed, face, exec, app, observations>>

\* handleSyncData and handleRecoverData: usable content goes to
\* handleStateData, any other straight to the new sync Interest.
HandleData(kind, msg) ==
    /\ face.pc = "idle"
    /\ kind \in expressed
    /\ face' = IF Parses(msg)
               THEN [face EXCEPT !.pc = "apply", !.msg = msg]
               ELSE [face EXCEPT !.pc = "delete"]
    /\ UNCHANGED <<storeVars, expressed, exec, app, recoverFor, observations,
                   schedulerVars>>

\* handleStateData, the loop over the states of the message.
HandleStateApply(st) ==
    /\ face.pc = "apply"
    /\ st \in face.msg
    /\ nodes' = ApplyState(nodes, st)
    /\ face' = [face EXCEPT !.msg = @ \ {st}]
    /\ UNCHANGED <<log, rows, m_rootHash, expressed, exec, app, recoverFor,
                   observations, schedulerVars>>

\* oldHash = m_rootHash
HandleStateOldHash ==
    /\ face.pc = "apply"
    /\ face.msg = {}
    /\ face' = [face EXCEPT !.pc = "remember", !.old = m_rootHash]
    /\ UNCHANGED <<storeVars, expressed, exec, app, recoverFor, observations,
                   schedulerVars>>

\* RememberStateInStateLog(): the lock and the hash ...
HandleStateRemember ==
    /\ face.pc = "remember"
    /\ ~Remembering(exec)
    /\ InsertHash
    /\ face' = [face EXCEPT !.pc = "rows", !.new = nodes]
    /\ UNCHANGED <<nodes, m_rootHash, expressed, exec, app, recoverFor,
                   observations, schedulerVars>>

\* ... and the rows, the COMMIT and the return.
HandleStateInsertRows ==
    /\ face.pc = "rows"
    /\ InsertRows(face.new)
    /\ face' = [face EXCEPT !.pc = "assign"]
    /\ UNCHANGED <<nodes, log, m_rootHash, expressed, exec, app, recoverFor,
                   observations, schedulerVars>>

\* Mutant: oldHash is read after m_rootHash has been replaced.
HandleStateAssignLateOld ==
    /\ face.pc = "assign"
    /\ m_rootHash' = face.new
    /\ face' = [face EXCEPT !.pc = "diff", !.old = face.new, !.new = Origin]
    /\ UNCHANGED <<nodes, log, rows, expressed, exec, app, recoverFor, observations,
                   schedulerVars>>

\* m_rootHash = ...
HandleStateAssign ==
    /\ face.pc = "assign"
    /\ m_rootHash' = face.new
    /\ face' = [face EXCEPT !.pc = "diff", !.new = Origin]
    /\ UNCHANGED <<nodes, log, rows, expressed, exec, app, recoverFor, observations,
                   schedulerVars>>

\* Mutant: the range ends one too late.
HandleStateDiffAhead ==
    /\ face.pc = "diff"
    /\ reported' = [d \in Device |-> reported[d] \cup 1..(m_rootHash[d] + 1)]
    /\ overlapped' = (overlapped \/ rows[m_rootHash] = Origin)
    /\ face' = [face EXCEPT !.pc = "delete", !.old = Origin]
    /\ UNCHANGED <<storeVars, expressed, exec, app, recoverFor, published,
                   schedulerVars>>

\* FindStateDifferences (*oldHash, *m_rootHash, true), and the callback: the
\* Dispatcher fetches old_seq + 1 .. seq of every state that has a seq.  No lock is
\* taken, so either state may be without its rows, or have later ones.
HandleStateDiff ==
    /\ face.pc = "diff"
    /\ LET diff == FindStateDifferences(rows[face.old], rows[m_rootHash])
       IN  reported' = [d \in Device |-> reported[d] \cup
               UNION {(st.old_seq + 1)..st.seq : st \in {s \in diff : s.name = d}}]
    /\ overlapped' = (overlapped \/ rows[m_rootHash] = Origin)
    /\ face' = [face EXCEPT !.pc = "delete", !.old = Origin]
    /\ UNCHANGED <<storeVars, expressed, exec, app, recoverFor, published,
                   schedulerVars>>

\* The end of both Data handlers: a fresh sync Interest at once.
HandleDataDeleteTask ==
    /\ face.pc = "delete"
    /\ DeleteTask(SYNC_INTEREST_TAG2)
    /\ face' = [face EXCEPT !.pc = "schedule"]
    /\ UNCHANGED <<storeVars, expressed, exec, app, recoverFor, observations>>

HandleDataSchedule ==
    /\ face.pc = "schedule"
    /\ IF m_taskMap[SYNC_INTEREST_TAG2] = NoTask
       THEN ScheduleOneTimeTask(SYNC_INTEREST_TAG2)
       ELSE UNCHANGED schedulerVars
    /\ face' = [face EXCEPT !.pc = "idle"]
    /\ UNCHANGED <<storeVars, expressed, exec, app, recoverFor, observations>>

-----------------------------------------------------------------------------
(* Event thread and executor thread of the scheduler.                       *)

FireTimer(t) ==
    /\ Fire(t)
    /\ UNCHANGED <<storeVars, expressed, threadVars, recoverFor, observations>>

\* Where the callback of a task starts.
Entry(tag) ==
    IF tag = LOCAL_STATE_CHANGE_DELAYED_TAG THEN "old"
    ELSE IF tag = RECOVER_TAG THEN "recover" ELSE "send"

ExecTake ==
    /\ exec.pc = "idle"
    /\ TakeJob
    /\ exec' = [exec EXCEPT !.pc = IF running' = NoTask THEN "idle"
                                                       ELSE Entry(running'.tag)]
    /\ UNCHANGED <<storeVars, expressed, face, app, recoverFor, observations>>

\* localStateChanged, split at its accesses to shared state.
LocalOldHash ==
    /\ exec.pc = "old"
    /\ exec' = [exec EXCEPT !.pc = "remember", !.old = m_rootHash]
    /\ UNCHANGED <<storeVars, expressed, face, app, recoverFor, observations,
                   schedulerVars>>

LocalRemember ==
    /\ exec.pc = "remember"
    /\ ~Remembering(face)
    /\ InsertHash
    /\ exec' = [exec EXCEPT !.pc = "rows", !.new = nodes]
    /\ UNCHANGED <<nodes, m_rootHash, expressed, face, app, recoverFor,
                   observations, schedulerVars>>

\* A message that was applied since the hash was taken gets into its rows.
LocalInsertRows ==
    /\ exec.pc = "rows"
    /\ InsertRows(exec.new)
    /\ exec' = [exec EXCEPT !.pc = "assign"]
    /\ overlapped' = (overlapped \/ \E d \in Remotes : nodes[d] # exec.new[d])
    /\ UNCHANGED <<nodes, log, m_rootHash, expressed, face, app, recoverFor,
                   reported, published, schedulerVars>>

LocalAssign ==
    /\ exec.pc = "assign"
    /\ m_rootHash' = exec.new
    /\ exec' = [exec EXCEPT !.pc = "put", !.new = Origin]
    /\ overlapped' = (overlapped \/
          face.pc \in {"apply", "remember", "rows", "assign", "diff"})
    /\ UNCHANGED <<nodes, log, rows, expressed, face, app, recoverFor, reported,
                   published, schedulerVars>>

\* The difference between the old hash and what m_rootHash is by now is put
\* under the old hash.
LocalPublish ==
    /\ exec.pc = "put"
    /\ LET mine == {st \in FindStateDifferences(rows[exec.old], rows[m_rootHash]) :
                        st.name = Local /\ st.seq > published}
       IN  published' = IF mine = {} THEN published
                                     ELSE (CHOOSE st \in mine : TRUE).seq
    /\ exec' = [exec EXCEPT !.pc = "delete", !.old = Origin]
    /\ UNCHANGED <<storeVars, expressed, face, app, recoverFor, reported,
                   overlapped, schedulerVars>>

LocalDeleteTask ==
    /\ exec.pc = "delete"
    /\ DeleteTask(SYNC_INTEREST_TAG2)
    /\ exec' = [exec EXCEPT !.pc = "schedule"]
    /\ UNCHANGED <<storeVars, expressed, face, app, recoverFor, observations>>

LocalSchedule ==
    /\ exec.pc = "schedule"
    /\ IF m_taskMap[SYNC_INTEREST_TAG2] = NoTask
       THEN ScheduleOneTimeTask(SYNC_INTEREST_TAG2)
       ELSE UNCHANGED schedulerVars
    /\ exec' = [exec EXCEPT !.pc = "finish"]
    /\ UNCHANGED <<storeVars, expressed, face, app, recoverFor, observations>>

\* Mutant: the Interest is not followed by a reschedule.
SendSyncInterestOnce ==
    /\ exec.pc = "send"
    /\ expressed' = expressed \cup {"sync"}
    /\ exec' = [exec EXCEPT !.pc = "finish"]
    /\ UNCHANGED <<storeVars, face, app, recoverFor, observations, schedulerVars>>

\* sendSyncInterest: the Interest, then the periodic task is rescheduled.
SendSyncInterest ==
    /\ exec.pc = "send"
    /\ expressed' = expressed \cup {"sync"}
    /\ RescheduleTask(m_sendSyncInterestTask)
    /\ exec' = [exec EXCEPT !.pc = "finish"]
    /\ UNCHANGED <<storeVars, face, app, recoverFor, observations>>

\* recover: copying the hash into the empty Buffer either kills the process
\* or leaves the name without the hash.
Recover ==
    /\ exec.pc = "recover"
    /\ IF recoverFor # m_rootHash /\ ~LookupSyncLog(recoverFor)
       THEN expressed' = expressed \cup {"recover"} ELSE UNCHANGED expressed
    /\ exec' = [exec EXCEPT !.pc = "finish"]
    /\ recoverFor' = Origin
    /\ UNCHANGED <<storeVars, face, app, observations,
                   schedulerVars>>

RecoverCrash ==
    /\ exec.pc = "recover"
    /\ recoverFor # m_rootHash /\ ~LookupSyncLog(recoverFor)
    /\ face' = [face EXCEPT !.pc = "dead"]
    /\ exec' = [exec EXCEPT !.pc = "dead"]
    /\ app' = "dead"
    /\ armed' = {}
    /\ UNCHANGED <<storeVars, expressed, recoverFor, observations, m_taskMap,
                   m_queue, running, m_invoked>>

crashed == exec.pc = "dead"

ExecReturn ==
    /\ exec.pc = "finish"
    /\ OneTimeReturn
    /\ exec' = [exec EXCEPT !.pc = "deregister"]
    /\ UNCHANGED <<storeVars, expressed, face, app, recoverFor, observations>>

ExecDeregister ==
    /\ exec.pc = "deregister"
    /\ DeregisterSelf
    /\ exec' = [exec EXCEPT !.pc = "idle"]
    /\ UNCHANGED <<storeVars, expressed, face, app, recoverFor, observations>>

ExecFinishPeriodic ==
    /\ exec.pc = "finish"
    /\ FinishPeriodic
    /\ exec' = [exec EXCEPT !.pc = "idle"]
    /\ UNCHANGED <<storeVars, expressed, face, app, recoverFor, observations>>

-----------------------------------------------------------------------------
AppStep == GetNextLocalSeqNo \/ LocalStateChangedDelayed

\* A message of the environment: nobody knows more about us than we do.
Plausible(msg) ==
    \A st \in msg : st.name = Local => st.seq <= nodes[Local]

Deliver ==
    \/ \E h \in PeerHash : HandleSyncInterest(h)
    \/ \E kind \in expressed, msg \in Msg : Plausible(msg) /\ HandleData(kind, msg)
    \/ \E kind \in expressed : HandleData(kind, Malformed)

FaceStep ==
    \/ \E st \in face.msg : HandleStateApply(st)
    \/ HandleStateOldHash
    \/ HandleStateRemember \/ HandleStateInsertRows
    \/ HandleStateAssign
    \/ HandleStateDiff
    \/ HandleDataDeleteTask
    \/ HandleDataSchedule

ExecStep ==
    \/ ExecTake
    \/ LocalOldHash \/ LocalRemember \/ LocalInsertRows \/ LocalAssign
    \/ LocalPublish
    \/ LocalDeleteTask \/ LocalSchedule
    \/ SendSyncInterest
    \/ Recover
    \/ ExecReturn \/ ExecDeregister \/ ExecFinishPeriodic

Next ==
    \/ AppStep
    \/ Deliver
    \/ FaceStep
    \/ ExecStep
    \/ RecoverCrash
    \/ \E t \in Task : FireTimer(t)

Spec == Init /\ [][Next]_vars

\* The process's threads are scheduled by the operating system and an armed
\* timer expires.  Strong fairness of a timer stands for the unbounded job
\* queue of the code, and that of LocalRemember for a mutex that the thread which
\* waits for it gets in the end, however often handleStateData takes it in between.
\* Nothing is assumed of the network, nor that the application makes local changes.
FairSpec ==
    /\ Spec
    /\ WF_vars(LocalStateChangedDelayed)
    /\ WF_vars(FaceStep)
    /\ WF_vars(ExecStep)
    /\ SF_vars(LocalRemember)
    /\ \A g \in Tag : SF_vars(\E t \in Task : t.tag = g /\ FireTimer(t))

-----------------------------------------------------------------------------
FacePc == {"idle", "apply", "remember", "rows", "assign", "diff", "delete", "schedule",
           "dead"}
ExecPc == {"idle", "old", "remember", "rows", "assign", "put", "delete",
           "schedule", "send", "recover", "finish", "deregister", "dead"}

TypeOK ==
    /\ nodes \in Snapshot
    /\ log \subseteq Snapshot
    /\ rows \in [Snapshot -> Snapshot]
    /\ m_rootHash \in Snapshot
    /\ expressed \subseteq {"sync", "recover"}
    /\ face \in [pc : FacePc, msg : Msg, old : Snapshot, new : Snapshot]
    /\ exec \in [pc : ExecPc, old : Snapshot, new : Snapshot]
    /\ app \in {"idle", "notify", "dead"}
    /\ recoverFor \in {Origin} \cup {WireHash(h) : h \in PeerHash}
    /\ reported \in [Device -> SUBSET (1..MaxSeq)]
    /\ published \in SeqNo
    /\ overlapped \in BOOLEAN
    /\ SchedulerTypeOK

\* The root hash, and every hash a thread is about to install as root or to diff
\* from, is in the state log (localStateChanged and handleStateData).
RootRemembered ==
    /\ m_rootHash \in log
    /\ face.pc \in {"remember", "rows", "assign", "diff"} => face.old \in log
    /\ face.pc \in {"rows", "assign"} => face.new \in log
    /\ exec.pc \in {"remember", "rows", "assign", "put"} => exec.old \in log
    /\ exec.pc \in {"rows", "assign"} => exec.new \in log

\* A thread is between the two statements that remember state h.
BeingWritten(h) ==
    \/ Remembering(face) /\ face.new = h
    \/ Remembering(exec) /\ exec.new = h

\* The rows of a logged state are gone while it is remembered once more; otherwise
\* they are never behind its hash.  (A crash rolls the transaction back.)
RowsNotBehind ==
    \A h \in log : AtMost(h, rows[h]) \/ BeingWritten(h) \/ crashed

\* The states in the two tables: what the hashes stand for and what the rows say.
Remembered == log \cup {rows[h] : h \in log}

\* The states one device ever remembers are totally ordered, and none is ahead of
\* SyncNodes, although two threads remember them concurrently: of any two root hashes
\* it has announced, one subsumes the other.
LogIsChain ==
    /\ \A s \in Remembered : AtMost(s, nodes)
    /\ \A s, t \in Remembered : AtMost(s, t) \/ AtMost(t, s)

\* Every root that localStateChanged or handleStateData announces or compares with
\* is in the state log, with rows that hold all its hash stands for unless the very
\* same state is being remembered once more, and the log is a chain: a peer that
\* answers from it never takes a root of this device for one of two branches.
RootsLogged == RootRemembered /\ RowsNotBehind /\ LogIsChain

\* The callback is never told of an action that SyncNodes does not record, and no
\* local number is published before it was allocated, even when a stale state
\* replaces a newer one in m_rootHash, or loses its rows, between Remember and diff.
NothingInvented ==
    /\ \A d \in Device : \A n \in reported[d] : n <= nodes[d]
    /\ published <= nodes[Local]

\* When the face thread is idle, every action of a remote device that SyncNodes
\* records has been handed to the callback, unless localStateChanged has once come
\* between: it wrote m_rootHash in the middle of a handleStateData, or gave a state
\* rows that are ahead of its hash, or a difference was taken while the rows of the
\* new root were gone.  (Numbers may be handed over more than once.)
NothingMissed ==
    face.pc = "idle" /\ ~overlapped =>
        \A d \in Remotes : 1..nodes[d] \subseteq reported[d]

\* handleStateData reports nothing that SyncNodes does not record, and everything it
\* does, outside its three overlaps with localStateChanged.
ReportsComplete == NothingInvented /\ NothingMissed

\* A device keeps expressing sync Interests for its current root for as long
\* as the process lives, although handlers keep deleting each other's
\* SYNC_INTEREST_TAG2 tasks (the periodic task is rescheduled by every
\* sendSyncInterest).
KeepsSendingInterests ==
    <>crashed \/ []<><<SendSyncInterest>>_vars

=============================================================================
