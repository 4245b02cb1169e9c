------------------------------ MODULE FsWatcher ------------------------------
(***************************************************************************)
(* The watcher of the shared folder (fs-watcher/fs-watcher.cc).            *)
(*                                                                         *)
(* Three actors: the user, who changes the folder; the Qt thread, which    *)
(* runs the two slots for the signals of QFileSystemWatcher; and the one   *)
(* thread of m_scheduler, which scans directories and calls back.  Both    *)
(* threads run DidFileChanged, take paths out of m_watcher and put them    *)
(* back, without a lock, and the folder changes between any two of their   *)
(* calls.  A tag is taken from scheduleOneTimeTask until its task has      *)
(* returned, and a request for a taken tag is dropped.  The delays are not *)
(* modelled: tasks run in any order.                                       *)
(*                                                                         *)
(* QFileSystemWatcher, QDirIterator and the user are external.  A change   *)
(* of a watched path raises a signal, signals of one path coalesce, and    *)
(* the watch of a path ends with the path.  QDirIterator reads ahead, so   *)
(* a scan meets directories and their entries in any order.                *)
(***************************************************************************)
EXTENDS Naturals

CONSTANTS
    Root, SubDir,   \* the shared folder, and folders in it
    File,
    DirOf,          \* the folder that a file is in
    Excluded,       \* files whose names the scan excludes
    MaxEdit,        \* bound on changes by the user
    MaxStop         \* bound on restarts

Dir == SubDir \cup {Root}

Layout ==
    /\ Root \notin SubDir /\ Dir \cap File = {}
    /\ DirOf \in [File -> Dir] /\ Excluded \subseteq File
    /\ MaxEdit \in Nat /\ MaxStop \in Nat

ASSUME FsWatcherAssumption == Layout

VARIABLES
    up,         \* the process runs
    disk,       \* version of each file, 0 when there is none
    dirs,       \* the subfolders that exist
    watched,    \* paths of m_watcher
    signals,    \* paths whose signal has not been handled
    rows,       \* table Files
    tasks,      \* tags that are taken in m_scheduler
    running,    \* the task that runs, with the paths it has yet to visit
    calls,      \* where each thread is with the path that it has in hand
    told,       \* version that the dispatcher has read in a callback
    edits, stops,
    unseen      \* history: files of which a change went unnoticed

folder == <<disk, dirs>>
vars == <<up, folder, watched, signals, rows, tasks, running, calls, told, edits, stops, unseen>>

Task(do, path) == [do |-> do, path |-> path]
Idle == [task |-> Task("none", Root), todo |-> {}]

\* The threads, and what they do next with a path.
Thread == {"qt", "scheduler"}
Call(pc, p) == [pc |-> pc, path |-> p]
NoCall == Call("none", Root)
NoCalls == [th \in Thread |-> NoCall]

Exists(p) == IF p \in File THEN disk[p] # 0 ELSE p \in dirs \cup {Root}

\* Table Files, whose key is the name.
NoFiles == {}
FileExists(f) == f \in rows
AddFile(f) == rows \cup {f}
DeleteFile(f) == rows \ {f}

\* The constructor: the folder is watched and two scans are scheduled.
StartTasks == {Task("rescan-removals", Root), Task("rescan", Root)}

Init ==
    /\ up = TRUE
    /\ disk = [f \in File |-> 0] /\ dirs = {}
    /\ watched = {Root} /\ signals = {} /\ rows = NoFiles
    /\ tasks = StartTasks /\ running = Idle /\ calls = NoCalls
    /\ told = [f \in File |-> 0]
    /\ edits = 0 /\ stops = 0 /\ unseen = {}

-----------------------------------------------------------------------------
(* The user.                                                                *)

Signalled(paths) == IF up THEN signals \cup (paths \cap watched) ELSE signals

FilesIn(d) == {f \in File : DirOf[f] = d}

\* What a scan of a folder visits.
Below(d) == IF d = Root THEN SubDir \cup (File \ Excluded) ELSE FilesIn(d) \ Excluded

IsScan(t) == t.do \in {"scan", "rescan"}

\* A scan is yet to come to the file.
ToBeScanned(f) ==
    \/ \E d \in signals \cap Dir : f \in Below(d)
    \/ \E t \in tasks \ {running.task} : IsScan(t) /\ f \in Below(t.path)
    \/ IsScan(running.task) /\ f \in running.todo

\* The file is about to be looked for, by the slot or by a thread that is in it ...
Looked(f) == f \in signals \/ calls["scheduler"] = Call("exists", f)

\* ... or has been found, and will be told to have changed.
Telling(f) == \E th \in Thread : calls[th].path = f /\ calls[th].pc \in {"keep", "change"}

\* A change leaves no trace if no signal is raised, because the file is not watched,
\* no thread is about to see it, and no scan that does not know the file comes to it.
UntracedWrite(f) ==
    {g \in {f} \ watched :
        /\ ~Looked(g) /\ ~Telling(g)
        /\ g \in rows \/ (up /\ ~ToBeScanned(g) /\ (disk[g] # 0 \/ DirOf[g] \notin watched))}

UntracedRemoval(fs) ==
    {g \in fs \ watched : ~Looked(g) /\ (g \in rows \/ told[g] # 0)}

Write(f) ==
    /\ edits < MaxEdit /\ Exists(DirOf[f])
    /\ edits' = edits + 1
    /\ disk' = [disk EXCEPT ![f] = edits + 1]
    /\ signals' = Signalled(IF disk[f] = 0 THEN {f, DirOf[f]} ELSE {f})
    /\ unseen' = unseen \cup UntracedWrite(f)
    /\ UNCHANGED <<up, dirs, watched, rows, tasks, running, calls, told, stops>>

Remove(f) ==
    /\ edits < MaxEdit /\ disk[f] # 0
    /\ edits' = edits + 1
    /\ disk' = [disk EXCEPT ![f] = 0]
    /\ signals' = Signalled({f, DirOf[f]})
    /\ watched' = watched \ {f}
    /\ unseen' = unseen \cup UntracedRemoval({f})
    /\ UNCHANGED <<up, dirs, rows, tasks, running, calls, told, stops>>

MakeDir(d) ==
    /\ edits < MaxEdit /\ d \notin dirs
    /\ edits' = edits + 1
    /\ dirs' = dirs \cup {d}
    /\ signals' = Signalled({Root})
    /\ UNCHANGED <<up, disk, watched, rows, tasks, running, calls, told, stops, unseen>>

RemoveDir(d) ==
    /\ edits < MaxEdit /\ d \in dirs
    /\ edits' = edits + 1
    /\ dirs' = dirs \ {d}
    /\ disk' = [f \in File |-> IF f \in FilesIn(d) THEN 0 ELSE disk[f]]
    /\ LET gone == {f \in FilesIn(d) : disk[f] # 0}
       IN  /\ signals' = Signalled(gone \cup {d, Root})
           /\ watched' = watched \ (gone \cup {d})
           /\ unseen' = unseen \cup UntracedRemoval(gone)
    /\ UNCHANGED <<up, rows, tasks, running, calls, told, stops>>

User ==
    \/ \E f \in File : Write(f) \/ Remove(f)
    \/ \E d \in SubDir : MakeDir(d) \/ RemoveDir(d)

-----------------------------------------------------------------------------
(* What both threads do.                                                    *)

\* scheduleOneTimeTask: no effect for a tag that is taken.
Scheduled(new) == tasks \cup new

\* A request that is dropped after the callback of the task has been made.
Dropped(t) == {f \in {t.path} : t \in tasks /\ running.task = t}

\* DidFileChanged, call by call, in either thread.  Does the file exist?
At(th, pc) == up /\ calls[th].pc = pc
Goes(th, pc) == calls' = [calls EXCEPT ![th].pc = pc]
Ends(th) == calls' = [calls EXCEPT ![th] = NoCall]

Found(f) == Call(IF disk[f] # 0 THEN "keep" ELSE "drop", f)

\* The path is taken out of m_watcher in either case.
RemovePath(th) ==
    /\ At(th, "keep") \/ At(th, "drop")
    /\ watched' = watched \ {calls[th].path}
    /\ Goes(th, IF calls[th].pc = "keep" THEN "change" ELSE "delete")
    /\ UNCHANGED <<up, folder, signals, rows, tasks, running, told, edits, stops, unseen>>

Schedule(th) ==
    LET t == Task(calls[th].pc, calls[th].path)
    IN  /\ tasks' = Scheduled({t})
        /\ unseen' = unseen \cup Dropped(t)
        /\ Ends(th)

\* Mutant: the path is not put back.
FileUpdatedUnwatched(th) ==
    /\ At(th, "change")
    /\ Schedule(th)
    /\ UNCHANGED <<up, folder, watched, signals, rows, running, told, edits, stops>>

\* It exists, or did: the path is put back, which fails if it is gone, and the
\* dispatcher is to be told.  No step of the other thread sees which of the two
\* comes first.
FileUpdated(th) ==
    /\ At(th, "change")
    /\ watched' = watched \cup {p \in {calls[th].path} : Exists(p)}
    /\ Schedule(th)
    /\ UNCHANGED <<up, folder, signals, rows, running, told, edits, stops>>

\* Mutant: the row of a file that is gone stays.
FileDeletedKeepRow(th) ==
    /\ At(th, "delete")
    /\ Schedule(th)
    /\ UNCHANGED <<up, folder, watched, signals, rows, running, told, edits, stops>>

\* It does not: its row goes, and the dispatcher is to be told.
FileDeleted(th) ==
    /\ At(th, "delete")
    /\ rows' = DeleteFile(calls[th].path)
    /\ Schedule(th)
    /\ UNCHANGED <<up, folder, watched, signals, running, told, edits, stops>>

FileChanged(th) == RemovePath(th) \/ FileUpdated(th) \/ FileDeleted(th)

-----------------------------------------------------------------------------
(* The Qt thread.                                                           *)

DidFileChanged(f) ==
    /\ up /\ f \in signals /\ calls["qt"] = NoCall
    /\ signals' = signals \ {f}
    /\ calls' = [calls EXCEPT !["qt"] = Found(f)]
    /\ UNCHANGED <<up, folder, watched, rows, tasks, running, told, edits, stops, unseen>>

\* Mutant: no rescan follows.
ScansOfOnce(d) ==
    IF Exists(d) THEN {Task("scan", d), Task("rescan-removals", Root)} ELSE {Task("removals", d)}

\* The tasks that DidDirectoryChanged schedules.
ScansOf(d) ==
    IF Exists(d)
    THEN {Task("scan", d), Task("rescan", d), Task("rescan-removals", Root)}
    ELSE {Task("removals", d)}

DidDirectoryChanged(d) ==
    /\ up /\ d \in signals /\ calls["qt"] = NoCall
    /\ signals' = signals \ {d}
    /\ tasks' = Scheduled(ScansOf(d))
    /\ UNCHANGED <<up, folder, watched, rows, running, calls, told, edits, stops, unseen>>

-----------------------------------------------------------------------------
(* The thread of the scheduler.                                             *)

\* getFilesInDir.  The pattern for the root is "/%", which no row matches.
FilesInDir(d) == IF d = Root THEN {} ELSE rows \cap FilesIn(d)

TodoOf(t) ==
    CASE IsScan(t) -> Below(t.path)
      [] t.do \in {"removals", "rescan-removals"} -> FilesInDir(t.path)
      [] OTHER -> {}

\* m_onChange and m_onDelete have the dispatcher look at the file, and nothing
\* comes of it when the file has gone, or has come back, in the meantime.
Callback(t) ==
    IF t.do \in {"change", "delete"} /\ (t.do = "change" <=> disk[t.path] # 0)
    THEN told' = [told EXCEPT ![t.path] = disk[t.path]]
    ELSE UNCHANGED told

\* A task begins; a callback is all there is to its task.
Begin(t) ==
    /\ up /\ running = Idle /\ t \in tasks
    /\ running' = [task |-> t, todo |-> TodoOf(t)]
    /\ Callback(t)
    /\ UNCHANGED <<up, folder, watched, signals, rows, tasks, calls, edits, stops, unseen>>

Visits(p, kinds) ==
    /\ up /\ calls["scheduler"] = NoCall
    /\ running.task.do \in kinds /\ p \in running.todo
    /\ running' = [running EXCEPT !.todo = @ \ {p}]

\* ScanDirectory_NotifyUpdates_Execute meets a path and takes it out of m_watcher, ...
ScanVisit(p) ==
    /\ Visits(p, {"scan", "rescan"})
    /\ watched' = watched \ {p}
    /\ calls' = [calls EXCEPT !["scheduler"] = IF Exists(p) THEN Call("watch", p) ELSE NoCall]
    /\ UNCHANGED <<up, folder, signals, rows, tasks, told, edits, stops, unseen>>

\* Mutant: only what is new is watched.
ScanWatchNew ==
    LET p == calls["scheduler"].path
    IN  /\ At("scheduler", "watch")
        /\ watched' = watched \cup {q \in {p} \ rows : Exists(q)}
        /\ IF p \in File THEN Goes("scheduler", "look") ELSE Ends("scheduler")
        /\ UNCHANGED <<up, folder, signals, rows, tasks, running, told, edits, stops, unseen>>

\* ... puts it back, ...
ScanWatch ==
    LET p == calls["scheduler"].path
    IN  /\ At("scheduler", "watch")
        /\ watched' = watched \cup {q \in {p} : Exists(q)}
        /\ IF p \in File THEN Goes("scheduler", "look") ELSE Ends("scheduler")
        /\ UNCHANGED <<up, folder, signals, rows, tasks, running, told, edits, stops, unseen>>

\* ... adds a file that is not in the table to it (QFileInfo may still have it for
\* a file when it is gone), ...
ScanLook ==
    LET f == calls["scheduler"].path
    IN  /\ At("scheduler", "look")
        /\ \E isFile \in {TRUE, Exists(f)} :
              IF isFile /\ ~FileExists(f)
              THEN rows' = AddFile(f) /\ Goes("scheduler", "exists")
              ELSE Ends("scheduler") /\ UNCHANGED rows
        /\ UNCHANGED <<up, folder, watched, signals, tasks, running, told, edits, stops, unseen>>

\* ... and calls DidFileChanged for it.
ScanNotify ==
    /\ At("scheduler", "exists")
    /\ calls' = [calls EXCEPT !["scheduler"] = Found(calls["scheduler"].path)]
    /\ UNCHANGED <<up, folder, watched, signals, rows, tasks, running, told, edits, stops, unseen>>

\* ScanDirectory_NotifyRemovals_Execute looks for a file of the table.
RemovalVisit(f) ==
    /\ Visits(f, {"removals", "rescan-removals"})
    /\ IF disk[f] = 0
       THEN rows' = DeleteFile(f) /\ told' = [told EXCEPT ![f] = 0]
       ELSE UNCHANGED <<rows, told>>
    /\ UNCHANGED <<up, folder, watched, signals, tasks, calls, edits, stops, unseen>>

\* The task has returned, and its tag is free.
Return ==
    /\ up /\ running # Idle /\ running.todo = {} /\ calls["scheduler"] = NoCall
    /\ tasks' = tasks \ {running.task}
    /\ running' = Idle
    /\ UNCHANGED <<up, folder, watched, signals, rows, calls, told, edits, stops, unseen>>

Run ==
    \/ \E p \in running.todo : ScanVisit(p) \/ RemovalVisit(p)
    \/ ScanWatch
    \/ ScanLook
    \/ ScanNotify
    \/ Return

-----------------------------------------------------------------------------
(* The process ends, at any moment, and starts again.  Files that are in the *)
(* table and have not been reported are not reported later.                 *)

Stop ==
    /\ up /\ stops < MaxStop
    /\ stops' = stops + 1
    /\ up' = FALSE
    /\ watched' = {} /\ signals' = {} /\ tasks' = {}
    /\ running' = Idle /\ calls' = NoCalls
    /\ unseen' = unseen \cup {f \in File : IF disk[f] = 0 THEN told[f] # 0 \/ f \in rows
                                           ELSE told[f] # disk[f] /\ f \in rows}
    /\ UNCHANGED <<folder, rows, told, edits>>

Start ==
    /\ ~up
    /\ up' = TRUE
    /\ watched' = {Root} /\ tasks' = StartTasks
    /\ UNCHANGED <<folder, signals, rows, running, calls, told, edits, stops, unseen>>

Step ==
    \/ \E f \in File : DidFileChanged(f)
    \/ \E d \in Dir : DidDirectoryChanged(d)
    \/ \E t \in tasks : Begin(t)
    \/ Run
    \/ \E th \in Thread : FileChanged(th)
    \/ Start

Next == User \/ Step \/ Stop

Spec == Init /\ [][Next]_vars

\* Signals are delivered, timers expire, and tasks come to an end.  Every change
\* of the folder causes a bounded number of these steps.
FairSpec == Spec /\ WF_vars(Step)

-----------------------------------------------------------------------------
TaskType ==
    [do : {"scan", "rescan", "removals", "rescan-removals"}, path : Dir]
    \cup [do : {"change", "delete"}, path : File]

CallType ==
    {NoCall}
    \cup [pc : {"watch"}, path : File \cup SubDir]
    \cup [pc : {"look", "exists", "keep", "drop", "change", "delete"}, path : File]

TypeOK ==
    /\ up \in BOOLEAN
    /\ disk \in [File -> 0..MaxEdit] /\ dirs \subseteq SubDir
    /\ watched \subseteq {p \in File \cup Dir : Exists(p)} /\ signals \subseteq File \cup Dir
    /\ rows \subseteq File /\ tasks \subseteq TaskType
    /\ running = Idle \/ running.task \in tasks
    /\ running.todo \subseteq File \cup SubDir
    /\ calls \in [Thread -> CallType]
    /\ told \in [File -> 0..MaxEdit]
    /\ edits \in 0..MaxEdit /\ stops \in 0..MaxStop /\ unseen \subseteq File

\* A file of the table that is on disk is watched, or a thread has it in hand, or a
\* signal or a scan that will watch it again is on its way: otherwise its changes
\* go unnoticed.
KnownIsWatched ==
    \A f \in rows :
        up /\ disk[f] # 0 =>
            \/ f \in watched \cup signals \cup unseen
            \/ \E th \in Thread : calls[th].path = f /\ calls[th].pc # "look"
            \/ ToBeScanned(f)

\* The table and the watcher agree after every interleaving of scans, signals and
\* restarts (ScanDirectory_NotifyUpdates_Execute, DidFileChanged).
TableSound == TypeOK /\ KnownIsWatched

\* The dispatcher comes to read the last version of every file, or that it is
\* gone, whatever scans and signals do at the same time.  The exceptions are a
\* change while the file is in the table and not watched, or new and behind the
\* scan that will watch its folder, a request dropped because the last task of
\* the same tag has not returned, and a process that ends first.
ChangeIsReported ==
    \A f \in File \ Excluded :
        (up /\ told[f] # disk[f]) ~> (~up \/ told[f] = disk[f] \/ f \in unseen)

\* The row of a file that is gone is removed, so that the file is new to the scan
\* when it comes back.  The exceptions are those above.
GoneLeavesTable ==
    \A f \in File :
        (up /\ f \in rows /\ disk[f] = 0) ~> (~up \/ f \notin rows \/ disk[f] # 0 \/ f \in unseen)

=============================================================================
