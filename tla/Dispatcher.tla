----------------------------- MODULE Dispatcher -----------------------------
(***************************************************************************)
(* The Dispatcher of one device (src/src/dispatcher.cc) with its segment   *)
(* store (object-db.cc, object-manager.cc): it logs what the user does in  *)
(* the shared folder, fetches the actions and the files of other devices,  *)
(* and writes to, and removes from, the folder itself.                     *)
(*                                                                         *)
(* m_executor runs the jobs of the dispatcher one after the other.  Beside *)
(* it run the user, the watcher, which turns changes of the disk into jobs *)
(* some time later, the thread of m_actionFetcher, on which                *)
(* Did_FetchManager_ActionFetch runs, and that of m_fileFetcher.  A write  *)
(* to the action log with its trigger is one step here; ActionLog has its  *)
(* statements.  Its connection is that of FileState's rows in both.        *)
(*                                                                         *)
(* Four conversions of the port to ndn-cxx are unfinished: Hash prints     *)
(* nothing (hash-helper.cc), the hash read back from a name has the header *)
(* of its component in front, ObjectDb looks segments up under another     *)
(* encoding of the device than it saves them under, and segments are saved *)
(* with more bytes than were read or received.  Each of the Worlds says     *)
(* which conversions work, none of them in the code as it stands, and      *)
(* bounds what happens.                                                    *)
(***************************************************************************)
EXTENDS FileState, Sequences, FiniteSets, FiniteSetsExt, TLC

CONSTANTS
    Local,      \* m_localUserName
    Remote,     \* the updates that other devices publish
    Segs,       \* number of segments of a content
    Worlds      \* conversions that work, with bounds on what happens

Conversions == {"printed", "extracted", "keys", "sized"}
Torn == "torn"          \* a file that lacks some of its segments
Padded == "padded"      \* a file with bytes after its segments that are not its own
Content == Hash \cup {Torn, Padded}

ASSUME DispatcherAssumption ==
    /\ Device \subseteq Nat \ {0} /\ Local \in Device
    /\ Torn \notin Hash \cup {NoHash} /\ Padded \notin Hash \cup {NoHash, Torn}
    /\ Segs \in [Hash -> Nat \ {0}]
    /\ Worlds \subseteq (SUBSET Conversions) \X [seq : [Device \ {Local} -> Nat], changes : Nat]
    /\ \A a \in Remote : /\ a.dev \in Device \ {Local} /\ a.file \in File /\ a.hash \in Hash
                         /\ a.act = "update" /\ a.seq \in Nat /\ a.version \in Nat

VARIABLES
    port,           \* the conversions that work
    bound,          \* the last number that each device reports, and how much happens
    up,             \* the process runs
    disk,           \* contents of the shared folder
    stamp,          \* the action whose time and mode a file has, 0 for none
    changed,        \* files whose change the watcher has not reported yet
    log,            \* the actions in the log
    files,          \* FileState
    jobs,           \* queue of m_executor
    assembly,       \* the running Did_FetchManager_FileFetchComplete_Execute
    reported,       \* last number that SyncCore has reported, per device
    wanted,         \* actions that m_actionFetcher is to fetch
    logged,         \* an action that is logged and whose file is not requested
    m_objectDbMap,  \* contents with an open ObjectDb
    unsaved,        \* segments in the open transactions of these
    saved,          \* segments that are committed
    fetching,       \* fetches of m_fileFetcher: what they still lack
    changes,        \* what the user has done and what was reported so far
    wrote,          \* history: contents that the user has put into files
    stale,          \* history: files whose row is complete for another action
    shared,         \* history: contents whose ObjectDb was closed under a fetch
    skipped         \* history: files found on disk when they were to be assembled

disks == <<disk, stamp, changed>>
tables == <<log, files>>
fetches == <<reported, wanted, logged, fetching>>
store == <<m_objectDbMap, unsaved, saved>>
history == <<wrote, stale, shared, skipped>>
vars == <<port, bound, up, disks, tables, jobs, assembly, fetches, store, changes, history>>

None == [dev |-> 0]

\* The action that a row shows.
Shown(f) == <<files[f].dev, files[f].seq>>
NoStamp == <<0, 0>>

\* The executor is between two jobs.
Idle == [pc |-> "idle"]

Init ==
    /\ \E w \in Worlds : port = w[1] /\ bound = w[2]
    /\ up = TRUE
    /\ disk = [f \in File |-> NoHash] /\ stamp = [f \in File |-> NoStamp] /\ changed = {}
    /\ log = {} /\ files = [f \in File |-> NoRow]
    /\ jobs = <<>> /\ assembly = Idle
    /\ reported = [d \in Device \ {Local} |-> 0]
    /\ wanted = {} /\ logged = None /\ fetching = {}
    /\ m_objectDbMap = {} /\ unsaved = {} /\ saved = {}
    /\ changes = 0
    /\ wrote = {} /\ stale = {} /\ shared = {} /\ skipped = {}

-----------------------------------------------------------------------------
(* The user and the watcher.                                                *)

\* The user writes, touches or removes a file; a copy may bring along the time
\* and the mode of another device's file.
Stamps(f, h) == {NoStamp} \cup {<<a.dev, a.seq>> : a \in {b \in Remote : b.file = f /\ b.hash = h}}

UserEdit(f, h, t) ==
    /\ up /\ changes < bound.changes
    /\ h = NoHash => disk[f] # NoHash
    /\ changes' = changes + 1
    /\ disk' = [disk EXCEPT ![f] = h]
    /\ stamp' = [stamp EXCEPT ![f] = t]
    /\ changed' = changed \cup {f}
    /\ wrote' = IF h = NoHash THEN wrote ELSE wrote \cup {<<f, h>>}
    /\ UNCHANGED <<port, bound, up, tables, jobs, assembly, fetches, store, stale, shared, skipped>>

UserTouch(f) ==
    /\ up /\ changes < bound.changes
    /\ disk[f] # NoHash
    /\ changes' = changes + 1
    /\ stamp' = [stamp EXCEPT ![f] = NoStamp]
    /\ changed' = changed \cup {f}
    /\ UNCHANGED <<port, bound, up, disk, tables, jobs, assembly, fetches, store, history>>

Did(what, f) == [do |-> what, file |-> f]

\* Did_LocalFile_AddOrModify and Did_LocalFile_Delete, called by the watcher.
Report(f) ==
    /\ up /\ f \in changed
    /\ changed' = changed \ {f}
    /\ jobs' = Append(jobs, Did(IF disk[f] = NoHash THEN "delete" ELSE "modify", f))
    /\ UNCHANGED <<port, bound, up, disk, stamp, tables, assembly, fetches, store, changes, history>>

-----------------------------------------------------------------------------
(* The segment store.                                                       *)

Segment(h, dev, n) == [hash |-> h, dev |-> dev, n |-> n]
AllSegments(h, dev) == {Segment(h, dev, n) : n \in 0..(Segs[h] - 1)}

\* Without the digits of a hash, its ObjectDb has no path: substr throws.
CanOpen == "printed" \in port

\* DoesExist counts the committed segments; that none is missing it cannot see.
DoesExist(segments, h, dev) == "keys" \in port /\ \E s \in segments : s.hash = h /\ s.dev = dev

\* localFileToObjects.  Every segment is saved, the last one with what its
\* buffer holds behind the bytes read.  While another connection has written to
\* the database, the statements fail, which goes unnoticed.
LocalFileToObjects(h) ==
    IF \E s \in unsaved : s.hash = h THEN saved ELSE saved \cup AllSegments(h, Local)

\* objectsToLocalFile writes the segments up to the first that is missing, with
\* all the bytes that they were saved with.
ObjectsToLocalFile(segments, h, dev) ==
    IF ~(AllSegments(h, dev) \subseteq segments) THEN Torn
    ELSE IF "sized" \in port THEN h ELSE Padded

-----------------------------------------------------------------------------
(* The executor.                                                            *)

Job(what) == up /\ assembly = Idle /\ jobs # <<>> /\ Head(jobs).do = what

ActionsOn(f) == {a \in log : a.file = f}
NextVersion(f) ==
    IF ActionsOn(f) = {} THEN 0 ELSE Max({a.version : a \in ActionsOn(f)}) + 1

LocalAction(act, f, h) ==
    [dev |-> Local, seq |-> Cardinality({a \in log : a.dev = Local}) + 1, act |-> act,
     file |-> f, version |-> NextVersion(f), hash |-> h]

\* Mutant: the content is not compared with that of the row.
AcceptsAny(f) == Exists(files, f) => files[f].complete

\* The digest of a file's content, for which the model has the content itself.
FromFileContent(f) == disk[f]

\* Mutant: a content that the file has had before is not taken for an edit.
AcceptsUnseen(f) == (Exists(files, f) => files[f].complete) /\ \A a \in ActionsOn(f) : a.hash # FromFileContent(f)

\* Did_LocalFile_AddOrModify_Execute goes on: the content is new, and the file
\* not one that is still to be assembled.
Accepts(f) == files[f].hash # FromFileContent(f) /\ (Exists(files, f) => files[f].complete)

\* Did_LocalFile_AddOrModify_Execute.  The segments of a content that no other
\* device has published are left out, as nobody looks for them.
LocalFileModify ==
    /\ Job("modify")
    /\ jobs' = Tail(jobs)
    /\ LET f == Head(jobs).file
           a == LocalAction("update", f, disk[f])
       IN  IF disk[f] # NoHash /\ Accepts(f) /\ CanOpen
           THEN /\ saved' = IF disk[f] \in Hash THEN LocalFileToObjects(disk[f]) ELSE saved
                /\ log' = log \cup {a}
                /\ files' = SetFileComplete(InsertRow(UpdateRow(files, a), a), f)
                /\ stamp' = [stamp EXCEPT ![f] = <<a.dev, a.seq>>]
                /\ UNCHANGED up
           ELSE /\ up' = (disk[f] # NoHash /\ Accepts(f) => CanOpen)
                /\ UNCHANGED <<saved, log, files, stamp>>
    /\ UNCHANGED <<port, bound, disk, changed, assembly, fetches, m_objectDbMap, unsaved, changes, history>>

LatestIsUpdate(f) ==
    \E a \in ActionsOn(f) : a.act = "update" /\ \A b \in ActionsOn(f) : b.version <= a.version

\* Did_LocalFile_Delete_Execute.  The trigger calls
\* Did_ActionLog_ActionApply_Delete, which queues a job.
LocalFileDelete ==
    /\ Job("delete")
    /\ LET f == Head(jobs).file
       IN  IF disk[f] = NoHash /\ LatestIsUpdate(f)
           THEN /\ log' = log \cup {LocalAction("delete", f, NoHash)}
                /\ files' = DeleteFile(files, f)
                /\ jobs' = Append(Tail(jobs), Did("remove", f))
           ELSE jobs' = Tail(jobs) /\ UNCHANGED tables
    /\ UNCHANGED <<port, bound, up, disks, assembly, fetches, store, changes, history>>

\* Did_ActionLog_ActionApply_Delete_Execute removes the file, whatever is in it
\* by now, and the folders that this leaves empty.
ActionApplyDelete ==
    /\ Job("remove")
    /\ jobs' = Tail(jobs)
    /\ LET f == Head(jobs).file
       IN  /\ disk' = [disk EXCEPT ![f] = NoHash]
           /\ stamp' = [stamp EXCEPT ![f] = NoStamp]
           /\ changed' = IF disk[f] = NoHash THEN changed ELSE changed \cup {f}
    /\ UNCHANGED <<port, bound, up, tables, assembly, fetches, store, changes, history>>

\* Did_SyncLog_StateChange queues a job, ...
SyncLogStateChange(dev, seq) ==
    /\ up /\ changes < bound.changes
    /\ seq > reported[dev] /\ seq <= bound.seq[dev]
    /\ changes' = changes + 1
    /\ reported' = [reported EXCEPT ![dev] = seq]
    /\ jobs' = Append(jobs, [do |-> "state", dev |-> dev, old |-> reported[dev], new |-> seq])
    /\ UNCHANGED <<port, bound, up, disks, tables, assembly, wanted, logged, fetching, store, history>>

\* Mutant: the number after the old one is left out.
RangeShort(job) == {a \in Remote : a.dev = job.dev /\ a.seq \in (job.old + 2)..job.new}

\* ... which asks for the actions after the old number up to the new one.
RangeOf(job) == {a \in Remote : a.dev = job.dev /\ a.seq \in (job.old + 1)..job.new}

StateChangeExecute ==
    /\ Job("state")
    /\ jobs' = Tail(jobs)
    /\ wanted' = wanted \cup RangeOf(Head(jobs))
    /\ UNCHANGED <<port, bound, up, disks, tables, assembly, reported, logged, fetching, store, changes, history>>

\* Does the hash at the end of a name lead back to the content?
Extracted == "extracted" \in port

\* Mutant: a segment replaces the others of its content.
SaveOver(s) == {x \in unsaved : x.hash # s.hash} \cup {s}

\* saveContentObject.
Save(s) == unsaved \cup {s}

\* Did_FetchManager_FileSegmentFetch_Execute.
FileSegmentExecute ==
    /\ Job("segment")
    /\ jobs' = Tail(jobs)
    /\ LET s == Head(jobs).s
       IN  unsaved' = IF Extracted /\ s.hash \in m_objectDbMap THEN Save(s) ELSE unsaved
    /\ UNCHANGED <<port, bound, up, disks, tables, assembly, fetches, m_objectDbMap, saved, changes, history>>

\* The ObjectDb of a content is closed, which commits its segments.
Erase(h) ==
    /\ m_objectDbMap' = m_objectDbMap \ {h}
    /\ unsaved' = {s \in unsaved : s.hash # h}
    /\ saved' = saved \cup {s \in unsaved : s.hash = h}

\* Mutant: only files that have been assembled before are found.
FilesForHashComplete(h) == {f \in File : files[f].hash = h /\ files[f].complete}

\* LookupFilesForHash.
FilesForHash(h) == {f \in File : files[f].hash = h}

\* Segments of the content are still on their way.
UnderWay(h) ==
    \/ \E x \in fetching : x.hash = h
    \/ \E k \in DOMAIN jobs : jobs[k].do = "segment" /\ jobs[k].s.hash = h

\* Did_FetchManager_FileFetchComplete_Execute closes the ObjectDb, ...
FileFetchComplete ==
    /\ Job("complete")
    /\ jobs' = Tail(jobs)
    /\ LET h == Head(jobs).hash
       IN  IF Extracted
           THEN /\ Erase(h)
                /\ shared' = IF UnderWay(h) THEN shared \cup {h} ELSE shared
                /\ assembly' = [pc |-> "lookup", hash |-> h, dev |-> Head(jobs).dev]
           ELSE UNCHANGED <<store, shared, assembly>>
    /\ UNCHANGED <<port, bound, up, disks, tables, fetches, changes, wrote, stale, skipped>>

\* What is left of the loop when the files of todo are.
Loop(todo) ==
    IF todo = {} THEN Idle
    ELSE [pc |-> "next", hash |-> assembly.hash, dev |-> assembly.dev, todo |-> todo]

\* ... copies the rows of its content, while the threads of the fetches go on, ...
AssembleLookup ==
    /\ up /\ assembly.pc = "lookup"
    /\ assembly' = Loop({[file |-> f, shown |-> Shown(f)] : f \in FilesForHash(assembly.hash)})
    /\ UNCHANGED <<port, bound, up, disks, tables, jobs, fetches, store, changes, history>>

\* The file is on disk with the time and the mode of the copied row.
AlreadyThere(item) == FromFileContent(item.file) = assembly.hash /\ stamp[item.file] = item.shown

\* ... and goes through them.  A file that the user changes between the
\* comparison and the write is overwritten, as if it had been changed before.
AssembleNext(item) ==
    /\ up /\ assembly.pc = "next" /\ item \in assembly.todo
    /\ LET f == item.file
           rest == assembly.todo \ {item}
       IN  IF ~AlreadyThere(item) /\ DoesExist(saved, assembly.hash, assembly.dev)
           THEN /\ disk' = [disk EXCEPT ![f] = ObjectsToLocalFile(saved, assembly.hash, assembly.dev)]
                /\ stamp' = [stamp EXCEPT ![f] = NoStamp]
                /\ changed' = changed \cup {f}
                /\ assembly' = [pc |-> "stamp", hash |-> assembly.hash, dev |-> assembly.dev,
                                todo |-> rest, item |-> item]
                /\ UNCHANGED skipped
           ELSE /\ assembly' = Loop(rest)
                /\ skipped' = IF AlreadyThere(item) THEN skipped \cup {f} ELSE skipped
                /\ UNCHANGED disks
    /\ UNCHANGED <<port, bound, up, tables, jobs, fetches, store, changes, wrote, stale, shared>>

\* last_write_time and permissions; that the file is gone nobody catches.
AssembleStamp ==
    /\ up /\ assembly.pc = "stamp"
    /\ LET f == assembly.item.file
       IN  IF disk[f] = NoHash
           THEN up' = FALSE /\ UNCHANGED <<stamp, changed, assembly>>
           ELSE /\ stamp' = [stamp EXCEPT ![f] = assembly.item.shown]
                /\ changed' = changed \cup {f}
                /\ assembly' = [assembly EXCEPT !.pc = "mark"]
                /\ UNCHANGED up
    /\ UNCHANGED <<port, bound, disk, tables, jobs, fetches, store, changes, history>>

\* SetFileComplete by the name of the file, whatever its row shows by now.
AssembleMark ==
    /\ up /\ assembly.pc = "mark"
    /\ LET f == assembly.item.file
       IN  /\ files' = SetFileComplete(files, f)
           /\ stale' = IF files[f].hash # assembly.hash THEN stale \cup {f} ELSE stale
    /\ assembly' = Loop(assembly.todo)
    /\ UNCHANGED <<port, bound, up, disks, log, jobs, fetches, store, changes, wrote, shared, skipped>>

Assemble ==
    \/ AssembleLookup
    \/ assembly.pc = "next" /\ \E item \in assembly.todo : AssembleNext(item)
    \/ AssembleStamp
    \/ AssembleMark

Execute ==
    \/ LocalFileModify
    \/ LocalFileDelete
    \/ ActionApplyDelete
    \/ StateChangeExecute
    \/ FileSegmentExecute
    \/ FileFetchComplete
    \/ Assemble

-----------------------------------------------------------------------------
(* The threads of the two FetchManagers.                                    *)

\* Whether the trigger prefers a remote update to an action on the same file.
\* The name of a local deletion is compared in its wire form, which is less.
Beats(a, b) ==
    a.version > b.version \/ (a.version = b.version /\ (b.act = "delete" \/ a.dev > b.dev))

\* Did_FetchManager_ActionFetch: AddRemoteAction with its trigger, ...
ActionFetch(a) ==
    /\ up /\ logged = None /\ a \in wanted
    /\ wanted' = wanted \ {a}
    /\ log' = log \cup {a}
    /\ IF \A b \in ActionsOn(a.file) : Beats(a, b)
       THEN /\ files' = InsertRow(UpdateRow(files, a), a)
            /\ stale' = IF files[a.file].complete THEN stale \cup {a.file} ELSE stale
       ELSE UNCHANGED <<files, stale>>
    /\ logged' = a
    /\ UNCHANGED <<port, bound, up, disks, jobs, assembly, reported, fetching, store, changes, wrote, shared, skipped>>

\* ... and then the request for the file, unless it is in the store.
ActionFetchRequest ==
    /\ up /\ logged # None
    /\ logged' = None
    /\ LET h == logged.hash
           complete == [do |-> "complete", hash |-> h, dev |-> logged.dev]
       IN  /\ up' = CanOpen
           /\ IF DoesExist(saved, h, logged.dev)
              THEN jobs' = Append(jobs, complete) /\ UNCHANGED <<m_objectDbMap, fetching>>
              ELSE /\ m_objectDbMap' = IF CanOpen THEN m_objectDbMap \cup {h} ELSE m_objectDbMap
                   /\ fetching' = fetching \cup {[hash |-> h, dev |-> logged.dev,
                                                  lack |-> AllSegments(h, logged.dev)]}
                   /\ UNCHANGED jobs
    /\ UNCHANGED <<port, bound, disks, tables, assembly, reported, wanted, unsaved, saved, changes, history>>

\* Did_FetchManager_FileSegmentFetch, and with the last segment
\* Did_FetchManager_FileFetchComplete.
FileSegmentFetch(x, s) ==
    /\ up /\ s \in x.lack
    /\ LET left == [x EXCEPT !.lack = @ \ {s}]
           segment == [do |-> "segment", s |-> s]
           complete == [do |-> "complete", hash |-> x.hash, dev |-> x.dev]
       IN  IF left.lack = {}
           THEN /\ fetching' = fetching \ {x}
                /\ jobs' = jobs \o <<segment, complete>>
           ELSE /\ fetching' = (fetching \ {x}) \cup {left}
                /\ jobs' = Append(jobs, segment)
    /\ UNCHANGED <<port, bound, up, disks, tables, assembly, reported, wanted, logged, store, changes, history>>

Fetch ==
    \/ \E a \in wanted : ActionFetch(a)
    \/ ActionFetchRequest
    \/ \E x \in fetching : \E s \in x.lack : FileSegmentFetch(x, s)

Next ==
    \/ \E f \in File, h \in Hash \cup {NoHash} : \E t \in Stamps(f, h) : UserEdit(f, h, t)
    \/ \E f \in File : UserTouch(f)
    \/ \E f \in File : Report(f)
    \/ \E dev \in Device \ {Local} : \E a \in Remote : a.dev = dev /\ SyncLogStateChange(dev, a.seq)
    \/ Execute
    \/ Fetch

Spec == Init /\ [][Next]_vars

\* The watcher reports what has changed, the executor runs its queue, and what
\* is requested arrives.
FairSpec ==
    /\ Spec
    /\ \A f \in File : WF_vars(Report(f))
    /\ WF_vars(Execute)
    /\ WF_vars(Fetch)

-----------------------------------------------------------------------------
Jobs ==
    [do : {"modify", "delete", "remove"}, file : File]
    \cup [do : {"state"}, dev : Device, old : Nat, new : Nat]
    \cup [do : {"segment"}, s : [hash : Hash, dev : Device, n : Nat]]
    \cup [do : {"complete"}, hash : Hash, dev : Device]

\* The rows that were copied, and where the loop over them stands.
Items == [file : File, shown : (Device \cup {0}) \X Nat]
Assemblies ==
    {Idle}
    \cup [pc : {"lookup"}, hash : Hash, dev : Device]
    \cup [pc : {"next"}, hash : Hash, dev : Device, todo : SUBSET Items]
    \cup [pc : {"stamp", "mark"}, hash : Hash, dev : Device, todo : SUBSET Items, item : Items]

TypeOK ==
    /\ <<port, bound>> \in Worlds /\ up \in BOOLEAN
    /\ disk \in [File -> Content \cup {NoHash}] /\ changed \subseteq File
    /\ stamp \in [File -> (Device \cup {0}) \X Nat]
    /\ \A a \in log : a.dev \in Device /\ a.file \in File /\ a.version \in Nat
    /\ \A f \in File : files[f].hash \in Content \cup {NoHash}
    /\ \A k \in DOMAIN jobs : jobs[k] \in Jobs
    /\ assembly \in Assemblies
    /\ wanted \subseteq Remote /\ logged \in Remote \cup {None}
    /\ m_objectDbMap \subseteq Hash
    /\ \A s \in unsaved : s.hash \in m_objectDbMap
    /\ changes \in 0..bound.changes
    /\ stale \subseteq File /\ skipped \subseteq File /\ shared \subseteq Hash

\* What the dispatcher itself writes into the folder, and what it has not yet
\* written, is never taken for an edit of the user and published as one,
\* although the watcher reports it like any other change.  The exceptions are a
\* file whose row is complete for another action than the one it shows, as it
\* was when a remote update came or was marked after one had come: the old
\* content is published again, over the update; a file that was assembled from
\* a part of its segments; and, while segments are saved with too many bytes,
\* what is assembled of them.
NoEcho ==
    \A a \in log :
        a.dev = Local /\ a.act = "update" =>
            \/ <<a.file, a.hash>> \in wrote
            \/ a.file \in stale
            \/ a.hash = Torn /\ shared # {}
            \/ a.hash = Padded /\ "sized" \notin port

\* A file of which segments are missing is never assembled, although DoesExist
\* does not count them, unless the ObjectDb was closed while another device's
\* copy of the same content was being fetched.
AssembledIsWhole ==
    \A f \in File : /\ disk[f] = Torn => shared # {}
                    /\ disk[f] = Padded => "sized" \notin port

\* The folder and the log are consistent: what is written is whole and what is
\* published as an edit of this device was written by its user
\* (Did_LocalFile_AddOrModify_Execute, Did_FetchManager_FileFetchComplete_Execute).
FolderSound == TypeOK /\ NoEcho /\ AssembledIsWhole

\* A content on disk comes to be logged and shown: whatever the user and the
\* fetches do at the same time, an edit is published, unless it is overwritten or
\* removed first, or the row is of a remote update that has not been assembled.
\* The row of an edit that was logged may be changed by a remote update later.
EditIsLogged ==
    \A f \in File : \A h \in Hash :
        (up /\ disk[f] = h)
            ~> \/ ~up
               \/ disk[f] # h
               \/ files[f].hash = h
               \/ f \in stale /\ \E a \in ActionsOn(f) : a.hash = h
               \/ Exists(files, f) /\ ~files[f].complete

\* Every action up to a number that SyncCore has reported comes to be logged,
\* although report, request and answer are steps of three threads.
ReportedIsLogged ==
    \A a \in Remote : (up /\ reported[a.dev] >= a.seq) ~> (~up \/ a \in log)

\* With all conversions in place a remote update that FileState shows is
\* assembled, or overruled.  The exceptions are a file that was found on disk,
\* whose row is then not marked, an ObjectDb that was closed too early, and the
\* end of the process when a file is removed while it is assembled.
ShownIsAssembled ==
    \A f \in File :
        (port = Conversions /\ Exists(files, f) /\ ~files[f].complete)
            ~> (files[f].complete \/ ~Exists(files, f) \/ f \in skipped \/ shared # {} \/ ~up)

=============================================================================
