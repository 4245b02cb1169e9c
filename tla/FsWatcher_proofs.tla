-------------------------- MODULE FsWatcher_proofs --------------------------
(***************************************************************************)
(* The safety property of FsWatcher, for any folder of files and           *)
(* directories and any number of stops.                                    *)
(***************************************************************************)
EXTENDS FsWatcher, FiniteSetTheorems, TLAPS

-----------------------------------------------------------------------------
(* The inductive invariant.                                                 *)

\* What TypeOK leaves open: running is a record, and a process that is down has no
\* scan under way.
RunningType ==
    /\ running \in [task : TaskType \cup {Idle.task}, todo : SUBSET (File \cup SubDir)]
    /\ ~up => running = Idle /\ calls = NoCalls

\* The table holds no excluded file, and none comes to be scanned.
NoneExcluded ==
    /\ rows \subseteq File \ Excluded
    /\ running.todo \subseteq SubDir \cup (File \ Excluded)
    /\ calls["scheduler"].path \notin Excluded

\* A file is in a folder that exists.
InFolder == \A f \in File : disk[f] # 0 => Exists(DirOf[f])

\* A thread has the file in hand, and watches it again or removes its row.
InHand(f) == \E th \in Thread : calls[th].path = f /\ calls[th].pc # "look"

\* What KnownIsWatched asks for one file.
Covered(f) == f \in watched \cup signals \cup unseen \/ InHand(f) \/ ToBeScanned(f)

RowsCovered == \A f \in rows : up /\ disk[f] # 0 => Covered(f)

IInv == TypeOK /\ RunningType /\ NoneExcluded /\ InFolder /\ RowsCovered

\* The fields of running.
LEMMA RunningFields ==
  ASSUME RunningType
  PROVE  /\ running.task \in TaskType \cup {Idle.task}
         /\ running.todo \subseteq File \cup SubDir
         /\ DOMAIN running = {"task", "todo"}
         /\ running = [task |-> running.task, todo |-> running.todo]
  BY DEF RunningType

\* No task of the scheduler is the one that stands for none.
LEMMA IdleNoTask == Idle.task \notin TaskType
  BY DEF Idle, Task, TaskType

\* What a thread may have in hand.
LEMMA CallFields ==
  ASSUME Layout
  PROVE  /\ NoCall \in CallType /\ NoCall.path = Root /\ NoCall.pc = "none"
         /\ NoCalls \in [Thread -> CallType]
         /\ \A th \in Thread : NoCalls[th] = NoCall
         /\ \A p \in File \cup SubDir : /\ Call("watch", p) \in CallType
                                     /\ Call("watch", p).path = p
                                     /\ Call("watch", p).pc = "watch"
         /\ \A f \in File :
               \A pc \in {"look", "exists", "keep", "drop", "change", "delete"} :
                  Call(pc, f) \in CallType /\ Call(pc, f).path = f /\ Call(pc, f).pc = pc
         /\ \A c \in CallType :
               /\ c.pc \in {"look", "exists", "keep", "drop", "change", "delete"} => c.path \in File
               /\ c.pc = "watch" => c.path \in File \cup SubDir
               /\ \A pc : [c EXCEPT !.pc = pc] = Call(pc, c.path)
  BY DEF NoCall, NoCalls, Call, CallType, Layout

\* A thread goes on with one path; the other thread is where it was.
LEMMA ThreadGoes ==
  ASSUME Layout, TypeOK, NEW th \in Thread, NEW c \in CallType, calls' = [calls EXCEPT ![th] = c]
  PROVE  /\ calls' \in [Thread -> CallType] /\ calls'[th] = c
         /\ \A u \in Thread \ {th} : calls'[u] = calls[u]
  BY DEF TypeOK

\* The same for Goes and Ends.
LEMMA ThreadMoves ==
  ASSUME Layout, TypeOK, NEW th \in Thread
  PROVE  /\ calls[th] \in CallType
         /\ Ends(th) => /\ calls' \in [Thread -> CallType] /\ calls'[th] = NoCall
                        /\ \A u \in Thread \ {th} : calls'[u] = calls[u]
         /\ \A pc \in {"look", "exists", "keep", "drop", "change", "delete"} :
               Goes(th, pc) /\ calls[th].path \in File =>
                  /\ calls' \in [Thread -> CallType]
                  /\ calls'[th].path = calls[th].path /\ calls'[th].pc = pc
                  /\ \A u \in Thread \ {th} : calls'[u] = calls[u]
  <1>1. calls[th] \in CallType
    BY DEF TypeOK
  <1>2. ASSUME Ends(th)
        PROVE  /\ calls' \in [Thread -> CallType] /\ calls'[th] = NoCall
               /\ \A u \in Thread \ {th} : calls'[u] = calls[u]
    BY <1>2, CallFields, ThreadGoes DEF Ends
  <1>3. ASSUME NEW pc \in {"look", "exists", "keep", "drop", "change", "delete"},
               Goes(th, pc), calls[th].path \in File
        PROVE  /\ calls' \in [Thread -> CallType]
               /\ calls'[th].path = calls[th].path /\ calls'[th].pc = pc
               /\ \A u \in Thread \ {th} : calls'[u] = calls[u]
    <2> DEFINE c == Call(pc, calls[th].path)
    <2>1. c \in CallType /\ c.path = calls[th].path /\ c.pc = pc
      BY <1>3, CallFields
    <2>2. calls' = [calls EXCEPT ![th] = c]
      <3>1. [calls[th] EXCEPT !.pc = pc] = c
        BY <1>1, CallFields
      <3>2. calls' = [calls EXCEPT ![th] = [calls[th] EXCEPT !.pc = pc]]
        BY <1>3 DEF Goes
      <3> QED
        BY <3>1, <3>2, Zenon
    <2> HIDE DEF c
    <2> QED
      BY <2>1, <2>2, ThreadGoes
  <1> QED
    BY <1>1, <1>2, <1>3

\* What a task visits.
LEMMA TodoType ==
  ASSUME Layout, NoneExcluded, TypeOK, NEW t \in TaskType
  PROVE  TodoOf(t) \subseteq SubDir \cup (File \ Excluded)
  <1>1. IsScan(t) => Below(t.path) \subseteq SubDir \cup (File \ Excluded)
    BY DEF Below, FilesIn
  <1>2. FilesInDir(t.path) \subseteq rows /\ rows \subseteq File \ Excluded
    BY DEF FilesInDir, NoneExcluded
  <1> QED
    BY <1>1, <1>2 DEF TodoOf

\* The tasks that are scheduled are tasks.
LEMMA ScheduledType ==
  ASSUME Layout
  PROVE  /\ StartTasks \subseteq TaskType
         /\ \A d \in Dir : ScansOf(d) \subseteq TaskType
         /\ \A f \in File : {Task("change", f), Task("delete", f)} \subseteq TaskType
  BY DEF Layout, StartTasks, ScansOf, Task, TaskType, Dir

\* The inductive invariant holds at the start: the table is empty.
LEMMA InitIInv == Layout /\ Init => IInv
  <1> SUFFICES ASSUME Layout, Init PROVE IInv
    OBVIOUS
  <1>1. Exists(Root) /\ Root \in Dir
    BY DEF Layout, Exists, Dir
  <1>2. TypeOK
    <2>1. calls \in [Thread -> CallType]
      BY CallFields DEF Init
    <2> QED
      BY <1>1, <2>1, ScheduledType DEF Init, TypeOK, Layout, NoFiles, Idle
  <1>3. RunningType
    BY DEF Init, RunningType, Idle
  <1>4. calls["scheduler"].path = Root
    BY CallFields DEF Init, Thread
  <1>5. NoneExcluded
    BY <1>4 DEF Init, NoneExcluded, NoFiles, Idle, Layout, Dir
  <1> QED
    BY <1>2, <1>3, <1>5 DEF Init, IInv, InFolder, RowsCovered, NoFiles

\* The user changes the disk only; what he removes takes its watch along.
LEMMA UserType ==
  ASSUME Layout, IInv, User
  PROVE  TypeOK' /\ RunningType' /\ NoneExcluded' /\ InFolder'
  <1> USE DEF IInv
  <1>1. ASSUME NEW f \in File, Write(f) PROVE TypeOK' /\ InFolder'
    <2>1. TypeOK'
      BY <1>1 DEF TypeOK, Write, Exists, Signalled, UntracedWrite, Layout, Dir, Idle
    <2>2. InFolder'
      BY <1>1 DEF InFolder, Write, Exists, Layout
    <2> QED
      BY <2>1, <2>2
  <1>2. ASSUME NEW f \in File, Remove(f) PROVE TypeOK' /\ InFolder'
    <2>1. TypeOK'
      BY <1>2 DEF TypeOK, Remove, Exists, Signalled, UntracedRemoval, Layout, Dir, Idle
    <2>2. InFolder'
      BY <1>2 DEF InFolder, Remove, Exists, Layout, TypeOK
    <2> QED
      BY <2>1, <2>2
  <1>3. ASSUME NEW d \in SubDir, MakeDir(d) PROVE TypeOK' /\ InFolder'
    <2>1. TypeOK'
      BY <1>3 DEF TypeOK, MakeDir, Exists, Signalled, Layout, Dir, Idle
    <2>2. InFolder'
      BY <1>3 DEF InFolder, MakeDir, Exists, Layout
    <2> QED
      BY <2>1, <2>2
  <1>4. ASSUME NEW d \in SubDir, RemoveDir(d) PROVE TypeOK' /\ InFolder'
    <2>1. TypeOK'
      BY <1>4 DEF TypeOK, RemoveDir, Exists, Signalled, UntracedRemoval, FilesIn, Layout, Dir, Idle
    <2>2. InFolder'
      BY <1>4 DEF InFolder, RemoveDir, Exists, FilesIn, Layout, TypeOK
    <2> QED
      BY <2>1, <2>2
  <1>5. UNCHANGED <<up, rows, running, calls, tasks>>
    BY DEF User, Write, Remove, MakeDir, RemoveDir
  <1>6. RunningType' /\ NoneExcluded'
    BY <1>5 DEF RunningType, NoneExcluded
  <1> QED
    BY <1>1, <1>2, <1>3, <1>4, <1>6 DEF User

\* DidFileChanged in a thread: the file is watched again or its row is removed, and
\* until then the thread has it in hand.
LEMMA FileChangedFacts ==
  ASSUME Layout, IInv, NEW th \in Thread, FileChanged(th)
  PROVE  LET g == calls[th].path
         IN  /\ g \in File /\ up /\ UNCHANGED <<up, folder, signals, running, told, edits, stops>>
             /\ calls' \in [Thread -> CallType] /\ calls'[th].path \in {g, Root}
             /\ \A u \in Thread \ {th} : calls'[u] = calls[u]
             /\ watched' \subseteq {p \in File \cup Dir : Exists(p)}'
             /\ rows' \subseteq rows /\ tasks' \subseteq TaskType /\ tasks \subseteq tasks'
             /\ unseen' \subseteq File
             /\ watched \ {g} \subseteq watched' /\ unseen \subseteq unseen'
             /\ g \in rows' /\ disk[g] # 0 =>
                   g \in watched' \/ (calls'[th].path = g /\ calls'[th].pc # "look")
  <1> DEFINE g == calls[th].path
  <1>1. ASSUME NEW do \in {"change", "delete"}, calls[th].pc = do, Schedule(th)
        PROVE  /\ g \in File
               /\ calls' \in [Thread -> CallType] /\ calls'[th].path = Root
               /\ \A u \in Thread \ {th} : calls'[u] = calls[u]
               /\ tasks' \subseteq TaskType /\ tasks \subseteq tasks'
               /\ unseen' \subseteq File /\ unseen \subseteq unseen'
    <2>1. g \in File
      BY <1>1, CallFields, ThreadMoves DEF IInv
    <2>2. /\ calls' \in [Thread -> CallType] /\ calls'[th].path = Root
          /\ \A u \in Thread \ {th} : calls'[u] = calls[u]
      BY <1>1, CallFields, ThreadMoves DEF IInv, Schedule
    <2>3. Task(do, g) \in TaskType /\ Task(do, g).path = g
      BY <2>1 DEF Task, TaskType
    <2>4. tasks' \subseteq TaskType /\ tasks \subseteq tasks'
      BY <1>1, <2>3 DEF Schedule, Scheduled, IInv, TypeOK
    <2>5. unseen' \subseteq File /\ unseen \subseteq unseen'
      BY <1>1, <2>1, <2>3 DEF Schedule, Dropped, IInv, TypeOK
    <2> QED
      BY <2>1, <2>2, <2>4, <2>5
  <1>2. CASE RemovePath(th)
    <2>1. g \in File
      BY <1>2, CallFields, ThreadMoves DEF IInv, RemovePath, At
    <2>2. /\ calls' \in [Thread -> CallType] /\ calls'[th].path = g /\ calls'[th].pc # "look"
          /\ \A u \in Thread \ {th} : calls'[u] = calls[u]
      <3>1. PICK pc \in {"change", "delete"} : Goes(th, pc)
        BY <1>2 DEF RemovePath
      <3> QED
        BY <2>1, <3>1, ThreadMoves DEF IInv
    <2> QED
      BY <1>2, <2>1, <2>2 DEF RemovePath, At, folder, IInv, TypeOK, Exists
  <1>3. CASE FileUpdated(th)
    <2>1. calls[th].pc = "change" /\ Schedule(th) /\ up
      BY <1>3 DEF FileUpdated, At
    <2>2. watched' = watched \cup {p \in {g} : Exists(p)}
      BY <1>3 DEF FileUpdated
    <2>3. /\ UNCHANGED <<up, folder, signals, rows, running, told, edits, stops>>
      BY <1>3 DEF FileUpdated
    <2>4. g \in File
      BY <1>1, <2>1
    <2>5. /\ watched' \subseteq {p \in File \cup Dir : Exists(p)}'
          /\ disk[g] # 0 => g \in watched'
      BY <2>2, <2>3, <2>4 DEF IInv, TypeOK, folder, Exists
    <2> QED
      BY <1>1, <2>1, <2>2, <2>3, <2>4, <2>5
  <1>4. CASE FileDeleted(th)
    <2>1. calls[th].pc = "delete" /\ Schedule(th) /\ up
      BY <1>4 DEF FileDeleted, At
    <2>2. rows' = rows \ {g} /\ UNCHANGED <<up, folder, watched, signals, running, told, edits, stops>>
      BY <1>4 DEF FileDeleted, DeleteFile
    <2>3. watched' \subseteq {p \in File \cup Dir : Exists(p)}'
      BY <2>2 DEF IInv, TypeOK, folder, Exists
    <2> QED
      BY <1>1, <2>1, <2>2, <2>3
  <1> QED
    BY <1>2, <1>3, <1>4 DEF FileChanged

\* The file that DidFileChanged has found or not found.
LEMMA FoundFields ==
  ASSUME Layout, NEW f \in File
  PROVE  Found(f) \in CallType /\ Found(f).path = f /\ Found(f).pc \in {"keep", "drop"}
  BY CallFields DEF Found

\* So does every step of the two threads, ...
LEMMA StepType ==
  ASSUME Layout, IInv, Step
  PROVE  TypeOK' /\ RunningType' /\ NoneExcluded'
  <1> USE DEF IInv
  <1>0. running.todo \subseteq File \cup SubDir
    BY RunningFields
  <1>1. ASSUME NEW f \in File, DidFileChanged(f) PROVE TypeOK' /\ RunningType' /\ NoneExcluded'
    <2>1. /\ signals' = signals \ {f} /\ up /\ UNCHANGED <<up, folder, watched, rows, tasks, running,
                                                   told, edits, stops, unseen>>
          /\ calls' = [calls EXCEPT !["qt"] = Found(f)]
      BY <1>1 DEF DidFileChanged
    <2>2. calls' \in [Thread -> CallType] /\ calls'["scheduler"] = calls["scheduler"]
      BY <2>1, FoundFields, ThreadGoes DEF Thread
    <2>3. TypeOK'
      BY <2>1, <2>2 DEF TypeOK, folder, Exists
    <2>4. RunningType' /\ NoneExcluded'
      BY <2>1, <2>2 DEF RunningType, NoneExcluded
    <2> QED
      BY <2>3, <2>4
  <1>2. ASSUME NEW d \in Dir, DidDirectoryChanged(d) PROVE TypeOK' /\ RunningType' /\ NoneExcluded'
    BY <1>2, ScheduledType
    DEF TypeOK, RunningType, NoneExcluded, DidDirectoryChanged, Scheduled, folder, Exists, Idle
  <1>3. ASSUME NEW t \in tasks, Begin(t) PROVE TypeOK' /\ RunningType' /\ NoneExcluded'
    <2>1. t \in TaskType /\ TodoOf(t) \subseteq SubDir \cup (File \ Excluded)
      BY TodoType DEF TypeOK
    <2>2. told' \in [File -> 0..MaxEdit]
      BY <1>3 DEF Begin, Callback, TypeOK
    <2>3. running' = [task |-> t, todo |-> TodoOf(t)]
      BY <1>3 DEF Begin
    <2>4. running'.task = t /\ running'.todo = TodoOf(t)
      BY <2>3
    <2>5. TypeOK'
      BY <1>3, <2>1, <2>2, <2>4 DEF Begin, TypeOK, folder, Exists
    <2>6. RunningType' /\ NoneExcluded'
      BY <1>3, <2>1, <2>3, <2>4 DEF Begin, RunningType, NoneExcluded
    <2> QED
      BY <2>5, <2>6
  <1>4. ASSUME NEW p \in running.todo, ScanVisit(p) PROVE TypeOK' /\ RunningType' /\ NoneExcluded'
    <2> DEFINE c == IF Exists(p) THEN Call("watch", p) ELSE NoCall
    <2>1. c \in CallType /\ c.path \in {p, Root}
      BY <1>0, CallFields
    <2>2. calls' = [calls EXCEPT !["scheduler"] = c]
      BY <1>4 DEF ScanVisit
    <2> HIDE DEF c
    <2>3. calls' \in [Thread -> CallType] /\ calls'["scheduler"].path \in {p, Root}
      BY <2>1, <2>2, ThreadGoes DEF Thread
    <2>4. running.task \in tasks /\ up
      BY <1>4 DEF ScanVisit, Visits, TypeOK, Idle, Task
    <2>5. /\ running'.task = running.task /\ running'.todo = running.todo \ {p}
          /\ running' = [task |-> running.task, todo |-> running.todo \ {p}]
      BY <1>4, RunningFields DEF ScanVisit, Visits
    <2>6. TypeOK'
      BY <1>0, <1>4, <2>3, <2>4, <2>5 DEF ScanVisit, TypeOK, folder, Exists
    <2>7. RunningType' /\ NoneExcluded'
      BY <1>4, <2>3, <2>4, <2>5, RunningFields DEF ScanVisit, RunningType, NoneExcluded, Layout, Dir
    <2> QED
      BY <2>6, <2>7
  <1>5. ASSUME NEW p \in running.todo, RemovalVisit(p) PROVE TypeOK' /\ RunningType' /\ NoneExcluded'
    <2>1. /\ running'.task = running.task /\ running'.todo = running.todo \ {p}
          /\ running' = [task |-> running.task, todo |-> running.todo \ {p}]
      BY <1>5, RunningFields DEF RemovalVisit, Visits
    <2>2. running.task \in tasks
      BY <1>5 DEF RemovalVisit, Visits, TypeOK, Idle, Task
    <2>3. rows' \subseteq rows /\ told' \in [File -> 0..MaxEdit]
      BY <1>5 DEF RemovalVisit, DeleteFile, TypeOK
    <2>4. TypeOK'
      BY <1>5, <2>1, <2>2, <2>3 DEF RemovalVisit, TypeOK, folder, Exists
    <2>5. RunningType' /\ NoneExcluded'
      BY <1>5, <2>1, <2>3, RunningFields DEF RemovalVisit, Visits, RunningType, NoneExcluded
    <2> QED
      BY <2>4, <2>5
  <1>6. CASE ScanWatch
    <2>1. /\ calls["scheduler"].pc = "watch" /\ up
          /\ watched' = watched \cup {q \in {calls["scheduler"].path} : Exists(q)}
          /\ UNCHANGED <<up, folder, signals, rows, tasks, running, told, edits, stops, unseen>>
          /\ \/ calls["scheduler"].path \in File /\ Goes("scheduler", "look")
             \/ Ends("scheduler")
      BY <1>6 DEF ScanWatch, At
    <2>2. calls["scheduler"].path \in File \cup SubDir
      BY <2>1, CallFields DEF TypeOK, Thread
    <2>3. calls' \in [Thread -> CallType] /\ calls'["scheduler"].path \in {calls["scheduler"].path, Root}
      BY <2>1, ThreadMoves, CallFields DEF Thread
    <2>4. TypeOK'
      BY <2>1, <2>2, <2>3 DEF TypeOK, folder, Exists, Dir
    <2>5. RunningType' /\ NoneExcluded'
      BY <2>1, <2>3 DEF RunningType, NoneExcluded, Layout, Dir
    <2> QED
      BY <2>4, <2>5
  <1>9. CASE ScanLook
    <2>1. /\ calls["scheduler"].pc = "look" /\ up
          /\ UNCHANGED <<up, folder, watched, signals, tasks, running, told, edits, stops, unseen>>
          /\ \/ rows' = rows \cup {calls["scheduler"].path} /\ Goes("scheduler", "exists")
             \/ rows' = rows /\ Ends("scheduler")
      BY <1>9 DEF ScanLook, At, AddFile
    <2>2. calls["scheduler"].path \in File \ Excluded
      BY <2>1, CallFields DEF TypeOK, NoneExcluded, Thread
    <2>3. calls' \in [Thread -> CallType] /\ calls'["scheduler"].path \in {calls["scheduler"].path, Root}
      BY <2>1, <2>2, ThreadMoves, CallFields DEF Thread
    <2>4. TypeOK'
      BY <2>1, <2>2, <2>3 DEF TypeOK, folder, Exists
    <2>5. RunningType' /\ NoneExcluded'
      BY <2>1, <2>2, <2>3 DEF RunningType, NoneExcluded, Layout, Dir
    <2> QED
      BY <2>4, <2>5
  <1>10. CASE ScanNotify
    <2>1. /\ calls["scheduler"].pc = "exists" /\ up
          /\ UNCHANGED <<up, folder, watched, signals, rows, tasks, running, told, edits, stops, unseen>>
          /\ calls' = [calls EXCEPT !["scheduler"] = Found(calls["scheduler"].path)]
      BY <1>10 DEF ScanNotify, At
    <2>2. calls["scheduler"].path \in File
      BY <2>1, CallFields DEF TypeOK, Thread
    <2>3. calls' \in [Thread -> CallType] /\ calls'["scheduler"].path = calls["scheduler"].path
      BY <2>1, <2>2, FoundFields, ThreadGoes DEF Thread
    <2>4. TypeOK'
      BY <2>1, <2>3 DEF TypeOK, folder, Exists
    <2>5. RunningType' /\ NoneExcluded'
      BY <2>1, <2>3 DEF RunningType, NoneExcluded
    <2> QED
      BY <2>4, <2>5
  <1>11. ASSUME NEW th \in Thread, FileChanged(th) PROVE TypeOK' /\ RunningType' /\ NoneExcluded'
    <2>1. TypeOK'
      <3>1. /\ up' = up /\ disk' = disk /\ dirs' = dirs /\ signals' = signals
            /\ running' = running /\ told' = told /\ edits' = edits /\ stops' = stops
            /\ calls' \in [Thread -> CallType]
            /\ watched' \subseteq {p \in File \cup Dir : Exists(p)}'
            /\ rows' \subseteq rows /\ tasks' \subseteq TaskType /\ tasks \subseteq tasks'
            /\ unseen' \subseteq File
        BY <1>11, FileChangedFacts DEF folder
      <3> QED
        BY <3>1 DEF TypeOK
    <2>2. calls'["scheduler"].path \in {calls["scheduler"].path, Root}
      BY <1>11, FileChangedFacts DEF Thread
    <2>3. RunningType' /\ NoneExcluded'
      BY <1>11, <2>2, FileChangedFacts DEF RunningType, NoneExcluded, Layout, Dir
    <2> QED
      BY <2>1, <2>3
  <1>7. CASE Return
    BY <1>7 DEF Return, TypeOK, RunningType, NoneExcluded, folder, Exists, Idle
  <1>8. CASE Start
    BY <1>8, ScheduledType DEF Start, TypeOK, RunningType, NoneExcluded, folder, Exists, Dir, Layout
  <1> QED
    BY <1>1, <1>2, <1>3, <1>4, <1>5, <1>6, <1>7, <1>8, <1>9, <1>10, <1>11 DEF Step, Run

\* ... and the end of the process.
LEMMA StopType ==
  ASSUME Layout, IInv, Stop
  PROVE  TypeOK' /\ RunningType' /\ NoneExcluded'
  <1>1. /\ running' = Idle /\ running'.todo = {} /\ calls' = NoCalls
        /\ watched' = {} /\ tasks' = {}
        /\ signals' = {} /\ UNCHANGED <<folder, rows, told, edits>> /\ stops' \in 0..MaxStop
    BY DEF Stop, Idle, IInv, TypeOK, Layout
  <1>2. unseen' \subseteq File
    BY DEF Stop, IInv, TypeOK
  <1>3. TypeOK'
    BY <1>1, <1>2, CallFields DEF Stop, IInv, TypeOK, folder
  <1> QED
    BY <1>1, <1>3, CallFields DEF IInv, RunningType, NoneExcluded, Idle, Layout, Dir, Thread

\* The disk is the user's.
LEMMA InFolderNext ==
  ASSUME Layout, IInv, [Next]_vars
  PROVE  InFolder'
  <1>1. User => InFolder'
    BY UserType
  <1>2. UNCHANGED folder => InFolder'
    BY DEF IInv, InFolder, folder, Exists
  <1>3. Step \/ Stop \/ UNCHANGED vars => UNCHANGED folder
    BY DEF Step, Stop, vars, DidFileChanged, DidDirectoryChanged, Begin, Run, Return, Start,
           ScanVisit, ScanWatch, ScanLook, RemovalVisit, ScanNotify, FileChanged,
           RemovePath, FileUpdated, FileDeleted
  <1> QED
    BY <1>1, <1>2, <1>3 DEF Next

\* A change by the user takes no cover away that it does not make up for.
LEMMA UserCovered ==
  ASSUME Layout, IInv, User
  PROVE  RowsCovered'
  <1> USE DEF IInv
  <1>0. UNCHANGED <<up, rows, running, calls, tasks>>
    BY DEF User, Write, Remove, MakeDir, RemoveDir
  <1>1. up => signals \subseteq signals'
    BY DEF User, Write, Remove, MakeDir, RemoveDir, Signalled
  <1>2. \A f \in File : up /\ ToBeScanned(f) => ToBeScanned(f)'
    BY <1>0, <1>1 DEF ToBeScanned, IsScan, Below, FilesIn
  <1>3. unseen \subseteq unseen'
    BY DEF User, Write, Remove, MakeDir, RemoveDir
  <1>4. SUFFICES ASSUME NEW f \in rows', up', disk'[f] # 0
                 PROVE  Covered(f)'
    BY DEF RowsCovered
  <1>5. f \in rows /\ f \in File /\ up
    BY <1>0, <1>4 DEF TypeOK
  <1>6. CASE disk[f] = disk'[f]
    <2>1. f \in watched => f \in watched'
      <3>1. \A g \in File : Write(g) \/ Remove(g) => (f \in watched => f \in watched')
        BY <1>4, <1>5, <1>6 DEF Write, Remove, TypeOK
      <3>2. \A d \in SubDir : MakeDir(d) \/ RemoveDir(d) => (f \in watched => f \in watched')
        BY <1>4, <1>5, <1>6 DEF MakeDir, RemoveDir, FilesIn, TypeOK, Layout, Dir
      <3> QED
        BY <3>1, <3>2 DEF User
    <2>2. Covered(f)
      BY <1>4, <1>5, <1>6 DEF RowsCovered
    <2> QED
      BY <1>0, <1>1, <1>2, <1>3, <1>5, <2>1, <2>2 DEF Covered, InHand
  <1>7. CASE disk[f] # disk'[f]
    <2>1. Write(f)
      BY <1>4, <1>5, <1>7 DEF User, Write, Remove, MakeDir, RemoveDir, TypeOK
    <2>2. f \in watched' \/ f \in unseen' \/ f \in signals \/ InHand(f)
      <3>1. Looked(f) => f \in signals \/ InHand(f)
        BY <1>5, CallFields DEF Looked, InHand, Thread
      <3>2. Telling(f) => InHand(f)
        BY DEF Telling, InHand
      <3> QED
        BY <1>5, <2>1, <3>1, <3>2 DEF Write, UntracedWrite
    <2> QED
      BY <1>0, <1>1, <1>5, <2>2 DEF Covered, InHand
  <1> QED
    BY <1>6, <1>7

\* A step that leaves the folder, the signals and the scans alone takes no cover away
\* but for the file in hand.
LEMMA OthersCovered ==
  ASSUME IInv, UNCHANGED <<up, folder, signals, running>>, NEW th \in Thread,
         \A u \in Thread \ {th} : calls'[u] = calls[u],
         watched \ {calls[th].path} \subseteq watched', unseen \subseteq unseen',
         tasks \subseteq tasks', NEW f \in rows, f # calls[th].path, up, disk[f] # 0
  PROVE  Covered(f)'
  <1>1. Covered(f)
    BY DEF IInv, RowsCovered
  <1>2. ToBeScanned(f) => ToBeScanned(f)'
    BY DEF ToBeScanned, IsScan, Below, FilesIn
  <1>3. InHand(f) => InHand(f)'
    BY DEF InHand
  <1> QED
    BY <1>1, <1>2, <1>3 DEF Covered

\* DidFileChanged takes no cover away that it does not make up for.
LEMMA FileChangedCovered ==
  ASSUME Layout, IInv, NEW th \in Thread, FileChanged(th)
  PROVE  RowsCovered'
  <1>1. SUFFICES ASSUME NEW f \in rows', up', disk'[f] # 0
                 PROVE  Covered(f)'
    BY DEF RowsCovered
  <1>2. f \in rows /\ up /\ disk[f] # 0 /\ UNCHANGED <<up, folder, signals, running>>
    BY <1>1, FileChangedFacts DEF folder
  <1>3. CASE f = calls[th].path
    BY <1>1, <1>2, <1>3, FileChangedFacts DEF Covered, InHand
  <1>4. CASE f # calls[th].path
    BY <1>2, <1>4, FileChangedFacts, OthersCovered
  <1> QED
    BY <1>3, <1>4

\* Every step of the two threads that takes a cover away puts another in its
\* place: a signal of a folder becomes two scans of it, at most one of which is
\* the task that runs, a scan that begins has the file before it, and one that
\* meets the file watches it.
LEMMA StepCovered ==
  ASSUME Layout, IInv, Step
  PROVE  RowsCovered'
  <1> USE DEF IInv
  <1>0. running.todo \subseteq File \cup SubDir
    BY RunningFields
  <1>1. ASSUME NEW g \in File, DidFileChanged(g) PROVE RowsCovered'
    <2>1. /\ UNCHANGED <<up, folder, watched, rows, tasks, running, unseen>>
          /\ signals' = signals \ {g} /\ calls["qt"] = NoCall
          /\ calls' = [calls EXCEPT !["qt"] = Found(g)]
      BY <1>1 DEF DidFileChanged
    <2>2. calls'["qt"] = Found(g) /\ calls'["scheduler"] = calls["scheduler"]
      BY <2>1, FoundFields, ThreadGoes DEF Thread
    <2>3. SUFFICES ASSUME NEW f \in rows, up, disk[f] # 0
                   PROVE  Covered(f)'
      BY <2>1 DEF RowsCovered, folder
    <2>4. Covered(f) /\ f \in File
      BY <2>3 DEF RowsCovered, TypeOK
    <2>5. InHand(g)'
      BY <2>2, FoundFields DEF InHand, Thread
    <2>6. InHand(f) => InHand(f)'
      BY <2>1, <2>2, <2>4, CallFields DEF InHand, Thread, Layout, Dir
    <2>7. ToBeScanned(f) => ToBeScanned(f)'
      BY <2>1 DEF ToBeScanned, IsScan, Below, FilesIn, Layout
    <2> QED
      BY <2>1, <2>4, <2>5, <2>6, <2>7 DEF Covered
  <1>2. ASSUME NEW d \in Dir, DidDirectoryChanged(d) PROVE RowsCovered'
    <2>1. SUFFICES ASSUME NEW f \in rows', up', disk'[f] # 0
                   PROVE  Covered(f)'
      BY DEF RowsCovered
    <2>2. /\ UNCHANGED <<up, folder, watched, rows, running, calls, unseen>>
          /\ signals' = signals \ {d} /\ tasks' = tasks \cup ScansOf(d)
      BY <1>2 DEF DidDirectoryChanged, Scheduled
    <2>3. f \in rows /\ f \in File /\ up /\ disk[f] # 0
      BY <2>1, <2>2 DEF TypeOK, folder
    <2>4. Covered(f)
      BY <2>3 DEF RowsCovered
    <2>5. f # d
      BY <2>3 DEF Layout
    <2>6. ASSUME f \in Below(d) PROVE ToBeScanned(f)'
      <3>1. Exists(d)
        BY <2>3, <2>6 DEF InFolder, Exists, Below, FilesIn, Layout, Dir
      <3>2. Task("scan", d) \in tasks' /\ Task("rescan", d) \in tasks'
        BY <2>2, <3>1 DEF ScansOf
      <3>3. Task("scan", d) # Task("rescan", d)
        BY DEF Task
      <3>4. PICK t \in tasks' \ {running'.task} : IsScan(t) /\ t.path = d
        BY <3>2, <3>3 DEF Task, IsScan
      <3> QED
        BY <3>4, <2>6 DEF ToBeScanned, Below, FilesIn, IsScan
    <2>7. ToBeScanned(f) => ToBeScanned(f)'
      <3>1. ASSUME NEW e \in signals \cap Dir, f \in Below(e), e # d PROVE ToBeScanned(f)'
        BY <2>2, <3>1 DEF ToBeScanned, Below, FilesIn
      <3>2. ASSUME NEW t \in tasks \ {running.task}, IsScan(t), f \in Below(t.path) PROVE ToBeScanned(f)'
        BY <2>2, <3>2 DEF ToBeScanned, Below, FilesIn, IsScan
      <3>3. ASSUME IsScan(running.task), f \in running.todo PROVE ToBeScanned(f)'
        BY <2>2, <3>3 DEF ToBeScanned, IsScan
      <3> QED
        BY <2>6, <3>1, <3>2, <3>3 DEF ToBeScanned
    <2> QED
      BY <2>2, <2>4, <2>5, <2>7 DEF Covered, InHand
  <1>3. ASSUME NEW t \in tasks, Begin(t) PROVE RowsCovered'
    <2>1. /\ UNCHANGED <<up, folder, watched, signals, rows, tasks, calls, unseen>>
          /\ running' = [task |-> t, todo |-> TodoOf(t)]
          /\ running = Idle
      BY <1>3 DEF Begin
    <2>2. /\ running'.task = t /\ running'.todo = TodoOf(t)
          /\ running.task = Idle.task /\ running.todo = {}
      BY <2>1 DEF Idle
    <2>3. SUFFICES ASSUME NEW f \in rows, up, disk[f] # 0
                   PROVE  Covered(f)'
      BY <2>1 DEF RowsCovered, folder
    <2>4. Covered(f)
      BY <2>3 DEF RowsCovered
    <2>5. ToBeScanned(f) => ToBeScanned(f)'
      <3>1. ASSUME NEW d \in signals \cap Dir, f \in Below(d) PROVE ToBeScanned(f)'
        BY <2>1, <3>1 DEF ToBeScanned, Below, FilesIn
      <3>2. ASSUME NEW u \in tasks \ {running.task}, IsScan(u), f \in Below(u.path) PROVE ToBeScanned(f)'
        <4>1. CASE u = t
          <5>1. f \in TodoOf(t)
            BY <3>2, <4>1 DEF TodoOf, IsScan
          <5> QED
            BY <2>2, <3>2, <4>1, <5>1 DEF ToBeScanned, IsScan
        <4>2. CASE u # t
          BY <2>1, <2>2, <3>2, <4>2 DEF ToBeScanned, Below, FilesIn, IsScan
        <4> QED
          BY <4>1, <4>2
      <3> QED
        BY <2>2, <3>1, <3>2 DEF ToBeScanned
    <2> QED
      BY <2>1, <2>2, <2>4, <2>5 DEF Covered, InHand
  <1>4. ASSUME NEW p \in running.todo, ScanVisit(p) PROVE RowsCovered'
    <2> DEFINE c == IF Exists(p) THEN Call("watch", p) ELSE NoCall
    <2>1. /\ UNCHANGED <<up, folder, signals, rows, tasks, unseen>> /\ watched' = watched \ {p}
          /\ running'.task = running.task /\ running'.todo = running.todo \ {p}
          /\ calls["scheduler"] = NoCall /\ calls' = [calls EXCEPT !["scheduler"] = c]
      BY <1>4, RunningFields DEF ScanVisit, Visits
    <2>2. c \in CallType /\ (Exists(p) => c.path = p /\ c.pc = "watch")
      BY <1>0, CallFields
    <2> HIDE DEF c
    <2>3. calls'["scheduler"] = c /\ calls'["qt"] = calls["qt"]
      BY <2>1, <2>2, ThreadGoes DEF Thread
    <2>4. SUFFICES ASSUME NEW f \in rows, up, disk[f] # 0
                   PROVE  Covered(f)'
      BY <2>1 DEF RowsCovered, folder
    <2>5. Covered(f) /\ f \in File
      BY <2>4 DEF RowsCovered, TypeOK
    <2>6. f = p => InHand(f)'
      BY <2>2, <2>3, <2>4, <2>5 DEF InHand, Thread, Exists
    <2>7. f # p /\ ToBeScanned(f) => ToBeScanned(f)'
      BY <2>1 DEF ToBeScanned, IsScan, Below, FilesIn
    <2>8. InHand(f) => InHand(f)'
      BY <2>1, <2>3, <2>5, CallFields DEF InHand, Thread, Layout, Dir
    <2> QED
      BY <2>1, <2>5, <2>6, <2>7, <2>8 DEF Covered
  <1>5. ASSUME NEW p \in running.todo, RemovalVisit(p) PROVE RowsCovered'
    <2>1. /\ UNCHANGED <<up, folder, watched, signals, tasks, calls, unseen>>
          /\ running'.task = running.task /\ ~IsScan(running.task) /\ rows' \subseteq rows
      BY <1>5, RunningFields DEF RemovalVisit, Visits, IsScan, DeleteFile
    <2>2. \A f \in File : ToBeScanned(f) => ToBeScanned(f)'
      BY <2>1 DEF ToBeScanned, IsScan, Below, FilesIn
    <2> QED
      BY <2>1, <2>2 DEF RowsCovered, Covered, InHand, TypeOK, folder
  <1>6. CASE ScanWatch
    <2> DEFINE g == calls["scheduler"].path
    <2>1. /\ UNCHANGED <<up, folder, signals, rows, tasks, running, unseen>>
          /\ watched' = watched \cup {q \in {g} : Exists(q)}
          /\ calls["scheduler"].pc = "watch"
          /\ (g \in File /\ Goes("scheduler", "look")) \/ Ends("scheduler")
      BY <1>6 DEF ScanWatch, At
    <2>2. \A u \in Thread \ {"scheduler"} : calls'[u] = calls[u]
      BY <2>1, ThreadMoves DEF Thread
    <2>3. SUFFICES ASSUME NEW f \in rows, up, disk[f] # 0
                   PROVE  Covered(f)'
      BY <2>1 DEF RowsCovered, folder
    <2>4. CASE f = g
      BY <2>1, <2>3, <2>4 DEF Covered, Exists, TypeOK
    <2>5. CASE f # g
      BY <2>1, <2>2, <2>3, <2>5, OthersCovered DEF Thread
    <2> QED
      BY <2>4, <2>5
  <1>9. CASE ScanLook
    <2> DEFINE g == calls["scheduler"].path
    <2>1. /\ UNCHANGED <<up, folder, watched, signals, tasks, running, unseen>>
          /\ calls["scheduler"].pc = "look"
          /\ \/ rows' = rows \cup {g} /\ Goes("scheduler", "exists")
             \/ rows' = rows /\ Ends("scheduler") /\ (Exists(g) => g \in rows)
      BY <1>9 DEF ScanLook, At, AddFile, FileExists
    <2>2. g \in File
      BY <2>1, CallFields DEF TypeOK, Thread
    <2>3. /\ \A u \in Thread \ {"scheduler"} : calls'[u] = calls[u]
          /\ Goes("scheduler", "exists") =>
                calls'["scheduler"].path = g /\ calls'["scheduler"].pc = "exists"
      BY <2>1, <2>2, ThreadMoves DEF Thread
    <2>4. SUFFICES ASSUME NEW f \in rows', up, disk[f] # 0
                   PROVE  Covered(f)'
      BY <2>1 DEF RowsCovered, folder
    <2>5. CASE Goes("scheduler", "exists") /\ f = g
      BY <2>3, <2>5 DEF Covered, InHand, Thread
    <2>6. CASE f \in rows /\ f # g
      BY <2>1, <2>3, <2>4, <2>6, OthersCovered DEF Thread
    <2>7. CASE f \in rows /\ f = g
      <3>1. Covered(f)
        BY <2>4, <2>7 DEF RowsCovered
      <3>2. InHand(f) => InHand(f)'
        BY <2>1, <2>3 DEF InHand
      <3>3. ToBeScanned(f) => ToBeScanned(f)'
        BY <2>1 DEF ToBeScanned, IsScan, Below, FilesIn
      <3> QED
        BY <2>1, <3>1, <3>2, <3>3 DEF Covered
    <2> QED
      BY <2>1, <2>5, <2>6, <2>7
  <1>10. CASE ScanNotify
    <2> DEFINE g == calls["scheduler"].path
    <2>1. /\ UNCHANGED <<up, folder, watched, signals, rows, tasks, running, unseen>>
          /\ calls["scheduler"].pc = "exists"
          /\ calls' = [calls EXCEPT !["scheduler"] = Found(g)]
      BY <1>10 DEF ScanNotify, At
    <2>2. g \in File
      BY <2>1, CallFields DEF TypeOK, Thread
    <2>3. /\ \A u \in Thread \ {"scheduler"} : calls'[u] = calls[u]
          /\ calls'["scheduler"].path = g /\ calls'["scheduler"].pc # "look"
      BY <2>1, <2>2, FoundFields, ThreadGoes DEF Thread
    <2>4. SUFFICES ASSUME NEW f \in rows, up, disk[f] # 0
                   PROVE  Covered(f)'
      BY <2>1 DEF RowsCovered, folder
    <2>5. CASE f = g
      BY <2>3, <2>5 DEF Covered, InHand, Thread
    <2>6. CASE f # g
      BY <2>1, <2>3, <2>4, <2>6, OthersCovered DEF Thread
    <2> QED
      BY <2>5, <2>6
  <1>11. ASSUME NEW th \in Thread, FileChanged(th) PROVE RowsCovered'
    BY <1>11, FileChangedCovered
  <1>7. CASE Return
    <2>1. /\ UNCHANGED <<up, folder, watched, signals, rows, calls, unseen>> /\ running.todo = {}
          /\ running' = Idle /\ tasks' = tasks \ {running.task}
      BY <1>7 DEF Return
    <2>2. running'.task = Idle.task /\ Idle.task \notin tasks
      BY <2>1, IdleNoTask DEF Idle, TypeOK
    <2>3. \A f \in File : ToBeScanned(f) => ToBeScanned(f)'
      BY <2>1, <2>2 DEF ToBeScanned, IsScan, Below, FilesIn
    <2> QED
      BY <2>1, <2>2, <2>3 DEF RowsCovered, Covered, InHand, TypeOK, folder
  <1>8. CASE Start
    <2>1. /\ UNCHANGED <<folder, rows, running>> /\ running = Idle /\ tasks' = StartTasks
      BY <1>8 DEF Start, RunningType
    <2>2. Task("rescan", Root) \in tasks' \ {running'.task} /\ IsScan(Task("rescan", Root))
      BY <2>1 DEF StartTasks, Idle, Task, IsScan
    <2>3. \A f \in rows : f \in Below(Root)
      BY DEF NoneExcluded, Below
    <2>4. \A f \in rows : ToBeScanned(f)'
      BY <2>2, <2>3 DEF ToBeScanned, Task, Below, IsScan
    <2> QED
      BY <2>1, <2>4 DEF RowsCovered, Covered
  <1> QED
    BY <1>1, <1>2, <1>3, <1>4, <1>5, <1>6, <1>7, <1>8, <1>9, <1>10, <1>11 DEF Step, Run

\* Every step keeps it.
LEMMA NextIInv == Layout /\ IInv /\ [Next]_vars => IInv'
  <1> SUFFICES ASSUME Layout, IInv, [Next]_vars PROVE IInv'
    OBVIOUS
  <1>1. CASE User
    BY <1>1, UserType, UserCovered, InFolderNext DEF IInv
  <1>2. CASE Step
    BY <1>2, StepType, StepCovered, InFolderNext DEF IInv
  <1>3. CASE Stop
    BY <1>3, StopType, InFolderNext DEF IInv, RowsCovered, Stop
  <1>4. CASE UNCHANGED vars
    <2>1. TypeOK' /\ RunningType' /\ NoneExcluded'
      BY <1>4 DEF vars, folder, IInv, TypeOK, RunningType, NoneExcluded, Exists
    <2>2. RowsCovered'
      BY <1>4 DEF vars, folder, IInv, RowsCovered, Covered, InHand, ToBeScanned, Below, FilesIn, IsScan
    <2> QED
      BY <2>1, <2>2, InFolderNext DEF IInv
  <1> QED
    BY <1>1, <1>2, <1>3, <1>4 DEF Next

\* A file with a row that is on disk comes to the attention of a running watcher,
\* although both threads take it out of m_watcher and put it back: it is watched,
\* in hand, signalled or about to be scanned (DidFileChanged,
\* ScanDirectory_NotifyUpdates_Execute).
THEOREM WatchedTableIsSound == Spec => []TableSound
  <1>1. Layout
    BY FsWatcherAssumption DEF FsWatcherAssumption
  <1>2. Init => IInv
    BY <1>1, InitIInv
  <1>3. IInv /\ [Next]_vars => IInv'
    BY <1>1, NextIInv
  <1>4. IInv => TableSound
    BY DEF IInv, TableSound, KnownIsWatched, RowsCovered, Covered, InHand
  <1> QED
    BY <1>2, <1>3, <1>4, PTL DEF Spec

=============================================================================
