------------------------- MODULE Dispatcher_proofs -------------------------
(***************************************************************************)
(* The safety properties of Dispatcher, for any contents, devices, remote  *)
(* updates and conversions, and any bounds on what happens.                *)
(***************************************************************************)
EXTENDS Dispatcher, FiniteSetTheorems, WellFoundedInduction, TLAPS

-----------------------------------------------------------------------------
(* The inductive invariant.                                                 *)

\* The rows of FileState, and the segments of all contents.
FileRow ==
    [dev : Device \cup {0}, seq : Nat, version : Nat, hash : Content \cup {NoHash}, complete : BOOLEAN]

SegmentRow == [hash : Hash, dev : Device, n : Nat]

\* The parts of TypeOK, and what it leaves open.
RestType == <<port, bound>> \in Worlds /\ up \in BOOLEAN /\ changes \in 0..bound.changes

DiskType ==
    /\ disk \in [File -> Content \cup {NoHash}] /\ changed \subseteq File
    /\ stamp \in [File -> (Device \cup {0}) \X Nat]
    /\ stale \subseteq File /\ skipped \subseteq File

TableType ==
    /\ IsFiniteSet(log)
    /\ \A a \in log : a.dev \in Device /\ a.file \in File /\ a.version \in Nat
    /\ files \in [File -> FileRow]

QueueType == jobs \in Seq(Jobs) /\ assembly \in Assemblies

FetchType ==
    /\ reported \in [Device \ {Local} -> Nat]
    /\ wanted \subseteq Remote /\ logged \in Remote \cup {None}
    /\ fetching \subseteq [hash : Hash, dev : Device, lack : SUBSET SegmentRow]

StoreType ==
    /\ m_objectDbMap \subseteq Hash /\ shared \subseteq Hash
    /\ saved \subseteq SegmentRow /\ unsaved \subseteq SegmentRow
    /\ \A s \in unsaved : s.hash \in m_objectDbMap

TypeInv == RestType /\ DiskType /\ TableType /\ QueueType /\ FetchType /\ StoreType

\* The file has been written, and its row is still to be marked.
InHand(f) ==
    assembly.pc \in {"stamp", "mark"} /\ assembly.item.file = f /\ disk[f] = assembly.hash

\* What is on disk was written by the user, or is what the row says and was
\* assembled, or is being assembled, or is one of the exceptions of NoEcho.
DiskKnown ==
    \A f \in File :
        \/ disk[f] = NoHash
        \/ <<f, disk[f]>> \in wrote
        \/ f \in stale
        \/ disk[f] \in {Torn, Padded}
        \/ InHand(f)
        \/ files[f].hash = disk[f] /\ files[f].complete

\* The jobs of a queue.
InQueue(q) == {q[k] : k \in DOMAIN q}

\* The segments that have arrived, saved or not.
Queued(s) == \E j \in InQueue(jobs) : j.do = "segment" /\ j.s = s
Arrived(s) == s \in saved \/ s \in unsaved \/ Queued(s)

\* A content of which a segment is committed is committed as a whole.
SavedWhole == \A s \in saved : AllSegments(s.hash, s.dev) \subseteq saved

\* A content that is under way has an open ObjectDb to be saved in.
OpenUnderWay == up => \A h \in Hash : UnderWay(h) => h \in m_objectDbMap

\* What a fetch no longer lacks has arrived.
FetchedArrived ==
    \A x \in fetching :
        /\ x.lack # {} /\ x.lack \subseteq AllSegments(x.hash, x.dev)
        /\ \A s \in AllSegments(x.hash, x.dev) \ x.lack : Arrived(s)

\* With one segment of a content all have arrived, or its fetch goes on.
GroupArrived ==
    \A s \in SegmentRow :
        Arrived(s) => \/ \A t \in AllSegments(s.hash, s.dev) : Arrived(t)
                      \/ \E x \in fetching : x.hash = s.hash /\ x.dev = s.dev

\* As long as no ObjectDb has been closed under a fetch.
StoreSound ==
    shared = {} => SavedWhole /\ (Extracted => OpenUnderWay /\ FetchedArrived /\ GroupArrived)

IInv == TypeInv /\ NoEcho /\ AssembledIsWhole /\ DiskKnown /\ StoreSound

-----------------------------------------------------------------------------
(* Operators.                                                               *)

\* A finite set of numbers has a greatest one: of the parts that lie above an
\* element one contains none of the others, and it is empty.
LEMMA MaxOfFinite ==
  ASSUME NEW S \in SUBSET Nat, IsFiniteSet(S), S # {}
  PROVE  Max(S) \in S
  <1> DEFINE Above(x) == {y \in S : x < y}
             F == {Above(x) : x \in S}
             R == StrictSubsetOrdering(Nat)
  <1>1. F \subseteq FiniteSubsetsOf(Nat)
    <2>1. ASSUME NEW x \in S PROVE Above(x) \in FiniteSubsetsOf(Nat)
      <3>1. Above(x) \subseteq S
        OBVIOUS
      <3>2. IsFiniteSet(Above(x))
        BY <3>1, FS_Subset
      <3> QED
        BY <3>1, <3>2 DEF FiniteSubsetsOf
    <2> QED
      BY <2>1
  <1>2. IsWellFoundedOn(R, FiniteSubsetsOf(Nat))
    BY FS_StrictSubsetOrderingWellFounded
  <1>3. F # {}
    OBVIOUS
  <1>4. PICK B \in F : \A C \in F : <<C, B>> \notin R
    <2> HIDE DEF F, R
    <2> QED
      BY <1>1, <1>2, <1>3, WFMin
  <1>5. PICK x \in S : B = Above(x)
    OBVIOUS
  <1>6. \A y \in S : x >= y
    <2> SUFFICES ASSUME NEW y \in S, ~(x >= y) PROVE FALSE
      OBVIOUS
    <2>1. y \in Above(x) /\ y \notin Above(y)
      BY DEF Above
    <2>2. ASSUME NEW z \in Above(y) PROVE z \in Above(x)
      <3>1. x \in Nat /\ y \in Nat /\ z \in Nat /\ x < y /\ y < z
        BY <2>2
      <3> QED
        BY <2>2, <3>1
    <2>3. Above(y) \in SUBSET Nat /\ Above(x) \in SUBSET Nat
      OBVIOUS
    <2>4. <<Above(y), Above(x)>> \in R
      <3> HIDE DEF Above
      <3> QED
        BY <2>1, <2>2, <2>3 DEF StrictSubsetOrdering
    <2> QED
      BY <1>4, <1>5, <2>4
  <1> QED
    BY <1>6 DEF Max

\* The number and the version of a new action are numbers.
LEMMA NewActionType ==
  ASSUME TableType, NEW act, NEW f \in File, NEW h
  PROVE  /\ LocalAction(act, f, h).seq \in Nat
         /\ NextVersion(f) \in Nat
         /\ LocalAction(act, f, h) =
              [dev |-> Local, seq |-> LocalAction(act, f, h).seq, act |-> act, file |-> f,
               version |-> NextVersion(f), hash |-> h]
  <1>1. IsFiniteSet({a \in log : a.dev = Local})
    BY FS_Subset DEF TableType
  <1>2. Cardinality({a \in log : a.dev = Local}) \in Nat
    BY <1>1, FS_CardinalityType
  <1>3. NextVersion(f) \in Nat
    <2> DEFINE V == {a.version : a \in ActionsOn(f)}
    <2>1. CASE ActionsOn(f) = {}
      BY <2>1 DEF NextVersion
    <2>2. CASE ActionsOn(f) # {}
      <3>1. IsFiniteSet(ActionsOn(f))
        BY FS_Subset DEF TableType, ActionsOn
      <3>2. IsFiniteSet(V)
        <4>1. [a \in ActionsOn(f) |-> a.version] \in Surjection(ActionsOn(f), V)
          BY DEF Surjection
        <4> QED
          BY <3>1, <4>1, FS_Surjection
      <3>3. V \subseteq Nat /\ V # {}
        BY <2>2 DEF TableType, ActionsOn
      <3>4. Max(V) \in Nat
        <4> HIDE DEF V
        <4> QED
          BY <3>2, <3>3, MaxOfFinite
      <3> QED
        BY <2>2, <3>4 DEF NextVersion
    <2> QED
      BY <2>1, <2>2
  <1> QED
    BY <1>2, <1>3 DEF LocalAction

\* UPDATE and INSERT leave the row of the action, and all others as they were.
LEMMA RowShown ==
  ASSUME files \in [File -> FileRow],
         NEW a, a.dev \in Device, a.seq \in Nat, a.version \in Nat,
         a.hash \in Content \cup {NoHash}, a.file \in File,
         NEW r, r = InsertRow(UpdateRow(files, a), a)
  PROVE  /\ r \in [File -> FileRow]
         /\ r[a.file] = [dev |-> a.dev, seq |-> a.seq, version |-> a.version, hash |-> a.hash,
                         complete |-> Exists(files, a.file) /\ files[a.file].complete]
         /\ \A f \in File \ {a.file} : r[f] = files[f]
         /\ Exists(r, a.file)
  <1> DEFINE u == UpdateRow(files, a)
             new(c) == [dev |-> a.dev, seq |-> a.seq, version |-> a.version, hash |-> a.hash, complete |-> c]
  <1>0. \A c \in BOOLEAN : new(c) \in FileRow /\ new(c) # NoRow
    BY DispatcherAssumption DEF FileRow, NoRow, DispatcherAssumption
  <1>1. CASE Exists(files, a.file)
    <2>1. u = [files EXCEPT ![a.file] = new(files[a.file].complete)]
      <3> DEFINE r1 == [files[a.file] EXCEPT !.dev = a.dev]
                 r2 == [r1 EXCEPT !.seq = a.seq]
                 r3 == [r2 EXCEPT !.version = a.version]
                 r4 == [r3 EXCEPT !.hash = a.hash]
      <3>1. files[a.file] \in FileRow
        OBVIOUS
      <3>2. u = [files EXCEPT ![a.file] = r4]
        BY <1>1 DEF UpdateRow
      <3>3. r1 \in FileRow /\ r1.dev = a.dev /\ r1.complete = files[a.file].complete
        BY <3>1 DEF FileRow
      <3> HIDE DEF r1
      <3>4. r2 \in FileRow /\ r2.dev = a.dev /\ r2.seq = a.seq /\ r2.complete = files[a.file].complete
        BY <3>3 DEF FileRow
      <3> HIDE DEF r2
      <3>5. /\ r3 \in FileRow /\ r3.dev = a.dev /\ r3.seq = a.seq /\ r3.version = a.version
            /\ r3.complete = files[a.file].complete
        BY <3>4 DEF FileRow
      <3> HIDE DEF r3
      <3>6. /\ r4 \in FileRow /\ r4.dev = a.dev /\ r4.seq = a.seq /\ r4.version = a.version
            /\ r4.hash = a.hash /\ r4.complete = files[a.file].complete
        BY <3>5 DEF FileRow
      <3> HIDE DEF r4
      <3>7. r4 = new(files[a.file].complete)
        BY <3>6 DEF FileRow
      <3> QED
        BY <3>2, <3>7
    <2>2. u[a.file] = new(files[a.file].complete) /\ files[a.file].complete \in BOOLEAN
      BY <2>1 DEF FileRow
    <2>3. Exists(u, a.file)
      BY <2>2, <1>0 DEF Exists
    <2>4. InsertRow(u, a) = u
      BY <2>3 DEF InsertRow
    <2>5. u \in [File -> FileRow]
      BY <2>1, <2>2, <1>0
    <2>6. \A f \in File \ {a.file} : u[f] = files[f]
      BY <2>1
    <2> QED
      BY <1>1, <2>2, <2>3, <2>4, <2>5, <2>6
  <1>2. CASE ~Exists(files, a.file)
    <2>1. u = files
      BY <1>2 DEF UpdateRow
    <2>2. InsertRow(u, a) = [files EXCEPT ![a.file] = new(FALSE)]
      BY <1>2, <2>1 DEF InsertRow
    <2> QED
      BY <1>0, <1>2, <2>2 DEF Exists
  <1> QED
    BY <1>1, <1>2

\* The queue of the executor.
LEMMA QueueAppend ==
  ASSUME NEW q \in Seq(Jobs), NEW j \in Jobs
  PROVE  /\ Append(q, j) \in Seq(Jobs)
         /\ InQueue(Append(q, j)) = InQueue(q) \cup {j}
  <1>1. /\ DOMAIN q = 1..Len(q) /\ Len(q) \in Nat
        /\ DOMAIN Append(q, j) = 1..(Len(q) + 1)
        /\ \A i \in 1..Len(q) : Append(q, j)[i] = q[i]
        /\ Append(q, j)[Len(q) + 1] = j
    OBVIOUS
  <1> QED
    BY <1>1 DEF InQueue

\* What is left when its first job is taken.
LEMMA QueueTail ==
  ASSUME NEW q \in Seq(Jobs), q # <<>>
  PROVE  /\ Tail(q) \in Seq(Jobs) /\ Head(q) \in Jobs
         /\ InQueue(q) = InQueue(Tail(q)) \cup {Head(q)}
         /\ InQueue(q) \subseteq Jobs
  <1>1. /\ DOMAIN q = 1..Len(q) /\ Len(q) \in Nat \ {0}
        /\ DOMAIN Tail(q) = 1..(Len(q) - 1)
        /\ \A i \in 1..(Len(q) - 1) : Tail(q)[i] = q[i + 1]
        /\ Head(q) = q[1]
    OBVIOUS
  <1>2. \A i \in 1..Len(q) : i = 1 \/ (i - 1 \in 1..(Len(q) - 1) /\ Tail(q)[i - 1] = q[i])
    BY <1>1
  <1>3. InQueue(Tail(q)) \subseteq InQueue(q) /\ Head(q) \in InQueue(q)
    BY <1>1 DEF InQueue
  <1>4. InQueue(q) \subseteq InQueue(Tail(q)) \cup {Head(q)}
    <2>1. ASSUME NEW i \in 1..Len(q) PROVE q[i] \in InQueue(Tail(q)) \cup {Head(q)}
      <3>1. CASE i = 1
        BY <1>1, <3>1
      <3>2. CASE i # 1
        BY <1>1, <1>2, <3>2 DEF InQueue
      <3> QED
        BY <3>1, <3>2
    <2> QED
      BY <1>1, <2>1 DEF InQueue
  <1>5. InQueue(q) \subseteq Jobs
    BY <1>1 DEF InQueue
  <1> QED
    BY <1>3, <1>4, <1>5

\* Who publishes, and what.
LEMMA RemoteFields ==
  ASSUME NEW a \in Remote
  PROVE  /\ a.dev \in Device \ {Local} /\ a.file \in File /\ a.hash \in Hash /\ a.act = "update"
         /\ a.seq \in Nat /\ a.version \in Nat /\ a # None
  BY DispatcherAssumption DEF DispatcherAssumption, None

\* The fields of the jobs of each kind.
LEMMA JobFields ==
  ASSUME NEW j \in Jobs
  PROVE  /\ j.do \in {"modify", "delete", "remove"} => j.file \in File
         /\ j.do = "state" => j.dev \in Device /\ j.old \in Nat /\ j.new \in Nat
         /\ j.do = "segment" => j.s \in SegmentRow
         /\ j.do = "complete" => j.hash \in Hash /\ j.dev \in Device
  BY DEF Jobs, SegmentRow

\* The job that an action of the executor takes.
LEMMA JobTaken ==
  ASSUME QueueType, NEW what, Job(what), what \in {"modify", "delete", "remove", "state", "segment", "complete"}
  PROVE  /\ assembly = Idle /\ Head(jobs) \in Jobs /\ Head(jobs).do = what
         /\ Tail(jobs) \in Seq(Jobs)
         /\ InQueue(jobs) = InQueue(Tail(jobs)) \cup {Head(jobs)}
  BY QueueTail DEF QueueType, Job

\* The segments of a content are well formed, and there is one at least.
LEMMA SegmentsType ==
  ASSUME NEW h \in Hash, NEW dev \in Device
  PROVE  /\ AllSegments(h, dev) \subseteq SegmentRow /\ AllSegments(h, dev) # {}
         /\ \A s \in AllSegments(h, dev) : s.hash = h /\ s.dev = dev
  <1>1. Segs[h] \in Nat \ {0}
    BY DispatcherAssumption DEF DispatcherAssumption
  <1>2. 0 \in 0..(Segs[h] - 1) /\ 0..(Segs[h] - 1) \subseteq Nat
    BY <1>1
  <1>3. \A n \in 0..(Segs[h] - 1) :
           /\ Segment(h, dev, n) \in SegmentRow
           /\ Segment(h, dev, n).hash = h /\ Segment(h, dev, n).dev = dev
    BY <1>2 DEF Segment, SegmentRow
  <1> QED
    BY <1>2, <1>3 DEF AllSegments

\* A file that is assembled has the content that was asked for, or lacks some
\* of it, or has more.
LEMMA FileContent ==
  ASSUME NEW segments, NEW h \in Hash, NEW dev
  PROVE  /\ ObjectsToLocalFile(segments, h, dev) \in {h, Torn, Padded}
         /\ ObjectsToLocalFile(segments, h, dev) \in Content
         /\ ObjectsToLocalFile(segments, h, dev) = Padded => "sized" \notin port
         /\ AllSegments(h, dev) \subseteq segments => ObjectsToLocalFile(segments, h, dev) # Torn
  BY DispatcherAssumption DEF ObjectsToLocalFile, Content, DispatcherAssumption

\* The loop over the copied rows, at each of its steps.
LEMMA AssemblyFields ==
  ASSUME assembly \in Assemblies
  PROVE  /\ assembly.pc \in {"idle", "lookup", "next", "stamp", "mark"}
         /\ assembly.pc # "idle" => assembly.hash \in Hash /\ assembly.dev \in Device
         /\ assembly.pc \in {"next", "stamp", "mark"} => assembly.todo \in SUBSET Items
         /\ assembly.pc \in {"stamp", "mark"} =>
               /\ assembly.item \in Items
               /\ assembly = [pc |-> assembly.pc, hash |-> assembly.hash, dev |-> assembly.dev,
                              todo |-> assembly.todo, item |-> assembly.item]
  <1>1. CASE assembly \in {Idle}
    BY <1>1 DEF Idle
  <1>2. CASE assembly \in [pc : {"lookup"}, hash : Hash, dev : Device]
    BY <1>2
  <1>3. CASE assembly \in [pc : {"next"}, hash : Hash, dev : Device, todo : SUBSET Items]
    BY <1>3
  <1>4. CASE assembly \in [pc : {"stamp", "mark"}, hash : Hash, dev : Device, todo : SUBSET Items, item : Items]
    BY <1>4
  <1> QED
    BY <1>1, <1>2, <1>3, <1>4 DEF Assemblies

\* What is left of it, too.
LEMMA LoopType ==
  ASSUME assembly.hash \in Hash, assembly.dev \in Device, NEW todo \in SUBSET Items
  PROVE  Loop(todo) \in Assemblies /\ Loop(todo).pc \in {"idle", "next"}
  BY DEF Loop, Idle, Assemblies

-----------------------------------------------------------------------------
(* Types.                                                                   *)

\* A device starts with an empty folder and empty tables.
LEMMA InitType == Init => TypeInv
  <1> SUFFICES ASSUME Init PROVE TypeInv
    OBVIOUS
  <1>1. NoRow \in FileRow
    BY DEF NoRow, FileRow, Content
  <1>2. NoStamp \in (Device \cup {0}) \X Nat
    BY DEF NoStamp
  <1>3. QueueType
    BY DEF Init, QueueType, Assemblies
  <1>4. IsFiniteSet({})
    BY FS_EmptySet
  <1>5. RestType
    <2>1. PICK w \in Worlds : port = w[1] /\ bound = w[2]
      BY DEF Init
    <2>2. w = <<w[1], w[2]>> /\ w[2].changes \in Nat
      BY DispatcherAssumption DEF DispatcherAssumption
    <2> QED
      BY <2>1, <2>2 DEF Init, RestType
  <1>6. DiskType /\ TableType
    BY <1>1, <1>2, <1>4 DEF Init, DiskType, TableType
  <1>7. FetchType /\ StoreType
    BY DEF Init, FetchType, StoreType
  <1> QED
    BY <1>3, <1>5, <1>6, <1>7 DEF TypeInv

\* What happens is counted up to the bound.
LEMMA CountType ==
  ASSUME RestType, changes < bound.changes, changes' = changes + 1, UNCHANGED <<port, bound, up>>
  PROVE  RestType'
  <1>1. bound.changes \in Nat
    BY DispatcherAssumption DEF RestType, DispatcherAssumption
  <1> QED
    BY <1>1 DEF RestType

\* What the user and the watcher do.
LEMMA UserType ==
  ASSUME TypeInv
  PROVE  /\ \A f \in File, h \in Hash \cup {NoHash} : \A t \in Stamps(f, h) : UserEdit(f, h, t) => TypeInv'
         /\ \A f \in File : UserTouch(f) \/ Report(f) => TypeInv'
  <1> USE DEF TypeInv, disks, tables, fetches, store, history
  <1>1. ASSUME NEW f \in File, NEW h \in Hash \cup {NoHash}, NEW t \in Stamps(f, h), UserEdit(f, h, t)
        PROVE  TypeInv'
    <2>1. t \in (Device \cup {0}) \X Nat
      BY RemoteFields DEF Stamps, NoStamp
    <2>2. RestType'
      BY <1>1, CountType DEF UserEdit
    <2>3. DiskType'
      BY <1>1, <2>1 DEF UserEdit, DiskType, Content
    <2>4. UNCHANGED <<port, up, log, files, jobs, assembly, reported, wanted, logged, fetching,
                      m_objectDbMap, unsaved, saved, shared>>
      BY <1>1 DEF UserEdit
    <2> QED
      BY <2>2, <2>3, <2>4 DEF TableType, QueueType, FetchType, StoreType
  <1>2. ASSUME NEW f \in File, UserTouch(f) PROVE TypeInv'
    <2>1. RestType'
      BY <1>2, CountType DEF UserTouch
    <2>2. DiskType'
      BY <1>2 DEF UserTouch, DiskType, NoStamp
    <2>3. UNCHANGED <<port, up, log, files, jobs, assembly, reported, wanted, logged, fetching,
                      m_objectDbMap, unsaved, saved, shared>>
      BY <1>2 DEF UserTouch
    <2> QED
      BY <2>1, <2>2, <2>3 DEF TableType, QueueType, FetchType, StoreType
  <1>3. ASSUME NEW f \in File, Report(f) PROVE TypeInv'
    <2>1. Did(IF disk[f] = NoHash THEN "delete" ELSE "modify", f) \in Jobs
      BY DEF Did, Jobs
    <2>2. QueueType'
      BY <1>3, <2>1, QueueAppend DEF Report, QueueType
    <2> QED
      BY <1>3, <2>2 DEF Report, RestType, DiskType, TableType, FetchType, StoreType
  <1> QED
    BY <1>1, <1>2, <1>3

\* Adding an action to the log.
LEMMA LogType ==
  ASSUME TableType, NEW a, a.dev \in Device, a.file \in File, a.version \in Nat
  PROVE  /\ IsFiniteSet(log \cup {a})
         /\ \A b \in log \cup {a} : b.dev \in Device /\ b.file \in File /\ b.version \in Nat
  BY FS_AddElement DEF TableType

\* The row of a file that was logged here.
LEMMA CompletedRow ==
  ASSUME NEW r \in [File -> FileRow], NEW f \in File
  PROVE  /\ SetFileComplete(r, f) \in [File -> FileRow]
         /\ \A g \in File \ {f} : SetFileComplete(r, f)[g] = r[g]
         /\ SetFileComplete(r, f)[f].hash = r[f].hash
         /\ Exists(r, f) => SetFileComplete(r, f)[f].complete
  <1>1. r[f] \in FileRow
    OBVIOUS
  <1>2. [r[f] EXCEPT !.complete = TRUE] \in FileRow /\ [r[f] EXCEPT !.complete = TRUE].hash = r[f].hash
        /\ [r[f] EXCEPT !.complete = TRUE].complete
    BY <1>1 DEF FileRow
  <1> QED
    BY <1>2 DEF SetFileComplete

\* What Did_LocalFile_AddOrModify_Execute stores, logs and shows.
Edited(f, n, v) ==
    /\ disk[f] # NoHash /\ Accepts(f)
    /\ saved' = saved \/ (disk[f] \in Hash /\ saved' = saved \cup AllSegments(disk[f], Local))
    /\ log' = log \cup {[dev |-> Local, seq |-> n, act |-> "update", file |-> f,
                         version |-> v, hash |-> disk[f]]}
    /\ files' \in [File -> FileRow]
    /\ files'[f].hash = disk[f] /\ files'[f].complete
    /\ \A g \in File \ {f} : files'[g] = files[g]
    /\ stamp' = [stamp EXCEPT ![f] = <<Local, n>>]

\* The job publishes an edit so, or leaves the log and the tables alone.
LEMMA LocalFileModifyEffect ==
  ASSUME TypeInv, LocalFileModify
  PROVE  \/ UNCHANGED <<saved, log, files, stamp>>
         \/ \E f \in File, n \in Nat, v \in Nat : Edited(f, n, v)
  <1> USE DEF TypeInv
  <1> DEFINE f == Head(jobs).file
             a == LocalAction("update", f, disk[f])
             n == a.seq
             v == NextVersion(f)
  <1>1. f \in File
    BY JobTaken, JobFields DEF LocalFileModify
  <1>2. SUFFICES ASSUME ~UNCHANGED <<saved, log, files, stamp>> PROVE Edited(f, n, v) /\ n \in Nat /\ v \in Nat
    BY <1>1
  <1>3. /\ disk[f] # NoHash /\ Accepts(f)
        /\ saved' = IF disk[f] \in Hash THEN LocalFileToObjects(disk[f]) ELSE saved
        /\ log' = log \cup {a}
        /\ files' = SetFileComplete(InsertRow(UpdateRow(files, a), a), f)
        /\ stamp' = [stamp EXCEPT ![f] = <<a.dev, a.seq>>]
    BY <1>2 DEF LocalFileModify
  <1>4. /\ n \in Nat /\ v \in Nat
        /\ a = [dev |-> Local, seq |-> n, act |-> "update", file |-> f, version |-> v, hash |-> disk[f]]
    BY <1>1, NewActionType
  <1>5. disk[f] \in Content /\ Local \in Device
    BY <1>1, <1>3, DispatcherAssumption DEF DiskType, DispatcherAssumption
  <1> HIDE DEF f, v
  <1>6. /\ a.dev \in Device /\ a.seq \in Nat /\ a.version \in Nat
        /\ a.hash \in Content \cup {NoHash} /\ a.file \in File
        /\ a.file = f /\ a.hash = disk[f] /\ a.dev = Local
    BY <1>1, <1>4, <1>5
  <1> HIDE DEF a
  <1>7. saved' = saved \/ (disk[f] \in Hash /\ saved' = saved \cup AllSegments(disk[f], Local))
    BY <1>3 DEF LocalFileToObjects
  <1>8. /\ files' \in [File -> FileRow] /\ files'[f].hash = disk[f] /\ files'[f].complete
        /\ \A g \in File \ {f} : files'[g] = files[g]
    <2> DEFINE r == InsertRow(UpdateRow(files, a), a)
    <2>1. files' = SetFileComplete(r, f) /\ files \in [File -> FileRow]
      BY <1>3 DEF TableType
    <2> HIDE DEF r
    <2>2. r = InsertRow(UpdateRow(files, a), a)
      BY DEF r
    <2>3. /\ r \in [File -> FileRow] /\ Exists(r, f) /\ r[f].hash = disk[f]
          /\ \A g \in File \ {f} : r[g] = files[g]
      <3>1. /\ r \in [File -> FileRow] /\ Exists(r, a.file)
            /\ r[a.file] = [dev |-> a.dev, seq |-> a.seq, version |-> a.version, hash |-> a.hash,
                            complete |-> Exists(files, a.file) /\ files[a.file].complete]
            /\ \A g \in File \ {a.file} : r[g] = files[g]
        <4>1. a.dev \in Device /\ a.seq \in Nat /\ a.version \in Nat /\ a.hash \in Content \cup {NoHash} /\ a.file \in File
          BY <1>6
        <4> QED
          BY <2>1, <2>2, <4>1, RowShown, Zenon
      <3>2. r[a.file].hash = a.hash
        BY <3>1
      <3> QED
        BY <1>6, <3>1, <3>2, Zenon
    <2> QED
      BY <1>1, <2>1, <2>3, CompletedRow
  <1> QED
    BY <1>3, <1>4, <1>6, <1>7, <1>8 DEF Edited

\* The end of the process is a Boolean too.
LEMMA UpType ==
  ASSUME TypeInv, LocalFileModify
  PROVE  up' \in BOOLEAN
  <1>1. up' = up \/ up' = (disk[Head(jobs).file] # NoHash /\ Accepts(Head(jobs).file) => CanOpen)
    BY DEF LocalFileModify
  <1> QED
    BY <1>1, Zenon DEF TypeInv, RestType

\* The jobs that log and apply local changes.
LEMMA LocalType ==
  ASSUME TypeInv, LocalFileModify \/ LocalFileDelete \/ ActionApplyDelete
  PROVE  TypeInv'
  <1> USE DEF TypeInv, disks, tables, fetches, store, history
  <1>1. CASE LocalFileModify
    <2>1. QueueType'
      BY <1>1, JobTaken DEF LocalFileModify, QueueType
    <2>2. UNCHANGED <<port, bound, disk, changed, assembly, reported, wanted, logged, fetching, m_objectDbMap, unsaved,
                      changes, stale, skipped, shared>>
      BY <1>1 DEF LocalFileModify
    <2>3. RestType' /\ FetchType'
      BY <1>1, <2>2, UpType DEF RestType, FetchType
    <2>4. CASE UNCHANGED <<saved, log, files, stamp>>
      BY <2>1, <2>2, <2>3, <2>4 DEF DiskType, TableType, StoreType
    <2>5. CASE \E f \in File, n \in Nat, v \in Nat : Edited(f, n, v)
      <3>1. PICK f \in File, n \in Nat, v \in Nat : Edited(f, n, v)
        BY <2>5
      <3>2. Local \in Device
        BY DispatcherAssumption DEF DispatcherAssumption
      <3>3. saved' \subseteq SegmentRow
        BY <3>1, <3>2, SegmentsType DEF Edited, StoreType
      <3>4. DiskType'
        BY <2>2, <3>1, <3>2 DEF Edited, DiskType
      <3>5. TableType'
        BY <3>1, <3>2, LogType DEF Edited, TableType
      <3>6. StoreType'
        BY <2>2, <3>3 DEF StoreType
      <3> QED
        BY <2>1, <2>3, <3>4, <3>5, <3>6
    <2> QED
      BY <1>1, <2>4, <2>5, LocalFileModifyEffect
  <1>2. CASE LocalFileDelete
    <2>1. Head(jobs).file \in File /\ Tail(jobs) \in Seq(Jobs)
      BY <1>2, JobTaken, JobFields DEF LocalFileDelete
    <2> DEFINE f == Head(jobs).file
               a == LocalAction("delete", f, NoHash)
    <2>2. Did("remove", f) \in Jobs
      BY <2>1 DEF Did, Jobs
    <2>3. QueueType'
      BY <1>2, <2>1, <2>2, QueueAppend DEF LocalFileDelete, QueueType
    <2>4. UNCHANGED <<port, bound, up, disk, stamp, changed, assembly, reported, wanted, logged, fetching,
                      m_objectDbMap, unsaved, saved, changes, stale, skipped, shared>>
      BY <1>2 DEF LocalFileDelete
    <2>5. a.dev \in Device /\ a.file \in File /\ a.version \in Nat
      BY <2>1, NewActionType, DispatcherAssumption DEF DispatcherAssumption
    <2>6. UNCHANGED tables \/ (log' = log \cup {a} /\ files' = DeleteFile(files, f))
      BY <1>2 DEF LocalFileDelete
    <2>7. NoRow \in FileRow
      BY DEF NoRow, FileRow, Content
    <2> HIDE DEF a, f
    <2>8. TableType'
      BY <2>5, <2>6, <2>7, LogType DEF TableType, DeleteFile
    <2> QED
      BY <2>3, <2>4, <2>8 DEF RestType, DiskType, FetchType, StoreType
  <1>3. CASE ActionApplyDelete
    <2>1. Head(jobs).file \in File /\ Tail(jobs) \in Seq(Jobs)
      BY <1>3, JobTaken, JobFields DEF ActionApplyDelete
    <2>2. UNCHANGED <<port, bound, up, log, files, assembly, reported, wanted, logged, fetching,
                      m_objectDbMap, unsaved, saved, changes, stale, skipped, shared>>
      BY <1>3 DEF ActionApplyDelete
    <2>3. DiskType'
      BY <1>3, <2>1, <2>2 DEF ActionApplyDelete, DiskType, NoStamp
    <2>4. QueueType'
      BY <1>3, <2>1 DEF ActionApplyDelete, QueueType
    <2> QED
      BY <2>2, <2>3, <2>4 DEF RestType, TableType, FetchType, StoreType
  <1> QED
    BY <1>1, <1>2, <1>3

\* The jobs that SyncCore and m_actionFetcher cause.
LEMMA ActionType ==
  ASSUME TypeInv
  PROVE  /\ StateChangeExecute => TypeInv'
         /\ \A dev \in Device \ {Local} : \A a \in Remote :
               a.dev = dev /\ SyncLogStateChange(dev, a.seq) => TypeInv'
         /\ \A a \in wanted : ActionFetch(a) => TypeInv'
         /\ ActionFetchRequest => TypeInv'
  <1> USE DEF TypeInv, disks, tables, fetches, store, history
  <1>1. ASSUME StateChangeExecute PROVE TypeInv'
    <2>1. Tail(jobs) \in Seq(Jobs) /\ RangeOf(Head(jobs)) \subseteq Remote
      BY <1>1, JobTaken DEF StateChangeExecute, RangeOf
    <2>2. QueueType' /\ FetchType'
      BY <1>1, <2>1 DEF StateChangeExecute, QueueType, FetchType
    <2> QED
      BY <1>1, <2>2 DEF StateChangeExecute, RestType, DiskType, TableType, StoreType
  <1>2. ASSUME NEW dev \in Device \ {Local}, NEW a \in Remote, a.dev = dev, SyncLogStateChange(dev, a.seq)
        PROVE  TypeInv'
    <2>1. reported[dev] \in Nat /\ a.seq \in Nat
      BY RemoteFields DEF FetchType
    <2>2. [do |-> "state", dev |-> dev, old |-> reported[dev], new |-> a.seq] \in Jobs
      BY <2>1 DEF Jobs
    <2>3. QueueType'
      BY <1>2, <2>2, QueueAppend DEF SyncLogStateChange, QueueType
    <2>4. FetchType'
      BY <1>2, <2>1 DEF SyncLogStateChange, FetchType
    <2>5. RestType'
      BY <1>2, CountType DEF SyncLogStateChange
    <2> QED
      BY <1>2, <2>3, <2>4, <2>5 DEF SyncLogStateChange, DiskType, TableType, StoreType
  <1>3. ASSUME NEW a \in wanted, ActionFetch(a) PROVE TypeInv'
    <2>1. a \in Remote
      BY DEF FetchType
    <2>2. a.dev \in Device /\ a.file \in File /\ a.version \in Nat /\ a.seq \in Nat /\ a.hash \in Content \cup {NoHash}
      BY <2>1, RemoteFields DEF Content
    <2>3. files' \in [File -> FileRow]
      <3> DEFINE r == InsertRow(UpdateRow(files, a), a)
      <3>1. r \in [File -> FileRow]
        BY <2>2, RowShown DEF TableType
      <3> HIDE DEF r
      <3>2. files' = r \/ files' = files
        BY <1>3 DEF ActionFetch, r
      <3> QED
        BY <3>1, <3>2 DEF TableType
    <2>4. log' = log \cup {a}
      BY <1>3 DEF ActionFetch
    <2>5. TableType'
      BY <2>2, <2>3, <2>4, LogType DEF TableType
    <2>6. stale' \subseteq File
      BY <1>3, <2>2 DEF ActionFetch, DiskType
    <2>7. FetchType'
      BY <1>3, <2>1 DEF ActionFetch, FetchType
    <2> QED
      BY <1>3, <2>5, <2>6, <2>7 DEF ActionFetch, RestType, DiskType, QueueType, StoreType
  <1>4. ASSUME ActionFetchRequest PROVE TypeInv'
    <2>1. logged \in Remote
      BY <1>4 DEF ActionFetchRequest, FetchType
    <2> DEFINE h == logged.hash
               dev == logged.dev
    <2>2. h \in Hash /\ dev \in Device
      BY <2>1, RemoteFields
    <2>3. [do |-> "complete", hash |-> h, dev |-> dev] \in Jobs
      BY <2>2 DEF Jobs
    <2>4. [hash |-> h, dev |-> dev, lack |-> AllSegments(h, dev)]
             \in [hash : Hash, dev : Device, lack : SUBSET SegmentRow]
      BY <2>2, SegmentsType
    <2>5. up' = CanOpen /\ logged' = None
      BY <1>4 DEF ActionFetchRequest
    <2>6. jobs' = jobs \/ jobs' = Append(jobs, [do |-> "complete", hash |-> h, dev |-> dev])
      BY <1>4 DEF ActionFetchRequest
    <2>7. m_objectDbMap \subseteq m_objectDbMap' /\ m_objectDbMap' \subseteq m_objectDbMap \cup {h}
      BY <1>4 DEF ActionFetchRequest
    <2>8. fetching' \subseteq fetching \cup {[hash |-> h, dev |-> dev, lack |-> AllSegments(h, dev)]}
      BY <1>4 DEF ActionFetchRequest
    <2>9. UNCHANGED <<port, bound, disks, tables, assembly, reported, wanted, unsaved, saved, changes, history>>
      BY <1>4 DEF ActionFetchRequest
    <2>10. RestType'
      BY <2>5, <2>9 DEF RestType, CanOpen
    <2> HIDE DEF h, dev
    <2>11. QueueType'
      BY <2>3, <2>6, <2>9, QueueAppend DEF QueueType
    <2>12. FetchType'
      BY <2>4, <2>5, <2>8, <2>9 DEF FetchType
    <2>13. StoreType'
      BY <2>2, <2>7, <2>9 DEF StoreType
    <2> QED
      BY <2>9, <2>10, <2>11, <2>12, <2>13 DEF DiskType, TableType
  <1> QED
    BY <1>1, <1>2, <1>3, <1>4

\* What Did_FetchManager_FileSegmentFetch queues.
SegmentJob(s) == [do |-> "segment", s |-> s]

\* A segment that arrives is queued, after the last one the completion.
LEMMA FileSegmentFetchEffect ==
  ASSUME TypeInv, NEW x \in fetching, NEW s \in x.lack, FileSegmentFetch(x, s)
  PROVE  /\ jobs' \in Seq(Jobs)
         /\ SegmentJob(s) \in InQueue(jobs') /\ InQueue(jobs) \subseteq InQueue(jobs')
         /\ \A j \in InQueue(jobs') : j \in InQueue(jobs) \/ j = SegmentJob(s) \/ j.do = "complete"
         /\ \/ x.lack = {s} /\ fetching' = fetching \ {x}
            \/ /\ x.lack # {s}
               /\ fetching' = (fetching \ {x})
                                 \cup {[hash |-> x.hash, dev |-> x.dev, lack |-> x.lack \ {s}]}
  <1> USE DEF TypeInv
  <1> DEFINE left == [x EXCEPT !.lack = @ \ {s}]
             complete == [do |-> "complete", hash |-> x.hash, dev |-> x.dev]
  <1>1. /\ x.hash \in Hash /\ x.dev \in Device /\ x.lack \subseteq SegmentRow /\ s \in SegmentRow
        /\ left = [hash |-> x.hash, dev |-> x.dev, lack |-> x.lack \ {s}] /\ left.lack = x.lack \ {s}
    BY DEF FetchType
  <1>2. SegmentJob(s) \in Jobs /\ complete \in Jobs
    BY <1>1 DEF Jobs, SegmentJob, SegmentRow
  <1>3. IF left.lack = {}
        THEN /\ fetching' = fetching \ {x}
             /\ jobs' = jobs \o <<SegmentJob(s), complete>>
        ELSE /\ fetching' = (fetching \ {x}) \cup {left}
             /\ jobs' = Append(jobs, SegmentJob(s))
    BY DEF FileSegmentFetch, SegmentJob
  <1>4. complete.do = "complete"
    OBVIOUS
  <1> HIDE DEF left, complete
  <1>5. CASE left.lack = {}
    <2>1. Append(jobs, SegmentJob(s)) \in Seq(Jobs) /\ InQueue(Append(jobs, SegmentJob(s))) = InQueue(jobs) \cup {SegmentJob(s)}
      BY <1>2, QueueAppend DEF QueueType
    <2>2. jobs' = Append(Append(jobs, SegmentJob(s)), complete)
      <3>1. jobs \o <<SegmentJob(s), complete>> = Append(Append(jobs, SegmentJob(s)), complete)
        BY <1>2 DEF QueueType
      <3> QED
        BY <1>3, <1>5, <3>1
    <2>3. jobs' \in Seq(Jobs) /\ InQueue(jobs') = InQueue(jobs) \cup {SegmentJob(s)} \cup {complete}
      BY <1>2, <2>1, <2>2, QueueAppend
    <2> QED
      BY <1>1, <1>3, <1>4, <1>5, <2>3
  <1>6. CASE left.lack # {}
    <2>1. jobs' \in Seq(Jobs) /\ InQueue(jobs') = InQueue(jobs) \cup {SegmentJob(s)}
      BY <1>2, <1>3, <1>6, QueueAppend DEF QueueType
    <2> QED
      BY <1>1, <1>3, <1>6, <2>1
  <1> QED
    BY <1>5, <1>6

\* The jobs that m_fileFetcher causes.
LEMMA SegmentType ==
  ASSUME TypeInv
  PROVE  /\ FileSegmentExecute => TypeInv'
         /\ \A x \in fetching : \A s \in x.lack : FileSegmentFetch(x, s) => TypeInv'
  <1> USE DEF TypeInv, disks, tables, fetches, store, history
  <1>1. ASSUME FileSegmentExecute PROVE TypeInv'
    <2>1. Tail(jobs) \in Seq(Jobs) /\ Head(jobs).s \in SegmentRow
      BY <1>1, JobTaken, JobFields DEF FileSegmentExecute
    <2>2. StoreType'
      BY <1>1, <2>1 DEF FileSegmentExecute, StoreType, Save
    <2>3. QueueType'
      BY <1>1, <2>1 DEF FileSegmentExecute, QueueType
    <2> QED
      BY <1>1, <2>2, <2>3 DEF FileSegmentExecute, RestType, DiskType, TableType, FetchType
  <1>2. ASSUME NEW x \in fetching, NEW s \in x.lack, FileSegmentFetch(x, s) PROVE TypeInv'
    <2>1. QueueType'
      BY <1>2, FileSegmentFetchEffect DEF FileSegmentFetch, QueueType
    <2>2. [hash |-> x.hash, dev |-> x.dev, lack |-> x.lack \ {s}]
             \in [hash : Hash, dev : Device, lack : SUBSET SegmentRow]
      BY DEF FetchType
    <2>3. fetching' \subseteq [hash : Hash, dev : Device, lack : SUBSET SegmentRow]
      BY <1>2, <2>2, FileSegmentFetchEffect DEF FetchType
    <2>4. UNCHANGED <<port, bound, up, disks, tables, reported, wanted, logged, store, changes, history>>
      BY <1>2 DEF FileSegmentFetch
    <2>5. FetchType'
      BY <2>3, <2>4 DEF FetchType
    <2> QED
      BY <2>1, <2>4, <2>5 DEF RestType, DiskType, TableType, StoreType
  <1> QED
    BY <1>1, <1>2

\* Did_FetchManager_FileFetchComplete_Execute closes an ObjectDb and starts, or
\* leaves the store alone.
Closed(h, dev) ==
    /\ Extracted /\ Erase(h)
    /\ shared' = IF UnderWay(h) THEN shared \cup {h} ELSE shared
    /\ assembly' = [pc |-> "lookup", hash |-> h, dev |-> dev]

\* It starts when the executor is between two jobs.
LEMMA FileFetchCompleteEffect ==
  ASSUME TypeInv, FileFetchComplete
  PROVE  /\ jobs' = Tail(jobs) /\ Job("complete") /\ assembly = Idle
         /\ UNCHANGED <<port, bound, up, disk, stamp, changed, log, files, reported, wanted, logged, fetching,
                        changes, wrote, stale, skipped>>
         /\ \/ UNCHANGED <<m_objectDbMap, unsaved, saved, shared, assembly>>
            \/ \E h \in Hash, dev \in Device : Closed(h, dev)
  <1>1. Head(jobs).hash \in Hash /\ Head(jobs).dev \in Device /\ assembly = Idle
    BY JobTaken, JobFields DEF FileFetchComplete, TypeInv
  <1>2. CASE ~Extracted
    BY <1>1, <1>2 DEF FileFetchComplete, disks, tables, fetches, store
  <1>3. CASE Extracted
    BY <1>1, <1>3 DEF FileFetchComplete, Closed, disks, tables, fetches
  <1> QED
    BY <1>2, <1>3

\* The start of the job keeps the types, ...
LEMMA CompleteType ==
  ASSUME TypeInv, FileFetchComplete
  PROVE  TypeInv'
  <1> USE DEF TypeInv
  <1>1. jobs' \in Seq(Jobs)
    BY FileFetchCompleteEffect, JobTaken
  <1>2. RestType' /\ DiskType' /\ TableType' /\ FetchType'
    BY FileFetchCompleteEffect DEF RestType, DiskType, TableType, FetchType
  <1>3. CASE UNCHANGED <<m_objectDbMap, unsaved, saved, shared, assembly>>
    BY <1>1, <1>2, <1>3 DEF QueueType, StoreType
  <1>4. ASSUME NEW h \in Hash, NEW dev \in Device, Closed(h, dev) PROVE TypeInv'
    <2>1. QueueType'
      BY <1>1, <1>4 DEF Closed, QueueType, Assemblies
    <2>2. StoreType'
      BY <1>4 DEF Closed, Erase, StoreType
    <2> QED
      BY <1>2, <2>1, <2>2
  <1> QED
    BY <1>3, <1>4, FileFetchCompleteEffect

\* ... and so do the steps of its loop.
LEMMA AssembleType ==
  ASSUME TypeInv, Assemble
  PROVE  TypeInv'
  <1> USE DEF TypeInv
  <1>1. assembly \in Assemblies
    BY DEF QueueType
  <1>2. CASE AssembleLookup
    <2>1. {[file |-> f, shown |-> Shown(f)] : f \in FilesForHash(assembly.hash)} \in SUBSET Items
      BY DEF TableType, FileRow, Shown, FilesForHash, Items
    <2>2. assembly' \in Assemblies
      <3> DEFINE todo == {[file |-> f, shown |-> Shown(f)] : f \in FilesForHash(assembly.hash)}
      <3>1. assembly' = Loop(todo) /\ assembly.pc # "idle"
        BY <1>2 DEF AssembleLookup
      <3> HIDE DEF todo
      <3>2. todo \in SUBSET Items
        BY <2>1 DEF todo
      <3> QED
        BY <1>1, <3>1, <3>2, AssemblyFields, LoopType
    <2> QED
      BY <1>2, <2>2 DEF AssembleLookup, disks, tables, fetches, store, history,
                        RestType, DiskType, TableType, QueueType, FetchType, StoreType
  <1>3. ASSUME NEW item \in assembly.todo, AssembleNext(item) PROVE TypeInv'
    <2>1. /\ assembly.hash \in Hash /\ assembly.dev \in Device /\ item \in Items
          /\ assembly.todo \ {item} \in SUBSET Items
      BY <1>1, <1>3, AssemblyFields DEF AssembleNext
    <2>2. item.file \in File
      BY <2>1 DEF Items
    <2>3. assembly' \in Assemblies
      <3>1. [pc |-> "stamp", hash |-> assembly.hash, dev |-> assembly.dev,
             todo |-> assembly.todo \ {item}, item |-> item] \in Assemblies
        BY <2>1 DEF Assemblies
      <3>2. Loop(assembly.todo \ {item}) \in Assemblies
        BY <2>1, LoopType
      <3> QED
        BY <1>3, <3>1, <3>2 DEF AssembleNext
    <2>4. DiskType'
      <3> DEFINE c == ObjectsToLocalFile(saved, assembly.hash, assembly.dev)
      <3>1. c \in Content
        BY <2>1, FileContent
      <3> HIDE DEF c
      <3>2. /\ disk' = disk \/ disk' = [disk EXCEPT ![item.file] = c]
            /\ stamp' = stamp \/ stamp' = [stamp EXCEPT ![item.file] = NoStamp]
            /\ changed' \subseteq changed \cup {item.file}
            /\ skipped' \subseteq skipped \cup {item.file} /\ stale' = stale
        BY <1>3 DEF AssembleNext, disks, c
      <3> QED
        BY <2>2, <3>1, <3>2 DEF DiskType, NoStamp
    <2> QED
      BY <1>3, <2>3, <2>4 DEF AssembleNext, tables, fetches, store,
                              RestType, TableType, QueueType, FetchType, StoreType
  <1>4. CASE AssembleStamp
    <2>1. assembly.pc = "stamp" /\ assembly.item \in Items
      BY <1>1, <1>4, AssemblyFields DEF AssembleStamp
    <2>2. assembly.item.file \in File /\ assembly.item.shown \in (Device \cup {0}) \X Nat
      BY <2>1 DEF Items
    <2>3. assembly' \in Assemblies
      <3>1. [assembly EXCEPT !.pc = "mark"] =
               [pc |-> "mark", hash |-> assembly.hash, dev |-> assembly.dev,
                todo |-> assembly.todo, item |-> assembly.item]
        <4> DEFINE a == assembly
        <4>1. a = [pc |-> a.pc, hash |-> a.hash, dev |-> a.dev, todo |-> a.todo, item |-> a.item]
          BY <1>1, <2>1, AssemblyFields
        <4> HIDE DEF a
        <4>2. [a EXCEPT !.pc = "mark"] =
                 [pc |-> "mark", hash |-> a.hash, dev |-> a.dev, todo |-> a.todo, item |-> a.item]
          BY <4>1
        <4> QED
          BY <4>2 DEF a
      <3>2. [pc |-> "mark", hash |-> assembly.hash, dev |-> assembly.dev,
             todo |-> assembly.todo, item |-> assembly.item] \in Assemblies
        BY <1>1, <2>1, AssemblyFields DEF Assemblies
      <3>3. assembly' = assembly \/ assembly' = [assembly EXCEPT !.pc = "mark"]
        BY <1>4 DEF AssembleStamp
      <3> QED
        BY <1>1, <3>1, <3>2, <3>3
    <2>4. DiskType' /\ up' \in BOOLEAN
      BY <1>4, <2>2 DEF AssembleStamp, DiskType, RestType, history
    <2> QED
      BY <1>4, <2>3, <2>4 DEF AssembleStamp, tables, fetches, store, history,
                              RestType, TableType, QueueType, FetchType, StoreType
  <1>5. CASE AssembleMark
    <2>1. /\ assembly.hash \in Hash /\ assembly.dev \in Device /\ assembly.todo \in SUBSET Items
          /\ assembly.item \in Items
      BY <1>1, <1>5, AssemblyFields DEF AssembleMark
    <2>2. assembly.item.file \in File
      BY <2>1 DEF Items
    <2>3. assembly' \in Assemblies
      BY <1>5, <2>1, LoopType DEF AssembleMark
    <2>4. files' \in [File -> FileRow] /\ stale' \subseteq File
      BY <1>5, <2>2, CompletedRow DEF AssembleMark, TableType, DiskType
    <2> QED
      BY <1>5, <2>3, <2>4 DEF AssembleMark, disks, fetches, store,
                              RestType, DiskType, TableType, QueueType, FetchType, StoreType
  <1> QED
    BY <1>2, <1>3, <1>4, <1>5 DEF Assemble

\* Every step keeps the types.
LEMMA NextType == TypeInv /\ [Next]_vars => TypeInv'
  <1> SUFFICES ASSUME TypeInv, [Next]_vars PROVE TypeInv'
    OBVIOUS
  <1>1. CASE UNCHANGED vars
    BY <1>1 DEF vars, disks, tables, fetches, store, history, TypeInv, RestType, DiskType, TableType,
                QueueType, FetchType, StoreType
  <1>2. CASE Execute
    BY <1>2, LocalType, ActionType, SegmentType, CompleteType, AssembleType DEF Execute
  <1>3. CASE Fetch
    BY <1>3, ActionType, SegmentType DEF Fetch
  <1> QED
    BY <1>1, <1>2, <1>3, UserType, ActionType DEF Next

-----------------------------------------------------------------------------
(* What is on disk, and what is logged.                                     *)

\* A step that leaves rows and folder alone leaves both facts alone.
LEMMA FolderFrame ==
  ASSUME NoEcho, DiskKnown, UNCHANGED <<disk, files, log>>,
         wrote \subseteq wrote', stale \subseteq stale', shared \subseteq shared', UNCHANGED port,
         UNCHANGED assembly \/ assembly.pc \notin {"stamp", "mark"}
  PROVE  NoEcho' /\ DiskKnown'
  BY DEF NoEcho, DiskKnown, InHand

\* Every step keeps them.  A row that no longer says what is on disk belongs to a
\* file that a remote update has marked stale, or was incomplete before.
LEMMA FolderNext ==
  ASSUME TypeInv, NoEcho, AssembledIsWhole, DiskKnown, [Next]_vars
  PROVE  NoEcho' /\ DiskKnown'
  <1> USE DEF TypeInv, disks, tables, fetches, store, history
  <1>1. CASE UNCHANGED vars
    BY <1>1, FolderFrame DEF vars
  <1>2. ASSUME NEW f \in File, NEW h \in Hash \cup {NoHash}, NEW t \in Stamps(f, h), UserEdit(f, h, t)
        PROVE  NoEcho' /\ DiskKnown'
    <2>1. NoEcho'
      BY <1>2 DEF UserEdit, NoEcho
    <2>2. DiskKnown'
      BY <1>2 DEF UserEdit, DiskKnown, DiskType, InHand
    <2> QED
      BY <2>1, <2>2
  <1>3. ASSUME NEW f \in File, UserTouch(f) \/ Report(f) PROVE NoEcho' /\ DiskKnown'
    BY <1>3, FolderFrame DEF UserTouch, Report
  <1>4. ASSUME NEW dev \in Device \ {Local}, NEW seq, SyncLogStateChange(dev, seq)
        PROVE  NoEcho' /\ DiskKnown'
    BY <1>4, FolderFrame DEF SyncLogStateChange
  <1>5. CASE LocalFileModify
    <2>1. UNCHANGED <<port, disk, assembly, wrote, stale, shared>> /\ assembly.pc = "idle"
      BY <1>5 DEF LocalFileModify, Job, Idle
    <2>2. CASE UNCHANGED <<saved, log, files, stamp>>
      BY <2>1, <2>2, FolderFrame
    <2>3. CASE \E f \in File, n \in Nat, v \in Nat : Edited(f, n, v)
      <3>1. PICK f \in File, n \in Nat, v \in Nat : Edited(f, n, v)
        BY <2>3
      <3>2. DiskKnown'
        BY <2>1, <3>1 DEF Edited, DiskKnown, InHand
      <3>3. \/ <<f, disk[f]>> \in wrote \/ f \in stale
            \/ disk[f] = Torn /\ shared # {}
            \/ disk[f] = Padded /\ "sized" \notin port
        BY <2>1, <3>1 DEF Edited, Accepts, FromFileContent, DiskKnown, InHand, AssembledIsWhole
      <3>4. NoEcho'
        BY <2>1, <3>1, <3>3 DEF Edited, NoEcho
      <3> QED
        BY <3>2, <3>4
    <2> QED
      BY <1>5, <2>2, <2>3, LocalFileModifyEffect
  <1>6. CASE LocalFileDelete
    <2> DEFINE f == Head(jobs).file
               a == LocalAction("delete", f, NoHash)
    <2>1. f \in File /\ UNCHANGED <<port, disk, assembly, wrote, stale, shared>>
      BY <1>6, JobTaken, JobFields DEF LocalFileDelete
    <2>2. CASE UNCHANGED tables
      BY <2>1, <2>2, FolderFrame
    <2>3. CASE ~UNCHANGED tables
      <3>1. disk[f] = NoHash /\ log' = log \cup {a} /\ files' = DeleteFile(files, f)
        BY <1>6, <2>3 DEF LocalFileDelete
      <3>2. a.act = "delete"
        BY DEF LocalAction
      <3> HIDE DEF f, a
      <3>3. NoEcho'
        BY <2>1, <3>1, <3>2 DEF NoEcho
      <3>4. DiskKnown'
        BY <2>1, <3>1 DEF DiskKnown, DeleteFile, TableType, InHand
      <3> QED
        BY <3>3, <3>4
    <2> QED
      BY <2>2, <2>3
  <1>7. CASE ActionApplyDelete
    <2>1. disk' = [disk EXCEPT ![Head(jobs).file] = NoHash] /\ UNCHANGED <<port, assembly, log, files, wrote, stale, shared>>
      BY <1>7 DEF ActionApplyDelete
    <2> QED
      BY <2>1 DEF NoEcho, DiskKnown, DiskType, InHand
  <1>8. CASE StateChangeExecute \/ FileSegmentExecute
    BY <1>8, FolderFrame DEF StateChangeExecute, FileSegmentExecute
  <1>9. CASE FileFetchComplete
    <2>1. shared \subseteq shared'
      BY <1>9, FileFetchCompleteEffect DEF Closed
    <2> QED
      BY <1>9, <2>1, FileFetchCompleteEffect, FolderFrame DEF Idle
  <1>10. CASE AssembleLookup
    BY <1>10, FolderFrame DEF AssembleLookup
  <1>11. ASSUME NEW item \in assembly.todo, AssembleNext(item) PROVE NoEcho' /\ DiskKnown'
    <2> DEFINE f == item.file
    <2>1. /\ assembly.pc = "next" /\ UNCHANGED <<port, log, files, wrote, stale, shared>>
          /\ assembly.hash \in Hash /\ item \in Items
      BY <1>11, AssemblyFields DEF AssembleNext, QueueType
    <2>2. CASE UNCHANGED disk
      BY <2>1, <2>2, FolderFrame
    <2>3. CASE ~UNCHANGED disk
      <3> DEFINE c == ObjectsToLocalFile(saved, assembly.hash, assembly.dev)
      <3>1. f \in File /\ c \in {assembly.hash, Torn, Padded}
        BY <2>1, FileContent DEF Items
      <3>2. /\ disk' = [disk EXCEPT ![f] = c]
            /\ assembly' = [pc |-> "stamp", hash |-> assembly.hash, dev |-> assembly.dev,
                            todo |-> assembly.todo \ {item}, item |-> item]
        BY <1>11, <2>3 DEF AssembleNext, disks
      <3>3. assembly'.pc = "stamp" /\ assembly'.item = item /\ assembly'.hash = assembly.hash
        BY <3>2
      <3> HIDE DEF c
      <3>4. NoEcho'
        BY <2>1 DEF NoEcho
      <3>5. disk'[f] = c /\ \A g \in File \ {f} : disk'[g] = disk[g]
        BY <3>1, <3>2 DEF DiskType
      <3>6. disk'[f] \in {Torn, Padded} \/ InHand(f)'
        BY <3>1, <3>3, <3>5 DEF InHand
      <3>7. DiskKnown'
        BY <2>1, <3>5, <3>6 DEF DiskKnown, InHand
      <3> QED
        BY <3>4, <3>7
    <2> QED
      BY <2>2, <2>3
  <1>12. CASE AssembleStamp
    <2>1. UNCHANGED <<port, disk, log, files, wrote, stale, shared>>
      BY <1>12 DEF AssembleStamp
    <2>2. /\ assembly.pc \in {"stamp", "mark"}
          /\ assembly'.pc \in {"stamp", "mark"} /\ assembly'.item = assembly.item /\ assembly'.hash = assembly.hash
      <3> DEFINE a == assembly
      <3>1. /\ a.pc = "stamp"
            /\ a = [pc |-> a.pc, hash |-> a.hash, dev |-> a.dev, todo |-> a.todo, item |-> a.item]
        BY <1>12, AssemblyFields DEF AssembleStamp, QueueType
      <3>2. assembly' = a \/ assembly' = [a EXCEPT !.pc = "mark"]
        BY <1>12 DEF AssembleStamp
      <3> HIDE DEF a
      <3>3. [a EXCEPT !.pc = "mark"] = [pc |-> "mark", hash |-> a.hash, dev |-> a.dev, todo |-> a.todo, item |-> a.item]
        BY <3>1
      <3>4. /\ assembly'.pc \in {"stamp", "mark"} /\ assembly'.item = a.item /\ assembly'.hash = a.hash
        BY <3>1, <3>2, <3>3
      <3> QED
        BY <3>1, <3>4 DEF a
    <2> QED
      BY <2>1, <2>2 DEF NoEcho, DiskKnown, InHand
  <1>13. CASE AssembleMark
    <2> DEFINE f == assembly.item.file
    <2>1. f \in File /\ assembly.hash \in Hash
      BY <1>13, AssemblyFields DEF AssembleMark, QueueType, Items
    <2>2. /\ files' = SetFileComplete(files, f) /\ stale \subseteq stale'
          /\ files[f].hash = assembly.hash \/ f \in stale'
          /\ UNCHANGED <<port, disk, log, wrote, shared>>
      BY <1>13 DEF AssembleMark
    <2>3. /\ \A g \in File \ {f} : files'[g] = files[g]
          /\ files'[f].hash = files[f].hash
          /\ Exists(files, f) => files'[f].complete
      BY <2>1, <2>2, CompletedRow DEF TableType
    <2>4. files[f].hash = assembly.hash => Exists(files, f)
      BY <2>1, HashAssumption DEF Exists, NoRow, HashAssumption
    <2>5. \A g \in File \ {f} : ~InHand(g)
      BY DEF InHand
    <2>6. InHand(f) => f \in stale' \/ (files'[f].hash = disk'[f] /\ files'[f].complete)
      BY <2>2, <2>3, <2>4 DEF InHand
    <2>7. files[f].complete => Exists(files, f)
      BY DEF Exists, NoRow
    <2> HIDE DEF f
    <2>8. NoEcho'
      BY <2>2 DEF NoEcho
    <2>9. DiskKnown'
      BY <2>2, <2>3, <2>5, <2>6, <2>7 DEF DiskKnown
    <2> QED
      BY <2>8, <2>9
  <1>14. ASSUME NEW a \in wanted, ActionFetch(a) PROVE NoEcho' /\ DiskKnown'
    <2>1. a \in Remote /\ UNCHANGED <<port, disk, assembly, wrote, shared>> /\ log' = log \cup {a} /\ stale \subseteq stale'
      BY <1>14 DEF ActionFetch, FetchType
    <2>2. NoEcho'
      BY <2>1, RemoteFields DEF NoEcho
    <2>3. DiskKnown'
      <3>1. CASE UNCHANGED files
        BY <2>1, <3>1 DEF DiskKnown, InHand
      <3>2. CASE ~UNCHANGED files
        <4> DEFINE r == InsertRow(UpdateRow(files, a), a)
        <4>1. a.dev \in Device /\ a.seq \in Nat /\ a.version \in Nat /\ a.hash \in Content \cup {NoHash} /\ a.file \in File
          BY <2>1, RemoteFields DEF Content
        <4>2. \A f \in File \ {a.file} : r[f] = files[f]
          BY <4>1, RowShown DEF TableType
        <4>3. files[a.file].complete => a.file \in stale'
          BY <1>14, <3>2 DEF ActionFetch
        <4> HIDE DEF r
        <4>4. files' = r
          BY <1>14, <3>2 DEF r, ActionFetch
        <4> QED
          BY <2>1, <4>1, <4>2, <4>3, <4>4 DEF DiskKnown, InHand
      <3> QED
        BY <3>1, <3>2
    <2> QED
      BY <2>2, <2>3
  <1>15. CASE ActionFetchRequest
    BY <1>15, FolderFrame DEF ActionFetchRequest
  <1>16. ASSUME NEW x \in fetching, NEW s \in x.lack, FileSegmentFetch(x, s) PROVE NoEcho' /\ DiskKnown'
    BY <1>16, FolderFrame DEF FileSegmentFetch
  <1> QED
    BY <1>1, <1>2, <1>3, <1>4, <1>5, <1>6, <1>7, <1>8, <1>9, <1>10, <1>11, <1>12, <1>13,
       <1>14, <1>15, <1>16 DEF Next, Execute, Fetch, Assemble

-----------------------------------------------------------------------------
(* The segment store.                                                       *)

\* What SavedWhole, OpenUnderWay, FetchedArrived and GroupArrived are about.
LEMMA StoreFrame ==
  ASSUME StoreSound, UNCHANGED <<port, saved, unsaved, fetching, m_objectDbMap>>,
         shared \subseteq shared', up' => up,
         \A j \in InQueue(jobs) \cup InQueue(jobs') :
             j.do = "segment" => (j \in InQueue(jobs) <=> j \in InQueue(jobs'))
  PROVE  StoreSound'
  <1>1. \A s : Arrived(s)' <=> Arrived(s)
    BY DEF Arrived, Queued
  <1>2. \A h : UnderWay(h)' <=> UnderWay(h)
    BY DEF UnderWay, InQueue
  <1> SUFFICES ASSUME shared' = {} PROVE SavedWhole' /\ (Extracted' => OpenUnderWay' /\ FetchedArrived' /\ GroupArrived')
    BY DEF StoreSound
  <1>3. SavedWhole /\ (Extracted => OpenUnderWay /\ FetchedArrived /\ GroupArrived)
    BY DEF StoreSound
  <1>4. SavedWhole'
    BY <1>3 DEF SavedWhole, AllSegments
  <1>5. SUFFICES ASSUME Extracted PROVE OpenUnderWay' /\ FetchedArrived' /\ GroupArrived'
    BY <1>4 DEF Extracted
  <1>6. OpenUnderWay'
    BY <1>2, <1>3, <1>5 DEF OpenUnderWay
  <1>7. FetchedArrived'
    BY <1>1, <1>3, <1>5 DEF FetchedArrived, AllSegments
  <1>8. GroupArrived'
    BY <1>1, <1>3, <1>5 DEF GroupArrived, AllSegments
  <1> QED
    BY <1>6, <1>7, <1>8

\* Jobs of the other kinds carry no segment.
LEMMA StoreFrameAppend ==
  ASSUME StoreSound, jobs \in Seq(Jobs), NEW j \in Jobs, j.do # "segment", jobs' = Append(jobs, j),
         UNCHANGED <<port, saved, unsaved, fetching, m_objectDbMap>>,
         shared \subseteq shared', up' => up
  PROVE  StoreSound'
  BY QueueAppend, StoreFrame

\* So is it when a job of such a kind is taken.
LEMMA StoreFrameTail ==
  ASSUME StoreSound, QueueType, NEW what, Job(what), what \in {"modify", "delete", "remove", "state", "complete"},
         jobs' = Tail(jobs),
         UNCHANGED <<port, saved, unsaved, fetching, m_objectDbMap>>,
         shared \subseteq shared', up' => up
  PROVE  StoreSound'
  BY JobTaken, StoreFrame

\* Nothing is stored yet.
LEMMA InitStore == Init => StoreSound
  <1> SUFFICES ASSUME Init PROVE StoreSound
    OBVIOUS
  <1>1. InQueue(jobs) = {} /\ \A h : ~UnderWay(h)
    BY DEF Init, InQueue, UnderWay
  <1>2. \A s : ~Arrived(s)
    BY <1>1 DEF Init, Arrived, Queued
  <1> QED
    BY <1>1, <1>2 DEF Init, StoreSound, SavedWhole, OpenUnderWay, FetchedArrived, GroupArrived

\* A content is under way when it is fetched or its segments are queued.
LEMMA UnderWayQueued ==
  ASSUME QueueType, NEW h
  PROVE  UnderWay(h) <=> \/ \E x \in fetching : x.hash = h
                         \/ \E j \in InQueue(jobs) : j.do = "segment" /\ j.s.hash = h
  BY DEF UnderWay, InQueue

\* An edit is stored as a whole, beside what others have stored.
LEMMA EditedStore ==
  ASSUME TypeInv, StoreSound, LocalFileModify,
         NEW h \in Hash, saved' = saved \cup AllSegments(h, Local)
  PROVE  StoreSound'
  <1> USE DEF TypeInv
  <1>1. Local \in Device
    BY DispatcherAssumption DEF DispatcherAssumption
  <1>2. /\ jobs' = Tail(jobs) /\ UNCHANGED <<port, fetching, m_objectDbMap, unsaved, shared>> /\ up
    BY DEF LocalFileModify, Job, fetches, history
  <1>3. Head(jobs).do = "modify" /\ InQueue(jobs) = InQueue(jobs') \cup {Head(jobs)} /\ QueueType'
    BY <1>2, JobTaken DEF LocalFileModify, QueueType
  <1>4. \A s : Queued(s)' <=> Queued(s)
    BY <1>3 DEF Queued
  <1>5. \A s : Arrived(s)' <=> Arrived(s) \/ s \in AllSegments(h, Local)
    BY <1>2, <1>4 DEF Arrived
  <1>6. \A g \in Hash : UnderWay(g)' <=> UnderWay(g)
    <2>1. \A g : UnderWay(g) <=> \/ \E x \in fetching : x.hash = g
                                 \/ \E j \in InQueue(jobs) : j.do = "segment" /\ j.s.hash = g
      BY UnderWayQueued
    <2>2. \A g : UnderWay(g)' <=> \/ \E x \in fetching' : x.hash = g
                                  \/ \E j \in InQueue(jobs') : j.do = "segment" /\ j.s.hash = g
      BY <1>3 DEF UnderWay, InQueue
    <2> QED
      BY <1>2, <1>3, <2>1, <2>2
  <1> SUFFICES ASSUME shared = {} PROVE SavedWhole' /\ (Extracted => OpenUnderWay' /\ FetchedArrived' /\ GroupArrived')
    BY <1>2 DEF StoreSound, Extracted
  <1>7. SavedWhole /\ (Extracted => OpenUnderWay /\ FetchedArrived /\ GroupArrived)
    BY DEF StoreSound
  <1>8. SavedWhole'
    BY <1>1, <1>7, SegmentsType DEF SavedWhole
  <1> SUFFICES ASSUME Extracted PROVE OpenUnderWay' /\ FetchedArrived' /\ GroupArrived'
    BY <1>8
  <1>9. OpenUnderWay'
    BY <1>2, <1>6, <1>7 DEF OpenUnderWay
  <1>10. FetchedArrived'
    BY <1>2, <1>5, <1>7 DEF FetchedArrived
  <1>11. GroupArrived'
    BY <1>1, <1>2, <1>5, <1>7, SegmentsType DEF GroupArrived
  <1> QED
    BY <1>9, <1>10, <1>11

\* A queued segment is saved, for its ObjectDb is open.
LEMMA SegmentExecuteStore ==
  ASSUME TypeInv, StoreSound, FileSegmentExecute
  PROVE  StoreSound'
  <1> USE DEF TypeInv
  <1> DEFINE s == Head(jobs).s
  <1>1. /\ jobs' = Tail(jobs) /\ UNCHANGED <<port, up, fetching, m_objectDbMap, saved, shared>> /\ up
        /\ unsaved' = IF Extracted /\ s.hash \in m_objectDbMap THEN Save(s) ELSE unsaved
    BY DEF FileSegmentExecute, Job, fetches, history
  <1>2. /\ Head(jobs) \in Jobs /\ Head(jobs).do = "segment" /\ InQueue(jobs) = InQueue(jobs') \cup {Head(jobs)}
        /\ QueueType' /\ s \in SegmentRow
    BY <1>1, JobTaken, JobFields DEF FileSegmentExecute, QueueType
  <1>3. \A t : Queued(t) <=> Queued(t)' \/ t = s
    BY <1>2 DEF Queued
  <1>4. \A g : UnderWay(g)' => UnderWay(g)
    <2>1. \A g : UnderWay(g)' <=> \/ \E x \in fetching' : x.hash = g
                                  \/ \E j \in InQueue(jobs') : j.do = "segment" /\ j.s.hash = g
      BY <1>2 DEF UnderWay, InQueue
    <2> QED
      BY <1>1, <1>2, <2>1, UnderWayQueued
  <1>5. UnderWay(s.hash) /\ s.hash \in Hash
    BY <1>2, UnderWayQueued DEF SegmentRow
  <1> SUFFICES ASSUME shared = {} PROVE SavedWhole' /\ (Extracted => OpenUnderWay' /\ FetchedArrived' /\ GroupArrived')
    BY <1>1 DEF StoreSound, Extracted
  <1>6. SavedWhole /\ (Extracted => OpenUnderWay /\ FetchedArrived /\ GroupArrived)
    BY DEF StoreSound
  <1>7. SavedWhole'
    BY <1>1, <1>6 DEF SavedWhole
  <1> SUFFICES ASSUME Extracted PROVE OpenUnderWay' /\ FetchedArrived' /\ GroupArrived'
    BY <1>7
  <1>8. unsaved' = unsaved \cup {s}
    BY <1>1, <1>5, <1>6 DEF OpenUnderWay, Save
  <1>9. \A t : Arrived(t)' <=> Arrived(t)
    BY <1>1, <1>3, <1>8 DEF Arrived
  <1>10. OpenUnderWay'
    BY <1>1, <1>4, <1>6 DEF OpenUnderWay
  <1>11. FetchedArrived'
    BY <1>1, <1>6, <1>9 DEF FetchedArrived
  <1>12. GroupArrived'
    BY <1>1, <1>6, <1>9 DEF GroupArrived
  <1> QED
    BY <1>10, <1>11, <1>12

\* The segments of a content that is no longer under way have all been saved, and
\* closing its ObjectDb commits them.
LEMMA CompleteStore ==
  ASSUME TypeInv, StoreSound, FileFetchComplete
  PROVE  StoreSound'
  <1> USE DEF TypeInv
  <1>1. /\ jobs' = Tail(jobs) /\ UNCHANGED <<port, up, fetching>>
        /\ InQueue(jobs) = InQueue(jobs') \cup {Head(jobs)} /\ Head(jobs).do = "complete"
    BY FileFetchCompleteEffect, JobTaken
  <1>2. CASE UNCHANGED <<m_objectDbMap, unsaved, saved, shared, assembly>>
    BY <1>1, <1>2, StoreFrame
  <1>3. ASSUME NEW h \in Hash, NEW dev \in Device, Closed(h, dev) PROVE StoreSound'
    <2>1. /\ Extracted
          /\ shared' = IF UnderWay(h) THEN shared \cup {h} ELSE shared
      BY <1>3 DEF Closed
    <2>2. /\ m_objectDbMap' = m_objectDbMap \ {h}
          /\ unsaved' = {s \in unsaved : s.hash # h}
          /\ saved' = saved \cup {s \in unsaved : s.hash = h}
      BY <1>3 DEF Closed, Erase
    <2>3. CASE shared' # {}
      BY <2>3 DEF StoreSound
    <2>4. CASE shared' = {}
      <3>1. ~UnderWay(h) /\ shared = {}
        BY <2>1, <2>4
      <3>2. SavedWhole /\ OpenUnderWay /\ FetchedArrived /\ GroupArrived
        BY <2>1, <3>1 DEF StoreSound
      <3>3. \A s : Queued(s)' <=> Queued(s)
        BY <1>1 DEF Queued
      <3>4. \A s : Arrived(s)' <=> Arrived(s)
        BY <2>2, <3>3 DEF Arrived
      <3>5. \A g : UnderWay(g)' => UnderWay(g)
        <4>1. \A g : UnderWay(g)' <=> \/ \E x \in fetching' : x.hash = g
                                      \/ \E j \in InQueue(jobs') : j.do = "segment" /\ j.s.hash = g
          BY DEF UnderWay, InQueue
        <4> QED
          BY <1>1, <4>1, UnderWayQueued
      <3>6. \A s \in SegmentRow : s.hash = h /\ Arrived(s) => s \in saved'
        <4>1. \A s : s.hash = h => ~Queued(s)
          BY <3>1, UnderWayQueued DEF Queued
        <4> QED
          BY <2>2, <4>1 DEF Arrived
      <3>7. SavedWhole'
        <4> SUFFICES ASSUME NEW s \in saved' PROVE AllSegments(s.hash, s.dev) \subseteq saved'
          BY DEF SavedWhole
        <4>1. CASE s \in saved
          BY <2>2, <3>2, <4>1 DEF SavedWhole
        <4>2. CASE s \notin saved
          <5>1. s \in unsaved /\ s.hash = h /\ s \in SegmentRow
            BY <2>2, <4>2 DEF StoreType
          <5>2. s.dev \in Device
            BY <5>1 DEF SegmentRow
          <5>3. Arrived(s) /\ ~\E x \in fetching : x.hash = h
            BY <3>1, <5>1, UnderWayQueued DEF Arrived
          <5>4. \A t \in AllSegments(h, s.dev) : Arrived(t)
            BY <3>2, <5>1, <5>3 DEF GroupArrived
          <5> QED
            BY <3>6, <5>1, <5>2, <5>4, SegmentsType
        <4> QED
          BY <4>1, <4>2
      <3>8. OpenUnderWay'
        BY <1>1, <2>2, <3>1, <3>2, <3>5 DEF OpenUnderWay
      <3>9. FetchedArrived' /\ GroupArrived'
        BY <1>1, <3>2, <3>4 DEF FetchedArrived, GroupArrived
      <3> QED
        BY <3>7, <3>8, <3>9 DEF StoreSound
    <2> QED
      BY <2>3, <2>4
  <1> QED
    BY <1>2, <1>3, FileFetchCompleteEffect

\* The request for a file opens an ObjectDb and lacks every segment.
LEMMA FetchRequestStore ==
  ASSUME TypeInv, StoreSound, ActionFetchRequest
  PROVE  StoreSound'
  <1> USE DEF TypeInv
  <1> DEFINE h == logged.hash
             dev == logged.dev
             x == [hash |-> h, dev |-> dev, lack |-> AllSegments(h, dev)]
             complete == [do |-> "complete", hash |-> h, dev |-> dev]
  <1>1. h \in Hash /\ dev \in Device
    BY RemoteFields DEF ActionFetchRequest, FetchType
  <1>2. /\ up' = CanOpen /\ up /\ UNCHANGED <<port, saved, unsaved, shared>>
        /\ \/ jobs' = Append(jobs, complete) /\ UNCHANGED <<m_objectDbMap, fetching>>
           \/ /\ m_objectDbMap' = IF CanOpen THEN m_objectDbMap \cup {h} ELSE m_objectDbMap
              /\ fetching' = fetching \cup {x}
              /\ UNCHANGED jobs
    BY DEF ActionFetchRequest, history
  <1>3. complete \in Jobs /\ complete.do # "segment"
    BY <1>1 DEF Jobs
  <1>4. x.hash = h /\ x.dev = dev /\ x.lack = AllSegments(h, dev)
    OBVIOUS
  <1> HIDE DEF h, dev, x, complete
  <1>5. CASE jobs' = Append(jobs, complete) /\ UNCHANGED <<m_objectDbMap, fetching>>
    BY <1>2, <1>3, <1>5, StoreFrameAppend DEF QueueType
  <1>6. CASE /\ m_objectDbMap' = IF CanOpen THEN m_objectDbMap \cup {h} ELSE m_objectDbMap
             /\ fetching' = fetching \cup {x}
             /\ UNCHANGED jobs
    <2>1. \A s : Arrived(s)' <=> Arrived(s)
      BY <1>2, <1>6 DEF Arrived, Queued
    <2>2. \A g : UnderWay(g)' => UnderWay(g) \/ g = h
      BY <1>4, <1>6 DEF UnderWay
    <2> SUFFICES ASSUME shared = {} PROVE SavedWhole' /\ (Extracted => OpenUnderWay' /\ FetchedArrived' /\ GroupArrived')
      BY <1>2 DEF StoreSound, Extracted
    <2>3. SavedWhole /\ (Extracted => OpenUnderWay /\ FetchedArrived /\ GroupArrived)
      BY DEF StoreSound
    <2>4. SavedWhole'
      BY <1>2, <2>3 DEF SavedWhole
    <2> SUFFICES ASSUME Extracted PROVE OpenUnderWay' /\ FetchedArrived' /\ GroupArrived'
      BY <2>4
    <2>5. OpenUnderWay'
      BY <1>2, <1>6, <2>2, <2>3 DEF OpenUnderWay
    <2>6. FetchedArrived'
      BY <1>1, <1>4, <1>6, <2>1, <2>3, SegmentsType DEF FetchedArrived
    <2>7. GroupArrived'
      BY <1>6, <2>1, <2>3 DEF GroupArrived
    <2> QED
      BY <2>5, <2>6, <2>7
  <1> QED
    BY <1>2, <1>5, <1>6

\* A segment that is no longer lacking is queued, and the fetch of a content ends
\* with the last one.
LEMMA SegmentFetchStore ==
  ASSUME TypeInv, StoreSound, NEW x \in fetching, NEW s \in x.lack, FileSegmentFetch(x, s)
  PROVE  StoreSound'
  <1> USE DEF TypeInv
  <1> DEFINE left == [hash |-> x.hash, dev |-> x.dev, lack |-> x.lack \ {s}]
  <1>1. x.hash \in Hash /\ x.dev \in Device
    BY DEF FetchType
  <1>2. UNCHANGED <<port, up, saved, unsaved, m_objectDbMap, shared>> /\ up
    BY DEF FileSegmentFetch, store, history
  <1>3. /\ SegmentJob(s) \in InQueue(jobs') /\ InQueue(jobs) \subseteq InQueue(jobs')
        /\ \A j \in InQueue(jobs') : j \in InQueue(jobs) \/ j = SegmentJob(s) \/ j.do = "complete"
        /\ \/ x.lack = {s} /\ fetching' = fetching \ {x}
           \/ x.lack # {s} /\ fetching' = (fetching \ {x}) \cup {left}
    BY FileSegmentFetchEffect
  <1>4. SegmentJob(s).do = "segment" /\ SegmentJob(s).s = s
    BY DEF SegmentJob
  <1>5. left.hash = x.hash /\ left.dev = x.dev /\ left.lack = x.lack \ {s}
    OBVIOUS
  <1> HIDE DEF left
  <1>6. \A t : Queued(t)' <=> Queued(t) \/ t = s
    BY <1>3, <1>4 DEF Queued
  <1>7. \A t : Arrived(t)' <=> Arrived(t) \/ t = s
    BY <1>2, <1>6 DEF Arrived
  <1> SUFFICES ASSUME shared = {} PROVE SavedWhole' /\ (Extracted => OpenUnderWay' /\ FetchedArrived' /\ GroupArrived')
    BY <1>2 DEF StoreSound, Extracted
  <1>8. SavedWhole /\ (Extracted => OpenUnderWay /\ FetchedArrived /\ GroupArrived)
    BY DEF StoreSound
  <1>9. SavedWhole'
    BY <1>2, <1>8 DEF SavedWhole
  <1> SUFFICES ASSUME Extracted PROVE OpenUnderWay' /\ FetchedArrived' /\ GroupArrived'
    BY <1>9
  <1>10. s \in AllSegments(x.hash, x.dev) /\ s.hash = x.hash /\ s.dev = x.dev
    BY <1>1, <1>8, SegmentsType DEF FetchedArrived
  <1>11. \A g : UnderWay(g)' => UnderWay(g)
    <2>1. \A g : UnderWay(g)' <=> \/ \E y \in fetching' : y.hash = g
                                  \/ \E j \in InQueue(jobs') : j.do = "segment" /\ j.s.hash = g
      BY DEF UnderWay, InQueue
    <2>2. \A y \in fetching' : \E z \in fetching : y.hash = z.hash
      BY <1>3, <1>5
    <2>3. \A j \in InQueue(jobs') : j.do = "segment" => j \in InQueue(jobs) \/ j.s.hash = x.hash
      BY <1>3, <1>4, <1>10
    <2> QED
      BY <2>1, <2>2, <2>3, UnderWayQueued
  <1>12. OpenUnderWay'
    BY <1>2, <1>8, <1>11 DEF OpenUnderWay
  <1>13. FetchedArrived'
    <2>1. ASSUME NEW y \in fetching', y \in fetching
          PROVE  /\ y.lack # {} /\ y.lack \subseteq AllSegments(y.hash, y.dev)
                 /\ \A t \in AllSegments(y.hash, y.dev) \ y.lack : Arrived(t)'
      BY <1>7, <1>8, <2>1 DEF FetchedArrived
    <2>2. ASSUME x.lack # {s}
          PROVE  /\ left.lack # {} /\ left.lack \subseteq AllSegments(left.hash, left.dev)
                 /\ \A t \in AllSegments(left.hash, left.dev) \ left.lack : Arrived(t)'
      BY <1>5, <1>7, <1>8, <2>2 DEF FetchedArrived
    <2> QED
      BY <1>3, <2>1, <2>2 DEF FetchedArrived
  <1>14. GroupArrived'
    <2> SUFFICES ASSUME NEW t \in SegmentRow, Arrived(t)'
                 PROVE  \/ \A u \in AllSegments(t.hash, t.dev) : Arrived(u)'
                        \/ \E y \in fetching' : y.hash = t.hash /\ y.dev = t.dev
      BY DEF GroupArrived
    <2>1. CASE x.lack # {s}
      <3>1. \A y \in fetching : \E z \in fetching' : y.hash = z.hash /\ y.dev = z.dev
        BY <1>3, <1>5, <2>1
      <3>2. Arrived(t) \/ (t.hash = x.hash /\ t.dev = x.dev)
        BY <1>7, <1>10
      <3> QED
        BY <1>7, <1>8, <3>1, <3>2 DEF GroupArrived
    <2>2. CASE x.lack = {s}
      <3>1. \A u \in AllSegments(x.hash, x.dev) : Arrived(u)'
        BY <1>7, <1>8, <2>2 DEF FetchedArrived
      <3>2. CASE t.hash = x.hash /\ t.dev = x.dev
        BY <3>1, <3>2
      <3>3. CASE ~(t.hash = x.hash /\ t.dev = x.dev)
        <4>1. Arrived(t)
          BY <1>7, <1>10, <3>3
        <4>2. fetching' = fetching \ {x}
          BY <1>3, <2>2
        <4> QED
          BY <1>7, <1>8, <3>3, <4>1, <4>2 DEF GroupArrived
      <3> QED
        BY <3>2, <3>3
    <2> QED
      BY <2>1, <2>2
  <1> QED
    BY <1>12, <1>13, <1>14

\* Every step keeps what is stored whole.
LEMMA StoreNext ==
  ASSUME TypeInv, AssembledIsWhole, StoreSound, [Next]_vars
  PROVE  StoreSound'
  <1> USE DEF TypeInv, disks, tables, fetches, store, history
  <1>1. CASE UNCHANGED vars
    BY <1>1, StoreFrame DEF vars
  <1>2. ASSUME NEW f \in File, UserTouch(f) \/ \E h, t : UserEdit(f, h, t) PROVE StoreSound'
    BY <1>2, StoreFrame DEF UserTouch, UserEdit
  <1>3. ASSUME NEW f \in File, Report(f) PROVE StoreSound'
    <2> DEFINE j == Did(IF disk[f] = NoHash THEN "delete" ELSE "modify", f)
    <2>1. j \in Jobs /\ j.do # "segment"
      BY DEF Did, Jobs
    <2>2. jobs' = Append(jobs, j) /\ UNCHANGED <<port, up, fetches, store, shared>>
      BY <1>3 DEF Report
    <2> HIDE DEF j
    <2> QED
      BY <2>1, <2>2, StoreFrameAppend DEF QueueType
  <1>4. ASSUME NEW dev \in Device \ {Local}, NEW a \in Remote, a.dev = dev, SyncLogStateChange(dev, a.seq)
        PROVE  StoreSound'
    <2> DEFINE j == [do |-> "state", dev |-> dev, old |-> reported[dev], new |-> a.seq]
    <2>1. j \in Jobs /\ j.do # "segment"
      BY RemoteFields DEF Jobs, FetchType
    <2>2. jobs' = Append(jobs, j) /\ UNCHANGED <<port, up, fetching, store, shared>>
      BY <1>4 DEF SyncLogStateChange
    <2> HIDE DEF j
    <2> QED
      BY <2>1, <2>2, StoreFrameAppend DEF QueueType
  <1>5. CASE LocalFileModify
    <2>1. jobs' = Tail(jobs) /\ up /\ UNCHANGED <<port, unsaved, fetching, m_objectDbMap, shared>>
      BY <1>5 DEF LocalFileModify, Job
    <2>2. CASE UNCHANGED saved
      BY <1>5, <2>1, <2>2, StoreFrameTail DEF LocalFileModify
    <2>3. CASE ~UNCHANGED saved
      <3>1. PICK f \in File : disk[f] \in Hash /\ saved' = saved \cup AllSegments(disk[f], Local)
        BY <1>5, <2>3, LocalFileModifyEffect DEF Edited
      <3> QED
        BY <1>5, <3>1, EditedStore
    <2> QED
      BY <2>2, <2>3
  <1>6. CASE LocalFileDelete
    <2> DEFINE j == Did("remove", Head(jobs).file)
    <2>1. jobs' \in {Tail(jobs), Append(Tail(jobs), j)} /\ UNCHANGED <<port, up, fetches, store, shared>>
      BY <1>6 DEF LocalFileDelete
    <2>2. Tail(jobs) \in Seq(Jobs) /\ InQueue(jobs) = InQueue(Tail(jobs)) \cup {Head(jobs)} /\ Head(jobs).do = "delete"
          /\ Head(jobs).file \in File
      BY <1>6, JobTaken, JobFields DEF LocalFileDelete
    <2>3. j \in Jobs /\ j.do = "remove"
      BY <2>2 DEF Did, Jobs
    <2> HIDE DEF j
    <2>4. InQueue(jobs') \subseteq InQueue(Tail(jobs)) \cup {j} /\ InQueue(Tail(jobs)) \subseteq InQueue(jobs')
      BY <2>1, <2>2, <2>3, QueueAppend
    <2> QED
      BY <2>1, <2>2, <2>3, <2>4, StoreFrame
  <1>7. CASE ActionApplyDelete
    BY <1>7, StoreFrameTail DEF ActionApplyDelete
  <1>8. CASE StateChangeExecute
    BY <1>8, StoreFrameTail DEF StateChangeExecute
  <1>9. ASSUME NEW a \in wanted, ActionFetch(a) PROVE StoreSound'
    BY <1>9, StoreFrame DEF ActionFetch
  <1>10. CASE Assemble
    <2>1. /\ UNCHANGED <<port, jobs, saved, unsaved, fetching, m_objectDbMap, shared>>
          /\ up' => up
      BY <1>10 DEF Assemble, AssembleLookup, AssembleNext, AssembleStamp, AssembleMark
    <2> QED
      BY <2>1, StoreFrame
  <1> QED
    BY <1>1, <1>2, <1>3, <1>4, <1>5, <1>6, <1>7, <1>8, <1>9, <1>10, SegmentExecuteStore, CompleteStore,
       FetchRequestStore, SegmentFetchStore
    DEF Next, Execute, Fetch

\* The user writes no torn file, and the dispatcher assembles none: a content of
\* which one segment is committed is committed as a whole.
LEMMA WholeNext ==
  ASSUME TypeInv, AssembledIsWhole, StoreSound, [Next]_vars
  PROVE  AssembledIsWhole'
  <1> USE DEF TypeInv, disks, tables, fetches, store, history
  <1>1. CASE UNCHANGED <<disk, shared, port>>
    BY <1>1 DEF AssembledIsWhole
  <1>2. ASSUME NEW f \in File, NEW h \in Hash \cup {NoHash}, NEW t, UserEdit(f, h, t)
        PROVE  AssembledIsWhole'
    <2>1. disk' = [disk EXCEPT ![f] = h] /\ UNCHANGED <<shared, port>> /\ h \notin {Torn, Padded}
      BY <1>2, DispatcherAssumption DEF UserEdit, DispatcherAssumption
    <2> QED
      BY <2>1 DEF AssembledIsWhole, DiskType
  <1>3. CASE ActionApplyDelete
    <2>1. disk' = [disk EXCEPT ![Head(jobs).file] = NoHash] /\ UNCHANGED <<shared, port>> /\ NoHash \notin {Torn, Padded}
      BY <1>3, DispatcherAssumption DEF ActionApplyDelete, DispatcherAssumption
    <2> QED
      BY <2>1 DEF AssembledIsWhole, DiskType
  <1>4. CASE FileFetchComplete
    <2>1. UNCHANGED <<disk, port>> /\ shared \subseteq shared'
      BY <1>4, FileFetchCompleteEffect DEF Closed
    <2> QED
      BY <2>1 DEF AssembledIsWhole
  <1>5. ASSUME NEW item \in assembly.todo, AssembleNext(item) PROVE AssembledIsWhole'
    <2> DEFINE h == assembly.hash
               dev == assembly.dev
               c == ObjectsToLocalFile(saved, h, dev)
    <2>1. h \in Hash /\ UNCHANGED <<shared, port>>
      BY <1>5, AssemblyFields DEF AssembleNext, QueueType
    <2>2. UNCHANGED disk \/ (disk' = [disk EXCEPT ![item.file] = c] /\ DoesExist(saved, h, dev))
      BY <1>5 DEF AssembleNext, disks
    <2>3. DoesExist(saved, h, dev) /\ shared = {} => AllSegments(h, dev) \subseteq saved
      BY DEF StoreSound, SavedWhole, DoesExist
    <2>4. DoesExist(saved, h, dev) => (c = Torn => shared # {}) /\ (c = Padded => "sized" \notin port)
      BY <2>1, <2>3, FileContent
    <2> HIDE DEF c, h, dev
    <2> QED
      BY <2>1, <2>2, <2>4 DEF AssembledIsWhole, DiskType
  <1>6. AssembleLookup \/ AssembleStamp \/ AssembleMark => UNCHANGED <<disk, shared, port>>
    BY DEF AssembleLookup, AssembleStamp, AssembleMark
  <1>7. CASE UNCHANGED vars
    BY <1>1, <1>7 DEF vars
  <1>8. (\E f \in File : UserTouch(f) \/ Report(f)) \/ (\E dev, seq : SyncLogStateChange(dev, seq))
           => UNCHANGED <<disk, shared, port>>
    BY DEF UserTouch, Report, SyncLogStateChange
  <1>9. LocalFileModify \/ LocalFileDelete \/ StateChangeExecute \/ FileSegmentExecute => UNCHANGED <<disk, shared, port>>
    BY DEF LocalFileModify, LocalFileDelete, StateChangeExecute, FileSegmentExecute
  <1>10. Fetch => UNCHANGED <<disk, shared, port>>
    BY DEF Fetch, ActionFetch, ActionFetchRequest, FileSegmentFetch
  <1> QED
    BY <1>1, <1>2, <1>3, <1>4, <1>5, <1>6, <1>7, <1>8, <1>9, <1>10 DEF Next, Execute, Assemble

-----------------------------------------------------------------------------
(* The theorem.                                                             *)

\* The parts of the types make up TypeOK.
LEMMA TypesTogether == TypeInv => TypeOK
  <1> SUFFICES ASSUME TypeInv PROVE TypeOK
    OBVIOUS
  <1>1. \A k \in DOMAIN jobs : jobs[k] \in Jobs
    BY DEF TypeInv, QueueType
  <1>2. \A f \in File : files[f].hash \in Content \cup {NoHash}
    BY DEF TypeInv, TableType, FileRow
  <1>3. assembly \in Assemblies
    BY DEF TypeInv, QueueType
  <1> QED
    BY <1>1, <1>2, <1>3 DEF TypeInv, TypeOK, RestType, DiskType, TableType, FetchType, StoreType

\* What is on disk is whole, and what is published as an edit of this device was
\* written by its user (Did_LocalFile_AddOrModify_Execute,
\* Did_FetchManager_FileFetchComplete_Execute).
THEOREM FolderIsSound == Spec => []FolderSound
  <1>1. Init => IInv
    <2>1. Init => NoEcho /\ AssembledIsWhole /\ DiskKnown
      BY DispatcherAssumption DEF Init, NoEcho, AssembledIsWhole, DiskKnown, DispatcherAssumption
    <2> QED
      BY <2>1, InitType, InitStore DEF IInv
  <1>2. IInv /\ [Next]_vars => IInv'
    BY NextType, FolderNext, StoreNext, WholeNext DEF IInv
  <1>3. IInv => FolderSound
    BY TypesTogether DEF IInv, FolderSound
  <1> QED
    BY <1>1, <1>2, <1>3, PTL DEF Spec

=============================================================================
