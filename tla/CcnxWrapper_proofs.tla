------------------------- MODULE CcnxWrapper_proofs -------------------------
(***************************************************************************)
(* The safety properties of CcnxWrapper, for any set of prefixes,          *)
(* callbacks and Interests and any bound on what may happen to them.       *)
(***************************************************************************)
EXTENDS CcnxWrapper, SequenceTheorems, TLAPS

Job == [do : {"run", "free", "serve"}, i : Interest \cup Callback]

\* The queued jobs that hold a pointer to the closure of Interest i.
PointsTo(k, i) == jobs[k].do \in {"run", "free"} /\ jobs[k].i = i

\* The queue is a sequence of jobs, and those that point to a closure belong to
\* an Interest that has ended.
JobsTyped ==
  /\ jobs \in Seq(Job)
  /\ \A k \in DOMAIN jobs, i \in Interest : PointsTo(k, i) => phase[i] = "ended"
  /\ \A k \in DOMAIN jobs : jobs[k].do \in {"run", "free"} => jobs[k].i \in Interest

\* The deletion of a closure is behind every job that points to it.
FreedLast ==
  \A k, l \in DOMAIN jobs :
    \A i \in Interest :
      jobs[k] = Free(i) /\ PointsTo(l, i) => l <= k

\* The closure is there until the Interest ends.
SentHasClosure == \A i \in Interest : phase[i] \in {"checked", "pending"} => i \in closures

\* shutdown has joined ccnLoop before it returns, or found no connection.
ReturnedIsQuiet == stopper \in {"returned", "destroyed"} => (loop.at = "ended" \/ abandoned)

\* What is recorded and what was called last agree on whether there is a filter.
RecordIsLatest ==
  /\ latest \in [Prefix -> Calls]
  /\ \A p \in Prefix : m_registeredInterests[p] = 0 <=> latest[p] = 0

\* An object that could not be signed waits for a connection, or one was made.
EmptyIsOffline == object = "empty" /\ Open => reunited

QueueInv == JobsTyped /\ ClosureOutlivesJobs /\ FreedLast /\ SentHasClosure
FilterInv == RecordIsLatest /\ FilterIsWanted
PublishInv == EmptyIsOffline /\ PublishedIsWhole

\* The inductive invariant.
IInv == TypeOK /\ QueueInv /\ ReturnedIsQuiet /\ FilterInv /\ PublishInv

\* No call sets a filter to 0, and the reconnect interval is at least 1.
LEMMA Constants ==
  /\ 0 \notin Callback /\ Callback \subseteq Calls /\ 0 \in Calls
  /\ 1 \in 1..(2 * MaxInterval - 1)
  BY CcnxAssumption DEF Calls

\* The initial states satisfy the inductive invariant.
LEMMA InitInv == Init => IInv
  <1> SUFFICES ASSUME Init PROVE IInv
    OBVIOUS
  <1>1. TypeOK
    <2>1. DOMAIN jobs = {}
      BY DEF Init
    <2>2. loop \in [at : LoopPc, interval : 1..(2 * MaxInterval - 1)]
      BY Constants DEF Init, LoopPc
    <2> QED
      BY <2>1, <2>2, Constants DEF Init, TypeOK
  <1>2. QueueInv
    BY DEF Init, QueueInv, JobsTyped, ClosureOutlivesJobs, FreedLast, SentHasClosure
  <1>3. ReturnedIsQuiet /\ FilterInv /\ PublishInv
    BY Constants DEF Init, ReturnedIsQuiet, FilterInv, RecordIsLatest, FilterIsWanted,
      PublishInv, EmptyIsOffline, PublishedIsWhole
  <1> QED
    BY <1>1, <1>2, <1>3 DEF IInv

-----------------------------------------------------------------------------
(* The queue of the executor and the closures.                              *)

\* The variables that QueueInv is about.
queueVars == <<jobs, closures, phase>>

\* A step that leaves them alone keeps it.
LEMMA QueueUnchanged ==
  ASSUME QueueInv, UNCHANGED queueVars
  PROVE  QueueInv'
  BY DEF QueueInv, JobsTyped, ClosureOutlivesJobs, FreedLast, SentHasClosure, PointsTo,
    queueVars

\* The first section of sendInterest allocates the closure of a new Interest.
LEMMA SendInterestQueue ==
  ASSUME TypeOK, QueueInv, NEW i \in Interest, SendInterest(i)
  PROVE  QueueInv'
  <1>1. /\ jobs' = jobs /\ closures \subseteq closures'
        /\ phase[i] = "new"
        /\ \A j \in Interest \ {i} : phase'[j] = phase[j]
        /\ phase'[i] = "checked" => i \in closures'
        /\ phase'[i] \in {"checked", "refused"}
    BY DEF SendInterest, Moves, TypeOK
  <1>2. JobsTyped'
    BY <1>1 DEF QueueInv, JobsTyped, PointsTo
  <1>3. ClosureOutlivesJobs' /\ FreedLast'
    BY <1>1 DEF QueueInv, ClosureOutlivesJobs, FreedLast, PointsTo
  <1>4. SentHasClosure'
    BY <1>1 DEF QueueInv, SentHasClosure
  <1> QED
    BY <1>2, <1>3, <1>4 DEF QueueInv

\* The second section of sendInterest changes only the phase of its Interest.
LEMMA SendInterestExpressQueue ==
  ASSUME TypeOK, QueueInv, NEW i \in Interest, SendInterestExpress(i)
  PROVE  QueueInv'
  <1>1. /\ jobs' = jobs /\ closures' = closures
        /\ phase[i] = "checked" /\ phase'[i] \in {"pending", "lost"}
        /\ \A j \in Interest \ {i} : phase'[j] = phase[j]
    BY DEF SendInterestExpress, Moves, TypeOK, executor
  <1> QED
    BY <1>1 DEF QueueInv, JobsTyped, ClosureOutlivesJobs, FreedLast, SentHasClosure, PointsTo

\* The upcalls queue the callback and then the deletion of a closure that no
\* job points to yet.
LEMMA IncomingDataQueue ==
  ASSUME TypeOK, QueueInv, NEW i \in Interest, IncomingData(i)
  PROVE  QueueInv'
  <1>1. /\ closures' = closures /\ jobs' = jobs \o <<Run(i), Free(i)>>
        /\ phase[i] = "pending" /\ phase'[i] = "ended"
        /\ \A j \in Interest \ {i} : phase'[j] = phase[j]
    BY DEF IncomingData, Final, TypeOK
  <1>2. jobs \in Seq(Job) /\ i \in closures
    BY <1>1 DEF QueueInv, JobsTyped, SentHasClosure
  <1>3. <<Run(i), Free(i)>> \in Seq(Job)
    BY DEF Run, Free, Job
  <1>4. /\ jobs' \in Seq(Job) /\ Len(jobs') = Len(jobs) + 2
        /\ DOMAIN jobs' = 1..(Len(jobs) + 2) /\ DOMAIN jobs = 1..Len(jobs)
        /\ Len(jobs) \in Nat
        /\ \A k \in 1..Len(jobs) : jobs'[k] = jobs[k]
        /\ jobs'[Len(jobs) + 1] = Run(i) /\ jobs'[Len(jobs) + 2] = Free(i)
    BY <1>1, <1>2, <1>3, ConcatProperties, LenProperties
  <1>5. \A k \in DOMAIN jobs : ~PointsTo(k, i)
    BY <1>1 DEF QueueInv, JobsTyped
  <1>6. \A k \in DOMAIN jobs' : \/ k \in DOMAIN jobs /\ jobs'[k] = jobs[k]
                                \/ k = Len(jobs) + 1 /\ jobs'[k] = Run(i)
                                \/ k = Len(jobs) + 2 /\ jobs'[k] = Free(i)
    BY <1>4
  <1>7. JobsTyped'
    <2>1. \A k \in DOMAIN jobs' : jobs'[k].do \in {"run", "free"} => jobs'[k].i \in Interest
      BY <1>6 DEF QueueInv, JobsTyped, Run, Free
    <2>2. \A k \in DOMAIN jobs', j \in Interest : PointsTo(k, j)' => phase'[j] = "ended"
      <3> SUFFICES ASSUME NEW k \in DOMAIN jobs', NEW j \in Interest, PointsTo(k, j)'
                   PROVE  phase'[j] = "ended"
        OBVIOUS
      <3>1. CASE k \in DOMAIN jobs /\ jobs'[k] = jobs[k]
        BY <1>1, <3>1 DEF QueueInv, JobsTyped, PointsTo
      <3>2. CASE jobs'[k] \in {Run(i), Free(i)}
        BY <1>1, <3>2 DEF PointsTo, Run, Free
      <3> QED
        BY <1>6, <3>1, <3>2
    <2> QED
      BY <1>4, <2>1, <2>2 DEF JobsTyped
  <1>8. ClosureOutlivesJobs'
    <2> SUFFICES ASSUME NEW k \in DOMAIN jobs', jobs'[k].do \in {"run", "free"}
                 PROVE  jobs'[k].i \in closures
      BY <1>1 DEF ClosureOutlivesJobs
    <2>1. CASE k \in DOMAIN jobs /\ jobs'[k] = jobs[k]
      BY <2>1 DEF QueueInv, ClosureOutlivesJobs
    <2>2. CASE jobs'[k] \in {Run(i), Free(i)}
      BY <1>2, <2>2 DEF Run, Free
    <2> QED
      BY <1>6, <2>1, <2>2
  <1>9. FreedLast'
    <2> SUFFICES ASSUME NEW k \in DOMAIN jobs', NEW l \in DOMAIN jobs', NEW j \in Interest,
                        jobs'[k] = Free(j), PointsTo(l, j)'
                 PROVE  l <= k
      BY DEF FreedLast
    <2>1. CASE k \in DOMAIN jobs /\ jobs'[k] = jobs[k]
      <3>1. j # i
        BY <1>5, <2>1 DEF PointsTo, Free
      <3>2. l \in DOMAIN jobs /\ jobs'[l] = jobs[l]
        BY <1>6, <3>1 DEF PointsTo, Run, Free
      <3> QED
        BY <2>1, <3>2 DEF QueueInv, FreedLast, PointsTo
    <2>2. CASE k = Len(jobs) + 2
      BY <1>4, <2>2
    <2>3. CASE k = Len(jobs) + 1 /\ jobs'[k] = Run(i)
      BY <2>3 DEF Run, Free
    <2> QED
      BY <1>6, <2>1, <2>2, <2>3
  <1>10. SentHasClosure'
    BY <1>1 DEF QueueInv, SentHasClosure
  <1> QED
    BY <1>7, <1>8, <1>9, <1>10 DEF QueueInv

\* The job of a filter points to no closure.
LEMMA IncomingInterestQueue ==
  ASSUME TypeOK, QueueInv, NEW p \in Prefix, IncomingInterest(p)
  PROVE  QueueInv'
  <1> DEFINE served == Serve(filters[p])
  <1>1. /\ closures' = closures /\ phase' = phase /\ jobs' = Append(jobs, served)
        /\ served \in Job /\ served.do = "serve" /\ jobs \in Seq(Job)
    BY DEF IncomingInterest, TypeOK, Calls, Serve, Job, QueueInv, JobsTyped
  <1>2. \A k \in DOMAIN jobs' : \/ k \in DOMAIN jobs /\ jobs'[k] = jobs[k]
                                \/ k = Len(jobs) + 1 /\ jobs'[k] = served
    BY <1>1, AppendProperties, LenProperties
  <1>3. jobs' \in Seq(Job)
    BY <1>1, AppendProperties
  <1>4. served.do \notin {"run", "free"} /\ \A j \in Interest : served # Free(j)
    BY <1>1 DEF Free
  <1> HIDE DEF served
  <1> QED
    BY <1>1, <1>2, <1>3, <1>4 DEF QueueInv, JobsTyped, ClosureOutlivesJobs, FreedLast,
      SentHasClosure, PointsTo

\* The executor deletes a closure only when no later job points to it.
LEMMA RunJobQueue ==
  ASSUME TypeOK, QueueInv, RunJob
  PROVE  QueueInv'
  <1>1. /\ jobs \in Seq(Job) /\ jobs # <<>> /\ jobs' = Tail(jobs) /\ phase' = phase
        /\ closures' = IF Head(jobs).do = "free" THEN closures \ {Head(jobs).i} ELSE closures
    BY DEF RunJob, QueueInv, JobsTyped
  <1>2. /\ jobs' \in Seq(Job) /\ Len(jobs) \in Nat \ {0}
        /\ DOMAIN jobs = 1..Len(jobs) /\ DOMAIN jobs' = 1..(Len(jobs) - 1)
        /\ \A k \in DOMAIN jobs' : jobs'[k] = jobs[k + 1]
        /\ Head(jobs) = jobs[1] /\ Head(jobs) \in Job
    BY <1>1, HeadTailProperties, LenProperties, EmptySeq
  <1>3. \A k \in DOMAIN jobs' : k \in Nat /\ k > 0 /\ k + 1 \in DOMAIN jobs
    BY <1>2
  <1>4. JobsTyped'
    BY <1>1, <1>2, <1>3 DEF QueueInv, JobsTyped, PointsTo
  <1>5. \A k \in DOMAIN jobs' : jobs'[k].do \in {"run", "free"} => jobs'[k].i \in closures'
    <2> SUFFICES ASSUME NEW k \in DOMAIN jobs', jobs'[k].do \in {"run", "free"}
                 PROVE  jobs'[k].i \in closures'
      OBVIOUS
    <2> DEFINE j == jobs'[k].i
    <2>1. j \in closures /\ j \in Interest /\ PointsTo(k + 1, j) /\ k + 1 > 1
      BY <1>2, <1>3 DEF QueueInv, ClosureOutlivesJobs, JobsTyped, PointsTo
    <2>2. CASE Head(jobs).do = "free" /\ Head(jobs).i = j
      <3>1. jobs[1] = Free(j) /\ 1 \in DOMAIN jobs
        BY <1>2, <2>2 DEF Free, Job
      <3>2. k + 1 <= 1
        BY <1>3, <2>1, <3>1 DEF QueueInv, FreedLast
      <3> QED
        BY <1>3, <2>1, <3>2
    <2> QED
      BY <1>1, <2>1, <2>2
  <1>6. FreedLast'
    <2> SUFFICES ASSUME NEW k \in DOMAIN jobs', NEW l \in DOMAIN jobs', NEW j \in Interest,
                        jobs'[k] = Free(j), PointsTo(l, j)'
                 PROVE  l <= k
      BY DEF FreedLast
    <2>1. jobs[k + 1] = Free(j) /\ PointsTo(l + 1, j)
      BY <1>2 DEF PointsTo
    <2>2. l + 1 <= k + 1
      BY <1>3, <2>1 DEF QueueInv, FreedLast
    <2> QED
      BY <1>3, <2>2
  <1>7. SentHasClosure'
    <2> SUFFICES ASSUME NEW i \in Interest, phase[i] \in {"checked", "pending"}
                 PROVE  i \in closures'
      BY <1>1 DEF SentHasClosure
    <2>1. i \in closures
      BY DEF QueueInv, SentHasClosure
    <2>2. Head(jobs).do = "free" => Head(jobs).i # i
      BY <1>2 DEF QueueInv, JobsTyped, PointsTo
    <2> QED
      BY <1>1, <2>1, <2>2
  <1> QED
    BY <1>4, <1>5, <1>6, <1>7 DEF QueueInv, ClosureOutlivesJobs

\* Every step keeps the queue and the closures in order.
LEMMA NextQueue ==
  ASSUME TypeOK, QueueInv, [Next]_vars
  PROVE  QueueInv'
  <1> USE QueueUnchanged DEF queueVars, executor
  <1>1. CASE UNCHANGED vars
    BY <1>1 DEF vars
  <1>2. CASE CcndStops \/ CcndStarts
    BY <1>2 DEF CcndStops, CcndStarts
  <1>3. CASE \E p \in Prefix, cb \in Callback : SetInterestFilter(p, cb)
    BY <1>3 DEF SetInterestFilter
  <1>4. CASE \E p \in Prefix : ClearInterestFilter(p) \/ IncomingInterest(p)
    BY <1>4, IncomingInterestQueue DEF ClearInterestFilter
  <1>5. CASE \E i \in Interest : SendInterest(i) \/ SendInterestExpress(i) \/ IncomingData(i)
    BY <1>5, SendInterestQueue, SendInterestExpressQueue, IncomingDataQueue
  <1>6. CASE \E i \in Got : GetCheck(i) \/ GetReturn(i)
    BY <1>6 DEF GetCheck, GetReturn
  <1>7. CASE CreateContentObject \/ PublishUnsignedData \/ PutToCcnd
    BY <1>7 DEF CreateContentObject, PublishUnsignedData, Publishes, PutToCcnd
  <1>8. CASE Loop
    BY <1>8 DEF Loop, LoopTop, CcnRun, LoopCheck, LoopFailed, LoopRetry, ConnectDisconnect,
      ConnectCcnd, ConnectFails
  <1>9. CASE RunJob
    BY <1>9, RunJobQueue
  <1>10. CASE ShutdownExecutor \/ Shutdown \/ Destroy
    BY <1>10 DEF ShutdownExecutor, Shutdown, ShutdownRunning, ShutdownConnected,
      ShutdownJoin, Destroy
  <1> QED
    BY <1>1, <1>2, <1>3, <1>4, <1>5, <1>6, <1>7, <1>8, <1>9, <1>10 DEF Next

-----------------------------------------------------------------------------
(* Types. *)

\* Every queued job is of one of the three kinds.
LEMMA JobKinds ==
  ASSUME NEW q \in Seq(Job)
  PROVE  \A k \in DOMAIN q : q[k].do \in {"run", "free", "serve"}
  <1>1. \A k \in DOMAIN q : q[k] \in Job
    OBVIOUS
  <1> QED
    BY <1>1 DEF Job

\* The conjuncts of TypeOK by the part of the wrapper they are about.
ConnectionType ==
  /\ m_running \in BOOLEAN /\ m_connected \in BOOLEAN /\ ccnd \in BOOLEAN
  /\ linked \in BOOLEAN /\ (linked => ccnd) /\ routes \subseteq Prefix
  /\ filters \in [Prefix -> Calls] /\ m_registeredInterests \in [Prefix -> Calls]
  /\ loop \in [at : LoopPc, interval : 1..(2 * MaxInterval - 1)]

CallsType ==
  /\ phase \in [Interest -> {"new", "checked", "refused", "pending", "lost", "ended"}]
  /\ getter \in [Got -> {"new", "checked", "returned"}]
  /\ stopper \in {"none", "executor", "stopped", "join", "returned", "destroyed"}
  /\ object \in {"none", "whole", "empty"} /\ (reunited => object = "empty")
  /\ emptied \in BOOLEAN
  /\ executing \in BOOLEAN /\ closures \subseteq Interest

\* The type invariant in two halves, which different steps disturb.
LEMMA TypeParts ==
  TypeOK <=> /\ ConnectionType /\ CallsType
             /\ \A k \in DOMAIN jobs : jobs[k].do \in {"run", "free", "serve"}
  BY DEF TypeOK, ConnectionType, CallsType

\* The interval doubles only below the maximum.
LEMMA BackoffType ==
  ASSUME loop.interval \in 1..(2 * MaxInterval - 1)
  PROVE  Backoff \in 1..(2 * MaxInterval - 1)
  BY CcnxAssumption DEF Backoff

\* A step of ccnLoop keeps the state of the connection well formed.
LEMMA LoopConnection ==
  ASSUME ConnectionType, Loop
  PROVE  ConnectionType'
  <1> USE DEF ConnectionType, handle
  <1> DEFINE Loops == [at : LoopPc, interval : 1..(2 * MaxInterval - 1)]
  <1>1. \A pc \in LoopPc : [loop EXCEPT !.at = pc] \in Loops
    OBVIOUS
  <1>2. loop.interval \in 1..(2 * MaxInterval - 1)
    OBVIOUS
  <1>3. CASE LoopTop \/ CcnRun \/ LoopCheck \/ LoopRetry
    <2>1. loop' \in Loops
      BY <1>1, <1>3 DEF LoopTop, CcnRun, LoopCheck, LoopRetry, LoopTo, LoopPc
    <2> QED
      BY <1>3, <2>1 DEF LoopTop, CcnRun, LoopCheck, LoopRetry
  <1>4. CASE LoopFailed
    <2>1. loop' \in Loops
      BY <1>4, Constants DEF LoopFailed, LoopPc
    <2> QED
      BY <1>4, <2>1 DEF LoopFailed
  <1>5. CASE ConnectDisconnect
    <2>1. loop' \in Loops
      BY <1>1, <1>5 DEF ConnectDisconnect, LoopTo, LoopPc
    <2> QED
      BY <1>5, <2>1 DEF ConnectDisconnect
  <1>6. CASE ConnectCcnd
    <2>1. loop' \in Loops
      BY <1>1, <1>6 DEF ConnectCcnd, LoopTo, LoopPc
    <2>2. filters' \in [Prefix -> Calls] /\ routes' \subseteq Prefix
      BY <1>6 DEF ConnectCcnd, Reregister, OnRecord
    <2> QED
      BY <1>6, <2>1, <2>2 DEF ConnectCcnd
  <1>7. CASE ConnectFails
    <2>1. loop' \in Loops
      BY <1>2, <1>7, BackoffType DEF ConnectFails, LoopPc
    <2> QED
      BY <1>7, <2>1 DEF ConnectFails
  <1> QED
    BY <1>3, <1>4, <1>5, <1>6, <1>7 DEF Loop

\* Every step does.
LEMMA NextConnection ==
  ASSUME ConnectionType, [Next]_vars
  PROVE  ConnectionType'
  <1>1. CASE UNCHANGED vars
    BY <1>1 DEF vars, handle, ConnectionType
  <1>2. CASE CcndStops \/ CcndStarts
    BY <1>2 DEF CcndStops, CcndStarts, handle, ConnectionType
  <1>3. ASSUME NEW p \in Prefix, NEW cb \in Callback, SetInterestFilter(p, cb)
        PROVE  ConnectionType'
    <2>1. filters' \in [Prefix -> Calls] /\ m_registeredInterests' \in [Prefix -> Calls]
      BY <1>3, Constants DEF SetInterestFilter, Recorded, ConnectionType
    <2>2. routes' \subseteq Prefix
      BY <1>3 DEF SetInterestFilter, ConnectionType
    <2> QED
      BY <1>3, <2>1, <2>2 DEF SetInterestFilter, ConnectionType
  <1>4. ASSUME NEW p \in Prefix, ClearInterestFilter(p)
        PROVE  ConnectionType'
    <2>1. filters' \in [Prefix -> Calls] /\ m_registeredInterests' \in [Prefix -> Calls]
      BY <1>4, Constants DEF ClearInterestFilter, Erased, ConnectionType
    <2> QED
      BY <1>4, <2>1 DEF ClearInterestFilter, ConnectionType
  <1>5. ASSUME NEW p \in Prefix, IncomingInterest(p)
        PROVE  ConnectionType'
    <2>1. loop' \in [at : LoopPc, interval : 1..(2 * MaxInterval - 1)]
      BY <1>5 DEF IncomingInterest, LoopTo, LoopPc, ConnectionType
    <2> QED
      BY <1>5, <2>1 DEF IncomingInterest, handle, ConnectionType
  <1>6. ASSUME NEW i \in Interest, SendInterest(i) \/ SendInterestExpress(i)
        PROVE  ConnectionType'
    BY <1>6 DEF SendInterest, SendInterestExpress, handle, ConnectionType
  <1>7. ASSUME NEW i \in Interest, IncomingData(i)
        PROVE  ConnectionType'
    <2>1. loop' \in [at : LoopPc, interval : 1..(2 * MaxInterval - 1)]
      BY <1>7 DEF IncomingData, LoopPc, ConnectionType
    <2> QED
      BY <1>7, <2>1 DEF IncomingData, handle, ConnectionType
  <1>8. CASE \E i \in Got : GetCheck(i) \/ GetReturn(i)
    BY <1>8 DEF GetCheck, GetReturn, handle, ConnectionType
  <1>9. CASE CreateContentObject \/ PublishUnsignedData \/ PutToCcnd
    BY <1>9 DEF CreateContentObject, PublishUnsignedData, Publishes, PutToCcnd, handle,
      ConnectionType
  <1>10. CASE RunJob
    BY <1>10 DEF RunJob, handle, ConnectionType
  <1>11. CASE ShutdownExecutor \/ Destroy
    BY <1>11 DEF ShutdownExecutor, Destroy, handle, ConnectionType
  <1>12. CASE Shutdown
    <2>1. CASE ShutdownRunning
      BY <2>1 DEF ShutdownRunning, handle, ConnectionType
    <2>2. CASE ShutdownConnected
      BY <2>2 DEF ShutdownConnected, handle, ConnectionType
    <2>3. CASE ShutdownJoin
      BY <2>3 DEF ShutdownJoin, ConnectionType
    <2> QED
      BY <1>12, <2>1, <2>2, <2>3 DEF Shutdown
  <1> QED
    BY <1>1, <1>2, <1>3, <1>4, <1>5, <1>6, <1>7, <1>8, <1>9, <1>10, <1>11, <1>12,
      LoopConnection DEF Next

\* Every step keeps the calls under way well formed.
LEMMA NextCalls ==
  ASSUME CallsType, [Next]_vars
  PROVE  CallsType'
  <1> USE DEF CallsType
  <1>1. CASE UNCHANGED vars
    BY <1>1 DEF vars, executor, publishing
  <1>2. CASE CcndStops \/ CcndStarts
    BY <1>2 DEF CcndStops, CcndStarts, executor, publishing
  <1>3. CASE \E p \in Prefix, cb \in Callback : SetInterestFilter(p, cb)
    BY <1>3 DEF SetInterestFilter, executor, publishing
  <1>4. CASE \E p \in Prefix : ClearInterestFilter(p) \/ IncomingInterest(p)
    BY <1>4 DEF ClearInterestFilter, IncomingInterest, executor, publishing
  <1>5. ASSUME NEW i \in Interest, SendInterest(i) \/ SendInterestExpress(i) \/ IncomingData(i)
        PROVE  CallsType'
    <2>1. /\ phase' \in [Interest -> {"new", "checked", "refused", "pending", "lost", "ended"}]
          /\ closures' \subseteq Interest
      BY <1>5 DEF SendInterest, SendInterestExpress, IncomingData, Final, Moves, executor
    <2> QED
      BY <1>5, <2>1 DEF SendInterest, SendInterestExpress, IncomingData, executor, publishing
  <1>6. CASE \E i \in Got : GetCheck(i) \/ GetReturn(i)
    BY <1>6 DEF GetCheck, GetReturn, executor, publishing
  <1>7. ASSUME NEW what \in {"whole", "empty"}, Publishes(what)
        PROVE  CallsType'
    <2>1. object = "none" /\ ~reunited
      BY <1>7 DEF Publishes
    <2>2. ~reunited'
      BY <1>7, <2>1, Zenon DEF Publishes
    <2>3. object' \in {"none", "whole", "empty"} /\ emptied' \in BOOLEAN
      BY <1>7 DEF Publishes
    <2> QED
      BY <1>7, <2>2, <2>3 DEF Publishes, executor
  <1>8. CASE PutToCcnd
    <2>1. emptied' \in BOOLEAN /\ object' = "none"
      BY <1>8 DEF PutToCcnd
    <2>2. ~reunited'
      BY <1>8, Zenon DEF PutToCcnd
    <2> QED
      BY <1>8, <2>1, <2>2 DEF PutToCcnd, executor
  <1>9. CASE Loop
    <2>1. CASE ConnectCcnd
      <3>1. reunited' => object' = "empty"
        BY <2>1, Zenon DEF ConnectCcnd
      <3> QED
        BY <2>1, <3>1 DEF ConnectCcnd, executor
    <2>2. CASE ~ConnectCcnd
      BY <1>9, <2>2 DEF Loop, LoopTop, CcnRun, LoopCheck, LoopFailed, LoopRetry,
        ConnectDisconnect, ConnectFails, executor, publishing
    <2> QED
      BY <2>1, <2>2
  <1>10. CASE RunJob
    BY <1>10 DEF RunJob, publishing
  <1>11. CASE ShutdownExecutor \/ Shutdown \/ Destroy
    <2>1. /\ executing' \in BOOLEAN
          /\ stopper' \in {"none", "executor", "stopped", "join", "returned", "destroyed"}
      BY <1>11 DEF ShutdownExecutor, Shutdown, ShutdownRunning, ShutdownConnected,
        ShutdownJoin, Destroy, Stopping, executor
    <2>2. UNCHANGED <<phase, getter, closures, publishing>>
      BY <1>11 DEF ShutdownExecutor, Shutdown, ShutdownRunning, ShutdownConnected,
        ShutdownJoin, Destroy, Stopping, executor
    <2> QED
      BY <2>1, <2>2 DEF publishing
  <1>12. CASE CreateContentObject \/ PublishUnsignedData
    BY <1>7, <1>12 DEF CreateContentObject, PublishUnsignedData
  <1> QED
    BY <1>1, <1>2, <1>3, <1>4, <1>5, <1>6, <1>8, <1>9, <1>10, <1>11, <1>12 DEF Next

-----------------------------------------------------------------------------
(* Shutdown, filters and publishing. *)

\* ccnLoop never leaves its end, and shutdown returns from join only then.
LEMMA NextReturned ==
  ASSUME TypeOK, ReturnedIsQuiet, [Next]_vars
  PROVE  ReturnedIsQuiet'
  <1> USE DEF ReturnedIsQuiet
  <1>1. CASE UNCHANGED vars
    BY <1>1 DEF vars
  <1>2. CASE CcndStops \/ CcndStarts
    BY <1>2 DEF CcndStops, CcndStarts
  <1>3. CASE \E p \in Prefix, cb \in Callback : SetInterestFilter(p, cb)
    BY <1>3 DEF SetInterestFilter
  <1>4. CASE \E p \in Prefix : ClearInterestFilter(p) \/ IncomingInterest(p)
    BY <1>4 DEF ClearInterestFilter, IncomingInterest, LoopTo
  <1>5. CASE \E i \in Interest : SendInterest(i) \/ SendInterestExpress(i) \/ IncomingData(i)
    BY <1>5 DEF SendInterest, SendInterestExpress, IncomingData
  <1>6. CASE \E i \in Got : GetCheck(i) \/ GetReturn(i)
    BY <1>6 DEF GetCheck, GetReturn
  <1>7. CASE CreateContentObject \/ PublishUnsignedData \/ PutToCcnd
    BY <1>7 DEF CreateContentObject, PublishUnsignedData, Publishes, PutToCcnd
  <1>8. CASE Loop
    BY <1>8 DEF Loop, LoopTop, CcnRun, LoopCheck, LoopFailed, LoopRetry, ConnectDisconnect,
      ConnectCcnd, ConnectFails, LoopTo
  <1>9. CASE RunJob
    BY <1>9 DEF RunJob
  <1>10. CASE ShutdownExecutor \/ Shutdown \/ Destroy
    BY <1>10 DEF ShutdownExecutor, Shutdown, ShutdownRunning, ShutdownConnected,
      ShutdownJoin, Destroy, Stopping, Joined
  <1> QED
    BY <1>1, <1>2, <1>3, <1>4, <1>5, <1>6, <1>7, <1>8, <1>9, <1>10 DEF Next

\* The variables that FilterInv is about.
filterVars == <<filters, m_registeredInterests, latest>>

\* setInterestFilter keeps a callback that is recorded.
LEMMA SetFilter ==
  ASSUME TypeOK, FilterInv, NEW p \in Prefix, NEW cb \in Callback, SetInterestFilter(p, cb)
  PROVE  FilterInv'
  <1>1. cb # 0 /\ cb \in Calls
    BY Constants
  <1>2. /\ filters' = [filters EXCEPT ![p] = cb] /\ latest' = [latest EXCEPT ![p] = cb]
        /\ m_registeredInterests' = Recorded(p, cb)
        /\ filters \in [Prefix -> Calls] /\ m_registeredInterests \in [Prefix -> Calls]
        /\ latest \in [Prefix -> Calls]
    BY DEF SetInterestFilter, TypeOK, FilterInv, RecordIsLatest
  <1>3. RecordIsLatest'
    BY <1>1, <1>2 DEF FilterInv, RecordIsLatest, Recorded
  <1>4. FilterIsWanted'
    BY <1>1, <1>2 DEF FilterInv, FilterIsWanted, RecordIsLatest, Recorded
  <1> QED
    BY <1>3, <1>4 DEF FilterInv

\* clearInterestFilter forgets the filter and its record together.
LEMMA ClearFilter ==
  ASSUME TypeOK, FilterInv, NEW p \in Prefix, ClearInterestFilter(p)
  PROVE  FilterInv'
  <1>1. /\ filters' = [filters EXCEPT ![p] = 0] /\ latest' = [latest EXCEPT ![p] = 0]
        /\ m_registeredInterests' = [m_registeredInterests EXCEPT ![p] = 0]
        /\ filters \in [Prefix -> Calls] /\ m_registeredInterests \in [Prefix -> Calls]
        /\ latest \in [Prefix -> Calls]
    BY DEF ClearInterestFilter, Erased, TypeOK, FilterInv, RecordIsLatest
  <1> QED
    BY <1>1, Constants DEF FilterInv, FilterIsWanted, RecordIsLatest

\* connectCcnd registers what is recorded and leaves the other filters.
LEMMA ConnectFilter ==
  ASSUME TypeOK, FilterInv, ConnectCcnd
  PROVE  FilterInv'
  <1>1. /\ latest' = latest /\ m_registeredInterests' = m_registeredInterests
        /\ \A p \in Prefix : filters'[p] \in {m_registeredInterests[p], filters[p]}
        /\ \A p \in Prefix : filters'[p] # filters[p] => m_registeredInterests[p] # 0
    BY DEF ConnectCcnd, Reregister, OnRecord
  <1>2. \A p \in Prefix : filters'[p] = 0 <=> latest[p] = 0
    BY <1>1 DEF FilterInv, FilterIsWanted, RecordIsLatest
  <1> QED
    BY <1>1, <1>2 DEF FilterInv, FilterIsWanted, RecordIsLatest

\* Every step keeps filters and records in agreement.
LEMMA NextFilter ==
  ASSUME TypeOK, FilterInv, [Next]_vars
  PROVE  FilterInv'
  <1>1. ASSUME UNCHANGED filterVars PROVE FilterInv'
    BY <1>1 DEF filterVars, FilterInv, FilterIsWanted, RecordIsLatest
  <1> USE <1>1 DEF filterVars, handle
  <1>2. CASE UNCHANGED vars
    BY <1>2 DEF vars
  <1>3. CASE CcndStops \/ CcndStarts
    BY <1>3 DEF CcndStops, CcndStarts
  <1>4. CASE \E p \in Prefix, cb \in Callback : SetInterestFilter(p, cb)
    BY <1>4, SetFilter
  <1>5. CASE \E p \in Prefix : ClearInterestFilter(p) \/ IncomingInterest(p)
    BY <1>5, ClearFilter DEF IncomingInterest
  <1>6. CASE \E i \in Interest : SendInterest(i) \/ SendInterestExpress(i) \/ IncomingData(i)
    BY <1>6 DEF SendInterest, SendInterestExpress, IncomingData
  <1>7. CASE \E i \in Got : GetCheck(i) \/ GetReturn(i)
    BY <1>7 DEF GetCheck, GetReturn
  <1>8. CASE CreateContentObject \/ PublishUnsignedData \/ PutToCcnd
    BY <1>8 DEF CreateContentObject, PublishUnsignedData, Publishes, PutToCcnd
  <1>9. CASE Loop
    BY <1>9, ConnectFilter DEF Loop, LoopTop, CcnRun, LoopCheck, LoopFailed, LoopRetry,
      ConnectDisconnect, ConnectFails
  <1>10. CASE RunJob
    BY <1>10 DEF RunJob
  <1>11. CASE ShutdownExecutor \/ Shutdown \/ Destroy
    BY <1>11 DEF ShutdownExecutor, Shutdown, ShutdownRunning, ShutdownConnected,
      ShutdownJoin, Destroy
  <1> QED
    BY <1>2, <1>3, <1>4, <1>5, <1>6, <1>7, <1>8, <1>9, <1>10, <1>11 DEF Next

\* An object stays empty only as long as nothing was connected.
LEMMA NextPublish ==
  ASSUME TypeOK, PublishInv, [Next]_vars
  PROVE  PublishInv'
  <1> USE DEF PublishInv, EmptyIsOffline, PublishedIsWhole, Open, publishing
  <1>1. CASE UNCHANGED vars
    BY <1>1 DEF vars
  <1>2. CASE CcndStops \/ CcndStarts
    BY <1>2 DEF CcndStops, CcndStarts
  <1>3. CASE \E p \in Prefix, cb \in Callback : SetInterestFilter(p, cb)
    BY <1>3 DEF SetInterestFilter
  <1>4. CASE \E p \in Prefix : ClearInterestFilter(p) \/ IncomingInterest(p)
    BY <1>4 DEF ClearInterestFilter, IncomingInterest
  <1>5. CASE \E i \in Interest : SendInterest(i) \/ SendInterestExpress(i) \/ IncomingData(i)
    BY <1>5 DEF SendInterest, SendInterestExpress, IncomingData
  <1>6. CASE \E i \in Got : GetCheck(i) \/ GetReturn(i)
    BY <1>6 DEF GetCheck, GetReturn
  <1>7. CASE CreateContentObject \/ PublishUnsignedData
    BY <1>7 DEF CreateContentObject, PublishUnsignedData, Publishes
  <1>8. CASE PutToCcnd
    <2>1. ~emptied /\ ~(Open /\ object = "empty" /\ ~reunited)
      OBVIOUS
    <2>2. ~emptied'
      BY <1>8, <2>1, Zenon DEF PutToCcnd, MayPut
    <2>3. object' # "empty"
      BY <1>8 DEF PutToCcnd
    <2> QED
      BY <2>2, <2>3
  <1>9. CASE Loop
    <2>1. CASE ConnectCcnd
      BY <2>1, Zenon DEF ConnectCcnd
    <2>2. CASE ~ConnectCcnd
      BY <1>9, <2>2 DEF Loop, LoopTop, CcnRun, LoopCheck, LoopFailed, LoopRetry,
        ConnectDisconnect, ConnectFails
    <2> QED
      BY <2>1, <2>2
  <1>10. CASE RunJob
    BY <1>10 DEF RunJob
  <1>11. CASE ShutdownExecutor \/ Shutdown \/ Destroy
    BY <1>11 DEF ShutdownExecutor, Shutdown, ShutdownRunning, ShutdownConnected,
      ShutdownJoin, Destroy
  <1> QED
    BY <1>1, <1>2, <1>3, <1>4, <1>5, <1>6, <1>7, <1>8, <1>9, <1>10, <1>11 DEF Next

-----------------------------------------------------------------------------
(* The theorems. *)

LEMMA NextInv == IInv /\ [Next]_vars => IInv'
  <1> SUFFICES ASSUME IInv, [Next]_vars PROVE IInv'
    OBVIOUS
  <1>1. QueueInv' /\ ReturnedIsQuiet' /\ FilterInv' /\ PublishInv'
    BY NextQueue, NextReturned, NextFilter, NextPublish DEF IInv
  <1>2. TypeOK'
    <2>1. ConnectionType' /\ CallsType'
      BY TypeParts, NextConnection, NextCalls DEF IInv
    <2>2. (\A k \in DOMAIN jobs : jobs[k].do \in {"run", "free", "serve"})'
      BY <1>1, JobKinds DEF QueueInv, JobsTyped
    <2> QED
      BY <2>1, <2>2 DEF TypeOK, ConnectionType, CallsType
  <1> QED
    BY <1>1, <1>2 DEF IInv

\* The inductive invariant holds in every reachable state.
LEMMA AlwaysInv == Spec => []IInv
  BY InitInv, NextInv, PTL DEF Spec

\* Neither a queued callback uses a closure that was freed, nor ccnLoop the
\* wrapper after its destructor, unless shutdown found no connection and did
\* not wait for it (incomingData, shutdown).
THEOREM NothingIsFreedTooEarly == Spec => []NothingDangles
  <1>1. IInv => NothingDangles
    BY DEF IInv, QueueInv, ReturnedIsQuiet, NothingDangles, DestroyedIsQuiet
  <1> QED
    BY <1>1, AlwaysInv, PTL

\* Through any number of reconnections a prefix has a filter exactly when the
\* last call about it set one (m_registeredInterests, connectCcnd).
THEOREM FiltersAreWanted == Spec => []FilterIsWanted
  <1>1. IInv => FilterIsWanted
    BY DEF IInv, FilterInv
  <1> QED
    BY <1>1, AlwaysInv, PTL

\* An object that createContentObject could not sign is put only if a
\* connection was made between the two sections (publishData, putToCcnd).
THEOREM PublishedAreWhole == Spec => []PublishedIsWhole
  <1>1. IInv => PublishedIsWhole
    BY DEF IInv, PublishInv
  <1> QED
    BY <1>1, AlwaysInv, PTL

=============================================================================
