----------------------------- MODULE Sync_proofs -----------------------------
(***************************************************************************)
(* The safety properties of the sync service and of what it stands on: of  *)
(* SchedulerClients, for any set of tags, any number of Task objects and   *)
(* any queue bound; of SyncCore and of SyncLog, for any finite set of      *)
(* devices and any bounds on the sequence numbers and the states.          *)
(***************************************************************************)
EXTENDS SchedulerClients, SyncCore, SyncLog, FiniteSetTheorems, TLAPS

-----------------------------------------------------------------------------
(* What every operation of the scheduler preserves, whoever calls it.       *)

\* The null TaskPtr is no task, so an entry is either NoTask or a Task.
LEMMA NoTaskNotTask == NoTask \notin Task
  BY DEF NoTask, Task

\* addTask keeps the map, the timers and the flags well formed.
LEMMA AddTaskType ==
  ASSUME SchedulerTypeOK, NEW t \in Task, AddTask(t)
  PROVE  SchedulerTypeOK'
  BY DEF SchedulerTypeOK, AddTask, Task

\* addToMap keeps the map well formed.
LEMMA AddToMapType ==
  ASSUME SchedulerTypeOK, NEW t \in Task, AddToMap(t)
  PROVE  SchedulerTypeOK'
  BY DEF SchedulerTypeOK, AddToMap, Task

\* So does arming the timer of the added task.
LEMMA ArmAddedType ==
  ASSUME SchedulerTypeOK, NEW t \in Task, ArmAdded(t)
  PROVE  SchedulerTypeOK'
  BY DEF SchedulerTypeOK, ArmAdded

\* deleteTask(tag) only takes a timer and an entry away.
LEMMA DeleteTaskType ==
  ASSUME SchedulerTypeOK, NEW g \in Tag, DeleteTask(g)
  PROVE  SchedulerTypeOK'
  BY DEF SchedulerTypeOK, DeleteTask

\* So does deleteTask(matcher).
LEMMA DeleteMatchingType ==
  ASSUME SchedulerTypeOK, NEW gs \in SUBSET Tag, DeleteMatching(gs)
  PROVE  SchedulerTypeOK'
  BY DEF SchedulerTypeOK, DeleteMatching

\* rescheduleTask(tag) arms a task of the map, never the null pointer.
LEMMA RescheduleTagType ==
  ASSUME SchedulerTypeOK, NEW g \in Tag, RescheduleTag(g)
  PROVE  SchedulerTypeOK'
  BY DEF SchedulerTypeOK, RescheduleTag

\* rescheduleTask(task) is one of the two operations above.
LEMMA RescheduleTaskType ==
  ASSUME SchedulerTypeOK, NEW t \in Task, RescheduleTask(t)
  PROVE  SchedulerTypeOK'
  <1>1. t.tag \in Tag
    BY DEF Task
  <1> QED
    BY <1>1, AddTaskType, RescheduleTagType DEF RescheduleTask

\* Task::execute queues the task whose timer expired.
LEMMA FireType ==
  ASSUME SchedulerTypeOK, NEW t \in Task, Fire(t)
  PROVE  SchedulerTypeOK'
  BY DEF SchedulerTypeOK, Fire

\* waitForJob and the start of run() take a task from the queue.
LEMMA TakeJobType ==
  ASSUME SchedulerTypeOK, TakeJob
  PROVE  SchedulerTypeOK'
  <1>1. Head(m_queue) \in Task /\ Tail(m_queue) \in Seq(Task)
    BY DEF SchedulerTypeOK, TakeJob
  <1> QED
    BY <1>1 DEF SchedulerTypeOK, TakeJob

\* OneTimeTask::run marks the task it has run.
LEMMA OneTimeReturnType ==
  ASSUME SchedulerTypeOK, OneTimeReturn
  PROVE  SchedulerTypeOK'
  BY DEF SchedulerTypeOK, OneTimeReturn

\* deregisterSelf erases one entry of the map.
LEMMA DeregisterSelfType ==
  ASSUME SchedulerTypeOK, DeregisterSelf
  PROVE  SchedulerTypeOK'
  <1>1. running \in Task /\ running.tag \in Tag
    BY DEF SchedulerTypeOK, DeregisterSelf, Task
  <1> QED
    BY <1>1 DEF SchedulerTypeOK, DeregisterSelf

\* PeriodicTask::run arms a task of the map, never the null pointer.
LEMMA FinishPeriodicType ==
  ASSUME SchedulerTypeOK, FinishPeriodic
  PROVE  SchedulerTypeOK'
  <1>1. running \in Task /\ running.tag \in Tag
    BY DEF SchedulerTypeOK, FinishPeriodic, Task
  <1> QED
    BY <1>1 DEF SchedulerTypeOK, FinishPeriodic

-----------------------------------------------------------------------------
(* Jobs in the executor's queue.                                            *)

\* Executor::execute adds its job and keeps the others.
LEMMA QueuedAfterAppend ==
  ASSUME NEW q \in Seq(Task), NEW t \in Task
  PROVE  Range(Append(q, t)) = Range(q) \cup {t}
  <1>1. /\ DOMAIN q = 1..Len(q)
        /\ Len(q) \in Nat
        /\ DOMAIN Append(q, t) = 1..(Len(q) + 1)
        /\ \A i \in 1..Len(q) : Append(q, t)[i] = q[i]
        /\ Append(q, t)[Len(q) + 1] = t
    OBVIOUS
  <1> QED
    BY <1>1 DEF Range

\* waitForJob takes the first job and keeps the others.
LEMMA QueuedAfterTail ==
  ASSUME NEW q \in Seq(Task), q # <<>>
  PROVE  /\ Range(Tail(q)) \subseteq Range(q)
         /\ Head(q) \in Range(q)
         /\ \A t \in Range(q) : t # Head(q) => t \in Range(Tail(q))
  <1>1. /\ DOMAIN q = 1..Len(q)
        /\ Len(q) \in Nat \ {0}
        /\ DOMAIN Tail(q) = 1..(Len(q) - 1)
        /\ \A i \in 1..(Len(q) - 1) : Tail(q)[i] = q[i + 1]
        /\ Head(q) = q[1]
    OBVIOUS
  <1>2. \A i \in 1..Len(q) : i = 1 \/ i - 1 \in 1..(Len(q) - 1)
    BY <1>1
  <1>3. Range(Tail(q)) \subseteq Range(q) /\ Head(q) \in Range(q)
    BY <1>1 DEF Range
  <1>4. ASSUME NEW t \in Range(q), t # Head(q)
        PROVE  t \in Range(Tail(q))
    <2>1. PICK i \in 1..Len(q) : t = q[i]
      BY <1>1 DEF Range
    <2>2. i - 1 \in 1..(Len(q) - 1)
      BY <1>1, <1>2, <1>4, <2>1
    <2>3. Tail(q)[i - 1] = t
      BY <1>1, <2>1, <2>2
    <2> QED
      BY <1>1, <2>2, <2>3 DEF Range
  <1> QED
    BY <1>3, <1>4

-----------------------------------------------------------------------------
(* SchedulerClients: types.                                                 *)

\* A new scheduler is well formed.
LEMMA ClientsInitType == ClientsInit => ClientsTypeOK
  <1> SUFFICES ASSUME ClientsInit PROVE ClientsTypeOK
    OBVIOUS
  <1>1. m_queue \in Seq(Task)
    BY DEF ClientsInit, SchedulerInit
  <1>2. SchedulerTypeOK
    BY <1>1 DEF ClientsInit, SchedulerInit, SchedulerTypeOK
  <1> QED
    BY <1>2, Zenon DEF ClientsInit, ClientsTypeOK

\* Every operation of the scheduler, its clients and its executor keeps the
\* types: the operations of Scheduler by their lemmas, the rest directly.
LEMMA ClientsNextType == ClientsTypeOK /\ [ClientsNext]_clientsVars => ClientsTypeOK'
  <1> SUFFICES ASSUME ClientsTypeOK, [ClientsNext]_clientsVars PROVE ClientsTypeOK'
    OBVIOUS
  <1>0. SchedulerTypeOK
    BY DEF ClientsTypeOK
  <1>1. CASE Start
    BY <1>1 DEF ClientsTypeOK, Start, schedulerVars, SchedulerTypeOK
  <1>2. CASE Shutdown
    BY <1>2 DEF ClientsTypeOK, Shutdown, schedulerVars, SchedulerTypeOK
  <1>3. ASSUME NEW c \in Client, NEW t \in Task, ClientAddToMap(c, t)
        PROVE  ClientsTypeOK'
    <2>1. SchedulerTypeOK'
      BY <1>0, <1>3, AddToMapType DEF ClientAddToMap
    <2> QED
      BY <1>3, <2>1 DEF ClientsTypeOK, ClientAddToMap, AddToMap
  <1>13. ASSUME NEW c \in Client, ClientAddArm(c) PROVE ClientsTypeOK'
    <2>1. adding[c] \in Task
      BY <1>13 DEF ClientsTypeOK, ClientAddArm
    <2>2. SchedulerTypeOK'
      BY <1>0, <1>13, <2>1, ArmAddedType DEF ClientAddArm
    <2> QED
      BY <1>13, <2>1, <2>2 DEF ClientsTypeOK, ClientAddArm, ArmAdded, Grant
  <1>4. ASSUME NEW g \in Tag, ClientDelete(g) PROVE ClientsTypeOK'
    <2>1. SchedulerTypeOK'
      BY <1>0, <1>4, DeleteTaskType DEF ClientDelete
    <2> QED
      BY <1>4, <2>1 DEF ClientsTypeOK, ClientDelete, DeleteTask, SchedulerTypeOK
  <1>5. ASSUME NEW gs \in SUBSET Tag, ClientDeleteMatching(gs) PROVE ClientsTypeOK'
    <2>1. SchedulerTypeOK'
      BY <1>0, <1>5, DeleteMatchingType DEF ClientDeleteMatching
    <2> QED
      BY <1>5, <2>1 DEF ClientsTypeOK, ClientDeleteMatching, DeleteMatching, SchedulerTypeOK
  <1>6. ASSUME NEW g \in Tag, ClientRescheduleTag(g) PROVE ClientsTypeOK'
    <2>1. SchedulerTypeOK'
      BY <1>0, <1>6, RescheduleTagType DEF ClientRescheduleTag
    <2> QED
      BY <1>6, <2>1
      DEF ClientsTypeOK, ClientRescheduleTag, RescheduleTag, SchedulerTypeOK, GrantTag, Grant
  <1>7. ASSUME NEW t \in Task, ClientReschedule(t) PROVE ClientsTypeOK'
    <2>1. SchedulerTypeOK'
      BY <1>0, <1>7, RescheduleTaskType DEF ClientReschedule
    <2>2. t.tag \in Tag
      BY DEF Task
    <2> QED
      BY <1>7, <2>1, <2>2
      DEF ClientsTypeOK, ClientReschedule, RescheduleTask, RescheduleTag, AddTask,
          SchedulerTypeOK, GrantTag, Grant
  <1>8. ASSUME NEW t \in Task, ClientFireTimer(t) PROVE ClientsTypeOK'
    <2>1. SchedulerTypeOK'
      BY <1>0, <1>8, FireType DEF ClientFireTimer
    <2> QED
      BY <1>8, <2>1 DEF ClientsTypeOK, ClientFireTimer, Fire
  <1>9. CASE ExecutorTake
    <2>1. SchedulerTypeOK'
      BY <1>0, <1>9, TakeJobType DEF ExecutorTake
    <2> QED
      BY <1>9, <2>1 DEF ClientsTypeOK, ExecutorTake, TakeJob
  <1>10. CASE ExecutorReturn
    <2>1. SchedulerTypeOK'
      BY <1>0, <1>10, OneTimeReturnType DEF ExecutorReturn
    <2> QED
      BY <1>10, <2>1 DEF ClientsTypeOK, SchedulerTypeOK, ExecutorReturn, OneTimeReturn
  <1>14. CASE ExecutorDeregister
    <2>1. SchedulerTypeOK'
      BY <1>0, <1>14, DeregisterSelfType DEF ExecutorDeregister
    <2>2. running.tag \in Tag
      BY <1>0, <1>14 DEF ExecutorDeregister, DeregisterSelf, SchedulerTypeOK, Task
    <2>3. m_taskMap[running.tag] \in Task \cup {NoTask}
      BY <1>0, <2>2 DEF SchedulerTypeOK
    <2>4. cancelled' \subseteq Task
      BY <1>14, <2>3 DEF ClientsTypeOK, ExecutorDeregister
    <2> QED
      BY <1>14, <2>1, <2>4 DEF ClientsTypeOK, ExecutorDeregister
  <1>11. CASE ExecutorFinishPeriodic
    <2>1. SchedulerTypeOK'
      BY <1>0, <1>11, FinishPeriodicType DEF ExecutorFinishPeriodic
    <2>2. running.tag \in Tag
      BY <1>0, <1>11 DEF ExecutorFinishPeriodic, FinishPeriodic, SchedulerTypeOK, Task
    <2> QED
      BY <1>11, <2>1, <2>2
      DEF ClientsTypeOK, ExecutorFinishPeriodic, FinishPeriodic, SchedulerTypeOK, GrantTag,
          Grant
  <1>12. CASE UNCHANGED clientsVars
    BY <1>12 DEF ClientsTypeOK, clientsVars, schedulerVars, SchedulerTypeOK
  <1> QED
    BY <1>1, <1>2, <1>3, <1>4, <1>5, <1>6, <1>7, <1>8, <1>9, <1>10, <1>11,
       <1>12, <1>13, <1>14 DEF ClientsNext, Executor

\* The scheduler's map, timers, queue and flags stay well formed whatever its
\* clients do (all operations of Scheduler, Executor and Task).
THEOREM ClientsTypeCorrect == ClientsSpec => []ClientsTypeOK
  BY ClientsInitType, ClientsNextType, PTL DEF ClientsSpec

-----------------------------------------------------------------------------
(* Timers, runs and periodic tasks.                                         *)

\* Why a job runs at most once per grant: a timer or a queued job that would
\* still enter the callback of its task belongs to a grant not yet used, and
\* a running task that has been marked is still marked or granted again.
JobsAreGranted ==
    /\ \A t \in Task : /\ t \in armed \/ t \in Range(m_queue)
                       /\ t \notin m_invoked
                       /\ t # running
                       => t \in granted
    /\ running # NoTask /\ (IsPeriodic(running) \/ returned) =>
           running \in m_invoked \/ running \in granted

ClientsIInv == ClientsTypeOK /\ PeriodicAlive /\ JobsAreGranted

\* A new scheduler has no task that could have died or could run.
LEMMA ClientsInitInv == ClientsInit => ClientsIInv
  <1> SUFFICES ASSUME ClientsInit PROVE ClientsIInv
    OBVIOUS
  <1>1. ClientsTypeOK
    BY ClientsInitType
  <1>3. PeriodicAlive
    BY TagAssumption DEF ClientsInit, SchedulerInit, PeriodicAlive
  <1>4. Range(m_queue) = {}
    BY DEF ClientsInit, SchedulerInit, Range
  <1>5. JobsAreGranted
    BY <1>4 DEF ClientsInit, SchedulerInit, JobsAreGranted
  <1> QED
    BY <1>1, <1>3, <1>5 DEF ClientsIInv

\* A periodic task of the map keeps its timer, a queued job or its run.
LEMMA NextPeriodic == ClientsIInv /\ [ClientsNext]_clientsVars => PeriodicAlive'
  <1> SUFFICES ASSUME ClientsIInv, [ClientsNext]_clientsVars PROVE PeriodicAlive'
    OBVIOUS
  <1> USE DEF PeriodicAlive
  <1>0. /\ PeriodicAlive
        /\ m_taskMap \in [Tag -> Task \cup {NoTask}]
        /\ \A g \in Tag : m_taskMap[g] # NoTask => m_taskMap[g].tag = g
        /\ m_queue \in Seq(Task)
        /\ adding \in [Client -> Task \cup {NoTask}]
        /\ running \in Task \cup {NoTask}
        /\ \A t \in Task : t.tag \in Tag
        /\ NoTask \notin Task
        /\ PeriodicTag \subseteq Tag
    BY NoTaskNotTask, TagAssumption DEF ClientsIInv, ClientsTypeOK, SchedulerTypeOK, Task
  <1>1. CASE Start \/ Shutdown \/ UNCHANGED clientsVars
    BY <1>0, <1>1 DEF Start, Shutdown, clientsVars, schedulerVars
  <1>2. ASSUME NEW t \in Task, AddTask(t), UNCHANGED adding PROVE PeriodicAlive'
    BY <1>0, <1>2 DEF AddTask
  <1>3. ASSUME NEW g \in Tag, RescheduleTag(g), UNCHANGED adding
        PROVE  PeriodicAlive'
    BY <1>0, <1>3 DEF RescheduleTag
  <1>12. ASSUME NEW c \in Client, NEW t \in Task, ClientAddToMap(c, t)
        PROVE  PeriodicAlive'
    BY <1>0, <1>12 DEF ClientAddToMap, AddToMap
  <1>13. ASSUME NEW c \in Client, ClientAddArm(c) PROVE PeriodicAlive'
    BY <1>0, <1>13 DEF ClientAddArm, ArmAdded
  <1>4. ASSUME NEW t \in Task, ClientReschedule(t) PROVE PeriodicAlive'
    BY <1>0, <1>2, <1>3, <1>4 DEF ClientReschedule, RescheduleTask
  <1>5. ASSUME NEW g \in Tag, ClientDelete(g) PROVE PeriodicAlive'
    BY <1>0, <1>5 DEF ClientDelete, DeleteTask
  <1>6. ASSUME NEW gs \in SUBSET Tag, ClientDeleteMatching(gs)
        PROVE  PeriodicAlive'
    BY <1>0, <1>6 DEF ClientDeleteMatching, DeleteMatching
  <1>7. ASSUME NEW g \in Tag, ClientRescheduleTag(g) PROVE PeriodicAlive'
    BY <1>3, <1>7 DEF ClientRescheduleTag
  <1>8. ASSUME NEW t \in Task, ClientFireTimer(t) PROVE PeriodicAlive'
    <2>1. Range(m_queue') = Range(m_queue) \cup {t}
      BY <1>0, <1>8, QueuedAfterAppend DEF ClientFireTimer, Fire
    <2> QED
      BY <1>0, <1>8, <2>1 DEF ClientFireTimer, Fire
  <1>9. CASE ExecutorTake
    <2>1. \A t \in Range(m_queue) : t # Head(m_queue) => t \in Range(m_queue')
      BY <1>0, <1>9, QueuedAfterTail DEF ExecutorTake, TakeJob
    <2> QED
      BY <1>0, <1>9, <2>1 DEF ExecutorTake, TakeJob, IsPeriodic
  <1>10. CASE ExecutorReturn
    BY <1>0, <1>10 DEF ExecutorReturn, OneTimeReturn, IsPeriodic
  <1>14. CASE ExecutorDeregister
    <2>1. running.tag \notin PeriodicTag
      BY <1>14 DEF ExecutorDeregister, ClientsIInv, ClientsTypeOK, IsPeriodic
    <2> QED
      BY <1>0, <1>14, <2>1 DEF ExecutorDeregister, DeregisterSelf
  <1>11. CASE ExecutorFinishPeriodic
    BY <1>0, <1>11 DEF ExecutorFinishPeriodic, FinishPeriodic
  <1> QED
    BY <1>1, <1>4, <1>5, <1>6, <1>7, <1>8, <1>9, <1>10, <1>11, <1>12, <1>13,
       <1>14 DEF ClientsNext, Executor

\* Every effective timer and job belongs to an unused grant.
LEMMA NextGranted == ClientsIInv /\ [ClientsNext]_clientsVars => JobsAreGranted'
  <1> SUFFICES ASSUME ClientsIInv, [ClientsNext]_clientsVars PROVE JobsAreGranted'
    OBVIOUS
  <1> USE DEF JobsAreGranted
  <1>0. /\ JobsAreGranted
        /\ m_taskMap \in [Tag -> Task \cup {NoTask}]
        /\ m_queue \in Seq(Task)
        /\ adding \in [Client -> Task \cup {NoTask}]
        /\ running \in Task \cup {NoTask}
        /\ \A t \in Task : t.tag \in Tag
        /\ NoTask \notin Task
        /\ returned => running # NoTask /\ ~IsPeriodic(running)
    BY NoTaskNotTask DEF ClientsIInv, ClientsTypeOK, SchedulerTypeOK, Task
  <1>1. CASE Start \/ Shutdown \/ UNCHANGED clientsVars
    BY <1>0, <1>1 DEF Start, Shutdown, clientsVars, schedulerVars
  <1>2. ASSUME NEW c \in Client, NEW t \in Task, ClientAddToMap(c, t)
        PROVE  JobsAreGranted'
    BY <1>0, <1>2 DEF ClientAddToMap, AddToMap
  <1>12. ASSUME NEW c \in Client, ClientAddArm(c) PROVE JobsAreGranted'
    BY <1>0, <1>12 DEF ClientAddArm, ArmAdded, Grant
  <1>3. ASSUME NEW g \in Tag, RescheduleTag(g), GrantTag(g), UNCHANGED returned
        PROVE  JobsAreGranted'
    BY <1>0, <1>3 DEF RescheduleTag, GrantTag, Grant
  <1>4. ASSUME NEW t \in Task, ClientReschedule(t) PROVE JobsAreGranted'
    <2>1. CASE m_taskMap[t.tag] = NoTask
      BY <1>0, <1>4, <2>1 DEF ClientReschedule, RescheduleTask, AddTask, Grant
    <2>2. CASE m_taskMap[t.tag] # NoTask
      BY <1>0, <1>3, <1>4, <2>2 DEF ClientReschedule, RescheduleTask
    <2> QED
      BY <2>1, <2>2
  <1>5. ASSUME NEW g \in Tag, ClientDelete(g) PROVE JobsAreGranted'
    BY <1>0, <1>5 DEF ClientDelete, DeleteTask
  <1>6. ASSUME NEW gs \in SUBSET Tag, ClientDeleteMatching(gs)
        PROVE  JobsAreGranted'
    BY <1>0, <1>6 DEF ClientDeleteMatching, DeleteMatching
  <1>7. ASSUME NEW g \in Tag, ClientRescheduleTag(g) PROVE JobsAreGranted'
    BY <1>3, <1>7 DEF ClientRescheduleTag
  <1>8. ASSUME NEW t \in Task, ClientFireTimer(t) PROVE JobsAreGranted'
    <2>1. Range(m_queue') = Range(m_queue) \cup {t}
      BY <1>0, <1>8, QueuedAfterAppend DEF ClientFireTimer, Fire
    <2> QED
      BY <1>0, <1>8, <2>1 DEF ClientFireTimer, Fire
  <1>9. CASE ExecutorTake
    <2>1. Range(m_queue') \subseteq Range(m_queue) /\ Head(m_queue) \in Task
      BY <1>0, <1>9, QueuedAfterTail DEF ExecutorTake, TakeJob
    <2> QED
      BY <1>0, <1>9, <2>1 DEF ExecutorTake, TakeJob, IsPeriodic
  <1>10. CASE ExecutorReturn
    BY <1>0, <1>10 DEF ExecutorReturn, OneTimeReturn
  <1>13. CASE ExecutorDeregister
    BY <1>0, <1>13 DEF ExecutorDeregister, DeregisterSelf
  <1>11. CASE ExecutorFinishPeriodic
    BY <1>0, <1>11 DEF ExecutorFinishPeriodic, FinishPeriodic, GrantTag, Grant
  <1> QED
    BY <1>1, <1>2, <1>4, <1>5, <1>6, <1>7, <1>8, <1>9, <1>10, <1>11, <1>12,
       <1>13 DEF ClientsNext, Executor

\* The invariant is inductive.
LEMMA ClientsNextInv == ClientsIInv /\ [ClientsNext]_clientsVars => ClientsIInv'
  BY ClientsNextType, NextPeriodic, NextGranted DEF ClientsIInv

\* The invariant holds in every reachable state.
LEMMA ClientsAlwaysInv == ClientsSpec => []ClientsIInv
  BY ClientsInitInv, ClientsNextInv, PTL DEF ClientsSpec

\* A periodic task that is registered never dies, for any number of clients,
\* tags and objects (PeriodicTask::run, Scheduler::addTask, rescheduleTask).
THEOREM PeriodicNeverDies == ClientsSpec => []PeriodicAlive
  <1>1. ClientsIInv => PeriodicAlive
    BY DEF ClientsIInv
  <1> QED
    BY <1>1, ClientsAlwaysInv, PTL

\* A callback is entered at most once per addTask or rescheduleTask, for any
\* interleaving of timers, jobs and clients (Task::m_invoked).
THEOREM RunOncePerGrant == ClientsSpec => OneRunPerGrant
  <1>1. ASSUME ClientsIInv, [ClientsNext]_clientsVars, running' # NoTask, running' # running
        PROVE  running' \in granted
    <2>1. ExecutorTake
      BY <1>1 DEF ClientsNext, Executor, Start, Shutdown, ClientAddToMap, AddToMap,
         ClientAddArm, ArmAdded, AddTask,
         ClientDelete, DeleteTask, ClientDeleteMatching, DeleteMatching,
         ClientRescheduleTag, RescheduleTag, ClientReschedule, RescheduleTask,
         ClientFireTimer, Fire, ExecutorReturn, OneTimeReturn, ExecutorDeregister,
         DeregisterSelf,
         ExecutorFinishPeriodic, FinishPeriodic, clientsVars, schedulerVars
    <2>2. m_queue \in Seq(Task) /\ m_queue # <<>>
      BY <1>1, <2>1 DEF ClientsIInv, ClientsTypeOK, SchedulerTypeOK, ExecutorTake, TakeJob
    <2>3. Head(m_queue) \in Range(m_queue) /\ Head(m_queue) \in Task
      BY <2>2, QueuedAfterTail
    <2> QED
      BY <1>1, <2>1, <2>3, NoTaskNotTask
      DEF ClientsIInv, JobsAreGranted, ExecutorTake, TakeJob
  <1>2. ClientsIInv /\ [ClientsNext]_clientsVars =>
          [running' # NoTask /\ running' # running => running' \in granted]_clientsVars
    BY <1>1
  <1> QED
    BY <1>2, ClientsAlwaysInv, PTL DEF ClientsSpec, OneRunPerGrant

-----------------------------------------------------------------------------
(* What was asked for will run.                                             *)

\* A task that waits for its run has a clear flag, so that its job, once the
\* timer has queued it, is effective.
GrantsHold ==
    \A t \in granted \ cancelled :
        t \notin m_invoked /\ (t \in armed \/ t \in Range(m_queue))

\* Clients and threads take a task's timer or job away, or spend its flag, only
\* when they also delete the task, run it, or end its run.
LEMMA NextGrants == ClientsTypeOK /\ GrantsHold /\ [ClientsNext]_clientsVars => GrantsHold'
  <1> SUFFICES ASSUME ClientsTypeOK, GrantsHold, [ClientsNext]_clientsVars PROVE GrantsHold'
    OBVIOUS
  <1> USE DEF GrantsHold
  <1>0. /\ m_taskMap \in [Tag -> Task \cup {NoTask}]
        /\ m_queue \in Seq(Task)
        /\ running \in Task \cup {NoTask}
        /\ granted \subseteq Task
        /\ \A t \in Task : t.tag \in Tag
        /\ NoTask \notin Task
    BY NoTaskNotTask DEF ClientsTypeOK, SchedulerTypeOK, Task
  <1>1. CASE Start \/ Shutdown \/ UNCHANGED clientsVars
    BY <1>1 DEF Start, Shutdown, clientsVars, schedulerVars
  <1>2. ASSUME NEW c \in Client, NEW t \in Task, ClientAddToMap(c, t)
        PROVE  GrantsHold'
    BY <1>2 DEF ClientAddToMap, AddToMap
  <1>3. ASSUME NEW c \in Client, ClientAddArm(c) PROVE GrantsHold'
    BY <1>3 DEF ClientAddArm, ArmAdded, Grant
  <1>4. ASSUME NEW g \in Tag, RescheduleTag(g), GrantTag(g)
        PROVE  GrantsHold'
    BY <1>0, <1>4 DEF RescheduleTag, GrantTag, Grant
  <1>5. ASSUME NEW g \in Tag, ClientRescheduleTag(g) PROVE GrantsHold'
    BY <1>4, <1>5 DEF ClientRescheduleTag
  <1>6. ASSUME NEW t \in Task, ClientReschedule(t) PROVE GrantsHold'
    <2>1. CASE m_taskMap[t.tag] = NoTask
      BY <1>0, <1>6, <2>1 DEF ClientReschedule, RescheduleTask, AddTask, Grant
    <2>2. CASE m_taskMap[t.tag] # NoTask
      BY <1>0, <1>4, <1>6, <2>2 DEF ClientReschedule, RescheduleTask
    <2> QED
      BY <2>1, <2>2
  <1>7. ASSUME NEW g \in Tag, ClientDelete(g) PROVE GrantsHold'
    BY <1>0, <1>7 DEF ClientDelete, DeleteTask
  <1>8. ASSUME NEW gs \in SUBSET Tag, ClientDeleteMatching(gs)
        PROVE  GrantsHold'
    BY <1>0, <1>8 DEF ClientDeleteMatching, DeleteMatching
  <1>9. ASSUME NEW t \in Task, ClientFireTimer(t) PROVE GrantsHold'
    <2>1. Range(m_queue') = Range(m_queue) \cup {t}
      BY <1>0, <1>9, QueuedAfterAppend DEF ClientFireTimer, Fire
    <2> QED
      BY <1>9, <2>1 DEF ClientFireTimer, Fire
  <1>10. CASE ExecutorTake
    <2>1. \A t \in Range(m_queue) : t # Head(m_queue) => t \in Range(m_queue')
      BY <1>0, <1>10, QueuedAfterTail DEF ExecutorTake, TakeJob
    <2>2. CASE Head(m_queue) \in m_invoked
      BY <1>10, <2>1, <2>2 DEF ExecutorTake, TakeJob
    <2>3. CASE Head(m_queue) \notin m_invoked
      BY <1>10, <2>1, <2>3 DEF ExecutorTake, TakeJob
    <2> QED
      BY <2>2, <2>3
  <1>11. CASE ExecutorReturn
    BY <1>11 DEF ExecutorReturn, OneTimeReturn
  <1>12. CASE ExecutorDeregister
    BY <1>0, <1>12 DEF ExecutorDeregister, DeregisterSelf
  <1>13. CASE ExecutorFinishPeriodic
    BY <1>0, <1>13 DEF ExecutorFinishPeriodic, FinishPeriodic, GrantTag, Grant
  <1> QED
    BY <1>1, <1>2, <1>3, <1>5, <1>6, <1>7, <1>8, <1>9, <1>10, <1>11, <1>12,
       <1>13 DEF ClientsNext, Executor

\* What was added or rescheduled will run unless it is deleted or its run ends
\* first, for any number of clients, tags and objects (addTask, rescheduleTask,
\* OneTimeTask::run and deregisterSelf).
THEOREM GrantsAreKept == ClientsSpec => []GrantedWillRun
  <1>1. ClientsInit => GrantsHold
    BY DEF ClientsInit, GrantsHold
  <1>2. GrantsHold => GrantedWillRun
    BY DEF GrantsHold, GrantedWillRun
  <1> QED
    BY <1>1, <1>2, NextGrants, ClientsTypeCorrect, PTL DEF ClientsSpec

-----------------------------------------------------------------------------
(* Snapshots.                                                               *)

\* The bounds are numbers, and Absent lies below every sequence number.
LEMMA SeqNoFacts ==
  /\ MaxSeq \in Nat /\ MaxLocalSeq \in 0..MaxSeq
  /\ SeqNo \cup {Absent} = (-1)..MaxSeq
  /\ \A s \in Snapshot, d \in Device : s[d] \in (-1)..MaxSeq
  <1>1. MaxSeq \in Nat /\ MaxLocalSeq \in 0..MaxSeq /\ SeqNo \cup {Absent} = (-1)..MaxSeq
    BY MaxSeqAssumption, MaxLocalSeqAssumption DEF SeqNo, Absent
  <1> QED
    BY <1>1 DEF Snapshot

\* The UPDATE raises the number of one device and lowers none.
LEMMA UpdateRaises ==
  ASSUME NEW s \in Snapshot, NEW d \in Device, NEW seq \in SeqNo
  PROVE  /\ UpdateDeviceSeqNo(s, d, seq) \in Snapshot
         /\ AtMost(s, UpdateDeviceSeqNo(s, d, seq))
         /\ UpdateDeviceSeqNo(s, d, seq)[d] >= seq
         /\ UpdateDeviceSeqNo(s, d, seq)[d] # Absent
         /\ \A e \in Device \ {d} : UpdateDeviceSeqNo(s, d, seq)[e] = s[e]
  <1>1. \A e \in Device : s[e] \in Int
    BY SeqNoFacts
  <1> QED
    BY <1>1, SeqNoFacts DEF UpdateDeviceSeqNo, Snapshot, AtMost, SeqNo, Absent

\* The order of snapshots is transitive ...
LEMMA AtMostTrans ==
  ASSUME NEW r \in Snapshot, NEW s \in Snapshot, NEW t \in Snapshot,
         AtMost(r, s), AtMost(s, t)
  PROVE  AtMost(r, t)
  <1>1. \A d \in Device : r[d] \in Int /\ s[d] \in Int /\ t[d] \in Int
    BY SeqNoFacts DEF Snapshot
  <1>2. ASSUME NEW d \in Device PROVE r[d] <= t[d]
    <2>1. r[d] <= s[d] /\ s[d] <= t[d]
      BY DEF AtMost
    <2> QED
      BY <1>1, <2>1
  <1> QED
    BY <1>2 DEF AtMost

\* ... and reflexive.
LEMMA AtMostRefl == ASSUME NEW s \in Snapshot PROVE AtMost(s, s)
  BY SeqNoFacts DEF Snapshot, AtMost

\* Both together.
LEMMA AtMostOrder ==
  ASSUME NEW r \in Snapshot, NEW s \in Snapshot, NEW t \in Snapshot
  PROVE  /\ AtMost(r, r)
         /\ AtMost(r, s) /\ AtMost(s, t) => AtMost(r, t)
  BY AtMostTrans, AtMostRefl

-----------------------------------------------------------------------------
(* What the calls of SyncCore leave well formed.                            *)

\* scheduleOneTimeTask adds a fresh object, so AddTaskType applies.
LEMMA ScheduleOneTimeTaskType ==
  ASSUME SchedulerTypeOK, NEW g \in Tag, ScheduleOneTimeTask(g)
  PROVE  SchedulerTypeOK'
  <1>1. PICK t \in Unused(g) : AddTask(t)
    BY DEF ScheduleOneTimeTask
  <1> QED
    BY <1>1, AddTaskType DEF Unused

\* The empty table and the table of a new device are snapshots.
LEMMA FirstStates == Origin \in Snapshot /\ FirstState \in Snapshot
  BY SeqNoFacts DEF Origin, FirstState, Snapshot, SeqNo, Absent

\* The numbers that the callback is told to fetch for device d when the root
\* goes from one state to another: they end at the new number, and with those
\* already fetched up to the old one they leave no gap.
Fetched(old, new, d) ==
    UNION {(st.old_seq + 1)..st.seq :
              st \in {s \in FindStateDifferences(old, new) : s.name = d}}

\* What FindStateDifferences makes the callback fetch: for every device,
\* exactly the numbers above the old snapshot and up to the new one.
LEMMA FetchedRange ==
  ASSUME NEW old \in Snapshot, NEW new \in Snapshot, NEW d \in Device
  PROVE  /\ Fetched(old, new, d) \subseteq 1..new[d]
         /\ Fetched(old, new, d) \subseteq 1..MaxSeq
         /\ 1..new[d] \subseteq (1..old[d]) \cup Fetched(old, new, d)
  <1>1. old[d] \in (-1)..MaxSeq /\ new[d] \in (-1)..MaxSeq
    BY SeqNoFacts DEF Snapshot
  <1>2. ASSUME NEW n \in Fetched(old, new, d) PROVE n \in 1..new[d]
    <2>1. PICK e \in Device : /\ SyncStateRec(e, old, new).name = d
                              /\ n \in (SyncStateRec(e, old, new).old_seq + 1)
                                          ..SyncStateRec(e, old, new).seq
      BY <1>2 DEF Fetched, FindStateDifferences
    <2>2. e = d
      BY <2>1 DEF SyncStateRec
    <2> QED
      BY <1>1, <2>1, <2>2 DEF SyncStateRec, Absent
  <1>3. 1..new[d] \subseteq 1..MaxSeq
    BY <1>1, SeqNoFacts
  <1>4. ASSUME NEW n \in 1..new[d], n \notin 1..old[d]
        PROVE  n \in Fetched(old, new, d)
    <2>1. n \in Int /\ 1 <= n /\ n <= new[d] /\ ~(n <= old[d])
      BY <1>1, <1>4
    <2>2. old[d] # new[d]
      BY <1>1, <2>1
    <2> DEFINE st == SyncStateRec(d, old, new)
    <2>3. st \in FindStateDifferences(old, new) /\ st.name = d
      BY <2>2 DEF FindStateDifferences, SyncStateRec
    <2>4. n \in (st.old_seq + 1)..st.seq
      BY <1>1, <2>1 DEF SyncStateRec, Absent
    <2> QED
      BY <2>3, <2>4 DEF Fetched
  <1> QED
    BY <1>2, <1>3, <1>4

-----------------------------------------------------------------------------
(* SyncCore: types.                                                         *)

\* What the proofs need of the store and of the threads, without the
\* scheduler.
StoreTypeOK ==
    /\ nodes \in Snapshot
    /\ log \subseteq Snapshot
    /\ rows \in [Snapshot -> Snapshot]
    /\ m_rootHash \in Snapshot
    /\ face \in [pc : FacePc, msg : Msg, old : Snapshot, new : Snapshot]
    /\ exec \in [pc : ExecPc, old : Snapshot, new : Snapshot]
    /\ reported \in [Device -> SUBSET (1..MaxSeq)]
    /\ published \in SeqNo

RestTypeOK ==
    /\ expressed \subseteq {"sync", "recover"}
    /\ app \in {"idle", "notify", "dead"}
    /\ recoverFor \in {Origin} \cup {WireHash(h) : h \in PeerHash}
    /\ overlapped \in BOOLEAN

\* The type invariant in three parts, of which a step disturbs few.
LEMMA TypeSplit == TypeOK <=> StoreTypeOK /\ RestTypeOK /\ SchedulerTypeOK
  BY Zenon DEF TypeOK, StoreTypeOK, RestTypeOK

\* The tags of SyncCore and the tasks its constructor makes.
LEMMA TagFacts ==
  /\ SYNC_INTEREST_TAG \in Tag /\ SYNC_INTEREST_TAG2 \in Tag
  /\ LOCAL_STATE_CHANGE_DELAYED_TAG \in Tag /\ RECOVER_TAG \in Tag
  /\ m_sendSyncInterestTask \in Task /\ FirstTask \in Task
  BY TagsAssumption, TaskPoolAssumption
  DEF SyncTags, m_sendSyncInterestTask, FirstTask, Task

\* The states that handleStateData has still to apply form a message.
LEMMA MsgShrinks ==
  ASSUME NEW m \in Msg, NEW st
  PROVE  m \ {st} \in Msg
  BY DEF Msg

\* Applying one SyncState lowers no entry of SyncNodes.
LEMMA ApplyRaises ==
  ASSUME NEW s \in Snapshot, NEW m \in Msg, NEW st \in m
  PROVE  /\ ApplyState(s, st) \in Snapshot
         /\ AtMost(s, ApplyState(s, st))
  <1>1. st.name \in Device /\ st.seq \in SeqNo \cup {Absent}
    BY LocalAssumption, ToldAssumption DEF Msg
  <1> QED
    BY <1>1, UpdateRaises, AtMostRefl DEF ApplyState

\* GetNextLocalSeqNo raises the local entry and no other.
LEMMA NextLocalRaises ==
  ASSUME NEW s \in Snapshot, s[Local] < MaxLocalSeq
  PROVE  LET t == UpdateDeviceSeqNo(s, Local, s[Local] + 1)
         IN  t \in Snapshot /\ AtMost(s, t) /\ (\A e \in Remotes : t[e] = s[e])
  <1>1. s[Local] \in (-1)..MaxSeq
    BY SeqNoFacts, LocalAssumption DEF Snapshot
  <1>2. s[Local] + 1 \in SeqNo
    BY <1>1, SeqNoFacts DEF SeqNo
  <1> QED
    BY <1>2, UpdateRaises, LocalAssumption DEF Remotes

\* Every step leaves the scheduler well formed (lemmas of Scheduler_proofs).
LEMMA NextSchedulerType ==
  ASSUME SchedulerTypeOK, [Next]_vars
  PROVE  SchedulerTypeOK'
  <1>1. CASE UNCHANGED schedulerVars
    BY <1>1 DEF schedulerVars, SchedulerTypeOK
  <1>2. CASE AppStep
    BY <1>1, <1>2, TagFacts, ScheduleOneTimeTaskType
    DEF AppStep, GetNextLocalSeqNo, LocalStateChangedDelayed
  <1>3. CASE Deliver
    BY <1>1, <1>3, TagFacts, ScheduleOneTimeTaskType
    DEF Deliver, HandleSyncInterest, HandleData, Parses
  <1>4. CASE FaceStep
    <2>1. CASE HandleDataDeleteTask
      BY <2>1, TagFacts, DeleteTaskType DEF HandleDataDeleteTask
    <2>2. CASE HandleDataSchedule
      BY <1>1, <2>2, TagFacts, ScheduleOneTimeTaskType DEF HandleDataSchedule
    <2> QED
      BY <1>1, <1>4, <2>1, <2>2
      DEF FaceStep, HandleStateApply, HandleStateOldHash, HandleStateRemember,
          HandleStateInsertRows, HandleStateAssign, HandleStateDiff
  <1>5. CASE ExecStep
    <2>1. CASE ExecTake
      BY <2>1, TakeJobType DEF ExecTake
    <2>2. CASE LocalDeleteTask
      BY <2>2, TagFacts, DeleteTaskType DEF LocalDeleteTask
    <2>3. CASE LocalSchedule
      BY <1>1, <2>3, TagFacts, ScheduleOneTimeTaskType DEF LocalSchedule
    <2>4. CASE SendSyncInterest
      BY <2>4, TagFacts, RescheduleTaskType DEF SendSyncInterest
    <2>5. CASE ExecReturn
      BY <2>5, OneTimeReturnType DEF ExecReturn
    <2>6. CASE ExecDeregister
      BY <2>6, DeregisterSelfType DEF ExecDeregister
    <2>7. CASE ExecFinishPeriodic
      BY <2>7, FinishPeriodicType DEF ExecFinishPeriodic
    <2> QED
      BY <1>1, <1>5, <2>1, <2>2, <2>3, <2>4, <2>5, <2>6, <2>7
      DEF ExecStep, LocalOldHash, LocalRemember, LocalInsertRows, LocalAssign,
          LocalPublish, Recover
  <1>6. CASE RecoverCrash
    BY <1>6 DEF RecoverCrash, SchedulerTypeOK
  <1>7. ASSUME NEW t \in Task, FireTimer(t) PROVE SchedulerTypeOK'
    BY <1>7, FireType DEF FireTimer
  <1> QED
    BY <1>1, <1>2, <1>3, <1>4, <1>5, <1>6, <1>7 DEF Next, vars, schedulerVars

\* Every step keeps the types of the threads and of the observations.
LEMMA NextRestType ==
  ASSUME RestTypeOK, [Next]_vars
  PROVE  RestTypeOK'
  <1> USE DEF RestTypeOK, observations
  <1>1. CASE UNCHANGED <<expressed, app, recoverFor, overlapped>>
    BY <1>1
  <1>2. CASE AppStep
    BY <1>2 DEF AppStep, GetNextLocalSeqNo, LocalStateChangedDelayed
  <1>3. CASE Deliver
    BY <1>3 DEF Deliver, HandleSyncInterest, HandleData, Parses
  <1>4. CASE LocalAssign \/ LocalInsertRows
    <2>1. overlapped' \in BOOLEAN
      BY <1>4, Zenon DEF LocalAssign, LocalInsertRows
    <2> QED
      BY <1>4, <2>1 DEF LocalAssign, LocalInsertRows
  <1>5. CASE SendSyncInterest \/ Recover \/ RecoverCrash
    BY <1>5 DEF SendSyncInterest, Recover, RecoverCrash
  <1>9. CASE HandleStateDiff
    <2>1. overlapped' \in BOOLEAN
      BY <1>9, Zenon DEF HandleStateDiff
    <2> QED
      BY <1>9, <2>1 DEF HandleStateDiff
  <1>6. CASE FaceStep
    BY <1>1, <1>6, <1>9
    DEF FaceStep, HandleStateApply, HandleStateOldHash, HandleStateRemember,
        HandleStateInsertRows, HandleStateAssign, HandleDataDeleteTask,
        HandleDataSchedule
  <1>7. ASSUME NEW t \in Task, FireTimer(t) PROVE RestTypeOK'
    BY <1>1, <1>7 DEF FireTimer, threadVars
  <1>8. CASE ExecStep
    BY <1>1, <1>4, <1>5, <1>8
    DEF ExecStep, ExecTake, LocalOldHash, LocalRemember, LocalPublish,
        LocalDeleteTask, LocalSchedule, ExecReturn, ExecDeregister,
        ExecFinishPeriodic
  <1> QED
    BY <1>1, <1>2, <1>3, <1>5, <1>6, <1>7, <1>8 DEF Next, vars

-----------------------------------------------------------------------------
(* SyncCore: the inductive invariant.                                       *)

\* How far the callback has come, as long as the executor has not overlapped a
\* handleStateData.  Between messages everything in SyncNodes is reported.
\* While a message is handled, what is reported reaches the state that the
\* difference will start from; the difference ends at SyncNodes, because only
\* the face thread changes the entries of remote devices.
Covered ==
    ~overlapped => \A d \in Remotes :
        /\ face.pc \in {"idle", "delete", "schedule"} =>
               1..nodes[d] \subseteq reported[d]
        /\ face.pc = "apply" => 1..m_rootHash[d] \subseteq reported[d]
        /\ face.pc \in {"remember", "rows", "assign", "diff"} =>
               1..face.old[d] \subseteq reported[d]
        /\ face.pc \in {"rows", "assign"} => face.new[d] = nodes[d]
        /\ face.pc = "diff" => m_rootHash[d] = nodes[d]

\* m_stateUpdateMutex, and what it gives: the state that is being written has no rows.
WrittenAlone ==
    /\ ~(Remembering(face) /\ Remembering(exec))
    /\ \A h \in log : BeingWritten(h) => rows[h] = Origin
    /\ crashed => face.pc = "dead"

\* Of remote devices the rows say no more than the hash, unless noted.
NotAhead == ~overlapped => \A h \in log : \A d \in Remotes : rows[h][d] <= h[d]

RowsInv == RowsNotBehind /\ WrittenAlone /\ NotAhead

StoreInv ==
    /\ StoreTypeOK
    /\ RootRemembered
    /\ RowsInv
    /\ LogIsChain
    /\ NothingInvented
    /\ Covered

\* The empty state is below all others.
LEMMA OriginIsLeast == \A s \in Snapshot : AtMost(Origin, s) /\ AtMost(s, s)
  BY AtMostRefl, SeqNoFacts DEF AtMost, Origin, Absent

\* The constructor establishes the invariant: the first state is logged.
LEMMA InitStore == Init => StoreInv
  <1> SUFFICES ASSUME Init PROVE StoreInv
    OBVIOUS
  <1>0. log = {FirstState} /\ rows[FirstState] = FirstState
    BY FirstStates DEF Init
  <1>1. StoreTypeOK
    BY FirstStates, SeqNoFacts DEF Init, StoreTypeOK, Msg, FacePc, ExecPc, SeqNo
  <1>2. RootRemembered
    BY DEF Init, RootRemembered
  <1>3. LogIsChain
    <2>1. Remembered = {FirstState}
      BY <1>0 DEF Remembered
    <2> QED
      BY <2>1, FirstStates, AtMostRefl DEF Init, LogIsChain
  <1>4. NothingInvented
    BY LocalAssumption DEF Init, NothingInvented, FirstState
  <1>5. Covered
    <2>1. \A d \in Remotes : nodes[d] = -1
      BY DEF Init, Remotes, FirstState, Absent
    <2>2. \A d \in Remotes : 1..nodes[d] = {}
      BY <2>1
    <2>3. face.pc = "idle"
      BY DEF Init
    <2> QED
      BY <2>2, <2>3 DEF Covered
  <1>6. RowsNotBehind
    BY <1>0, FirstStates, AtMostRefl DEF RowsNotBehind
  <1>7. WrittenAlone
    BY DEF Init, WrittenAlone, Remembering, BeingWritten, crashed
  <1>8. \A d \in Remotes : FirstState[d] <= FirstState[d]
    BY DEF Remotes, FirstState, Absent
  <1>9. NotAhead
    BY <1>0, <1>8 DEF NotAhead
  <1> QED
    BY <1>1, <1>2, <1>3, <1>4, <1>5, <1>6, <1>7, <1>9 DEF StoreInv, RowsInv

\* The tables of the log are not written, and a thread does not enter or leave
\* RememberStateInStateLog.
LEMMA SameRows ==
  ASSUME RowsInv, UNCHANGED <<log, rows>>, overlapped => overlapped',
         Remembering(face)' <=> Remembering(face), Remembering(exec)' <=> Remembering(exec),
         Remembering(face) => face'.new = face.new,
         Remembering(exec) => exec'.new = exec.new,
         crashed' <=> crashed, crashed => face'.pc = face.pc
  PROVE  RowsInv'
  <1>1. \A h : BeingWritten(h)' <=> BeingWritten(h)
    BY DEF BeingWritten, Remembering
  <1>2. RowsNotBehind'
    BY <1>1 DEF RowsInv, RowsNotBehind
  <1>3. WrittenAlone'
    BY <1>1 DEF RowsInv, WrittenAlone
  <1>4. NotAhead'
    BY DEF RowsInv, NotAhead
  <1> QED
    BY <1>2, <1>3, <1>4 DEF RowsInv

\* Nothing is written at all.
LEMMA SameLog ==
  ASSUME LogIsChain, UNCHANGED <<nodes, log, rows>>
  PROVE  LogIsChain'
  BY DEF LogIsChain, Remembered

\* What is known of a state of the log and of its rows.
LEMMA Logged ==
  ASSUME StoreInv, NEW h \in log
  PROVE  /\ h \in Snapshot /\ rows[h] \in Snapshot
         /\ \A d \in Device : /\ h[d] \in (-1)..MaxSeq /\ rows[h][d] \in (-1)..MaxSeq
                              /\ nodes[d] \in (-1)..MaxSeq
                              /\ h[d] <= nodes[d] /\ rows[h][d] <= nodes[d]
  <1>1. h \in Snapshot /\ rows[h] \in Snapshot /\ nodes \in Snapshot
    BY DEF StoreInv, StoreTypeOK
  <1>2. h \in Remembered /\ rows[h] \in Remembered
    BY DEF Remembered
  <1>3. AtMost(h, nodes) /\ AtMost(rows[h], nodes)
    BY <1>2 DEF StoreInv, LogIsChain
  <1> QED
    BY <1>1, <1>3, SeqNoFacts DEF AtMost

\* Steps that touch neither the store, nor the face thread, nor the
\* observations, and leave the executor outside localStateChanged's reads.
LEMMA QuietStep ==
  ASSUME StoreInv,
         UNCHANGED <<nodes, log, rows, m_rootHash, face, reported, published, overlapped>>,
         \/ UNCHANGED exec
         \/ /\ exec.pc \notin {"rows", "dead"}
            /\ \E pc \in {"idle", "old", "delete", "schedule", "send", "recover",
                          "finish", "deregister"} :
                  exec' = [exec EXCEPT !.pc = pc]
  PROVE  StoreInv'
  <1>1. StoreTypeOK'
    BY DEF StoreInv, StoreTypeOK, ExecPc
  <1>2. RootRemembered'
    BY DEF StoreInv, StoreTypeOK, RootRemembered
  <1>3. RowsInv'
    <2>1. /\ Remembering(exec)' <=> Remembering(exec)
          /\ crashed' <=> crashed
          /\ Remembering(exec) => exec'.new = exec.new
      BY DEF StoreInv, StoreTypeOK, Remembering, crashed
    <2> QED
      BY <2>1, SameRows DEF StoreInv, Remembering
  <1>4. LogIsChain'
    BY SameLog DEF StoreInv
  <1> QED
    BY <1>1, <1>2, <1>3, <1>4 DEF StoreInv, NothingInvented, Covered

\* Steps of the face thread within handleStateData, or from one message to the next,
\* that change no table leave the rows as they were.
LEMMA FaceMoves ==
  ASSUME StoreInv, UNCHANGED <<log, rows, exec>>, overlapped => overlapped',
         face.pc \notin {"rows", "dead"}, face'.pc # "rows"
  PROVE  RowsInv'
  <1>1. ~crashed /\ ~crashed'
    BY DEF StoreInv, RowsInv, WrittenAlone, crashed
  <1>2. ~Remembering(face) /\ ~Remembering(face)'
    BY DEF Remembering
  <1> QED
    BY <1>1, <1>2, SameRows DEF StoreInv, Remembering

\* So do steps of the executor.
LEMMA ExecMoves ==
  ASSUME StoreInv, UNCHANGED <<log, rows, face>>, overlapped => overlapped',
         exec.pc \notin {"rows", "dead"}, exec'.pc \notin {"rows", "dead"}
  PROVE  RowsInv'
  <1>1. ~crashed /\ ~crashed'
    BY DEF crashed
  <1>2. ~Remembering(exec) /\ ~Remembering(exec)'
    BY DEF Remembering
  <1> QED
    BY <1>1, <1>2, SameRows DEF StoreInv, Remembering

\* Steps of the face thread that only move it on, its locals untouched,
\* within the states between messages.
LEMMA QuietFace ==
  ASSUME StoreInv,
         UNCHANGED <<nodes, log, rows, m_rootHash, exec, reported, published, overlapped>>,
         face.pc \in {"idle", "delete", "schedule"},
         NEW pc \in {"idle", "delete", "schedule"},
         face' = [face EXCEPT !.pc = pc]
  PROVE  StoreInv'
  <1>0. face'.pc = pc
    BY DEF StoreInv, StoreTypeOK
  <1>1. StoreTypeOK'
    BY DEF StoreInv, StoreTypeOK, FacePc
  <1>2. RootRemembered'
    BY DEF StoreInv, StoreTypeOK, RootRemembered
  <1>3. Covered'
    BY DEF StoreInv, StoreTypeOK, Covered
  <1>4. RowsInv' /\ LogIsChain'
    BY <1>0, FaceMoves, SameLog DEF StoreInv
  <1> QED
    BY <1>1, <1>2, <1>3, <1>4 DEF StoreInv, NothingInvented

\* SyncNodes only grows, whoever writes it.
LEMMA NodesGrow ==
  ASSUME StoreInv, nodes' \in Snapshot, AtMost(nodes, nodes'),
         UNCHANGED <<log, rows, reported, published>>
  PROVE  LogIsChain' /\ NothingInvented'
  <1>0. Remembered' = Remembered /\ Remembered \subseteq Snapshot
    BY DEF Remembered, StoreInv, StoreTypeOK
  <1>1. \A s \in Remembered : AtMost(s, nodes')
    BY <1>0, AtMostTrans DEF StoreInv, StoreTypeOK, LogIsChain
  <1>2. LogIsChain'
    BY <1>0, <1>1 DEF StoreInv, LogIsChain
  <1>3. ASSUME NEW d \in Device PROVE /\ nodes[d] \in Int /\ nodes'[d] \in Int
                                      /\ nodes[d] <= nodes'[d]
    BY SeqNoFacts DEF StoreInv, StoreTypeOK, Snapshot, AtMost
  <1>4. ASSUME NEW d \in Device, NEW n \in reported[d] PROVE n <= nodes'[d]
    <2>1. n \in Int /\ n <= nodes[d]
      BY DEF StoreInv, StoreTypeOK, NothingInvented
    <2> QED
      BY <1>3, <2>1
  <1>5. published \in Int /\ published <= nodes[Local]
    BY SeqNoFacts DEF StoreInv, StoreTypeOK, NothingInvented, SeqNo
  <1>6. published <= nodes'[Local]
    BY <1>3, <1>5, LocalAssumption
  <1> QED
    BY <1>2, <1>4, <1>6 DEF NothingInvented

-----------------------------------------------------------------------------
(* One lemma per step that reads or writes the store.                       *)

\* A new local number: SyncNodes grows, the log does not.
LEMMA GetNextLocalSeqNoInv ==
  ASSUME StoreInv, GetNextLocalSeqNo
  PROVE  StoreInv'
  <1> USE DEF GetNextLocalSeqNo, observations
  <1>1. /\ nodes' \in Snapshot /\ AtMost(nodes, nodes')
        /\ \A d \in Remotes : nodes'[d] = nodes[d]
    BY NextLocalRaises DEF StoreInv, StoreTypeOK
  <1>2. StoreTypeOK'
    BY <1>1 DEF StoreInv, StoreTypeOK
  <1>3. LogIsChain' /\ NothingInvented'
    BY <1>1, NodesGrow
  <1>4. RootRemembered' /\ Covered'
    BY <1>1 DEF StoreInv, RootRemembered, Covered
  <1>5. RowsInv'
    BY SameRows DEF StoreInv, Remembering, crashed
  <1> QED
    BY <1>2, <1>3, <1>4, <1>5 DEF StoreInv

\* A message arrives: nothing is recorded yet.
LEMMA HandleDataInv ==
  ASSUME StoreInv, NEW kind, NEW msg \in Msg \cup {Malformed}, HandleData(kind, msg)
  PROVE  StoreInv'
  <1> USE DEF HandleData, Parses, observations, storeVars
  <1>1. CASE msg = Malformed
    BY <1>1, QuietFace
  <1>2. CASE msg # Malformed
    <2>1. face' = [face EXCEPT !.pc = "apply", !.msg = msg] /\ msg \in Msg
      BY <1>2
    <2>0. face'.pc = "apply"
      BY <2>1 DEF StoreInv, StoreTypeOK
    <2>2. StoreTypeOK'
      BY <2>1 DEF StoreInv, StoreTypeOK, FacePc
    <2>3. RootRemembered'
      BY <2>1 DEF StoreInv, StoreTypeOK, RootRemembered
    <2>4. \A d \in Remotes : 1..m_rootHash[d] \subseteq 1..nodes[d]
      <3>1. \A d \in Device : /\ m_rootHash[d] \in Int /\ nodes[d] \in Int
                              /\ m_rootHash[d] <= nodes[d]
        BY Logged, SeqNoFacts DEF StoreInv, RootRemembered
      <3> QED
        BY <3>1 DEF Remotes
    <2>5. Covered'
      BY <2>1, <2>4 DEF StoreInv, StoreTypeOK, Covered
    <2>6. RowsInv' /\ LogIsChain'
      BY <2>0, FaceMoves, SameLog DEF StoreInv
    <2> QED
      BY <2>2, <2>3, <2>5, <2>6 DEF StoreInv, NothingInvented
  <1> QED
    BY <1>1, <1>2

\* One state of the message is recorded: the face thread now owes a report.
LEMMA HandleStateApplyInv ==
  ASSUME StoreInv, NEW st \in face.msg, HandleStateApply(st)
  PROVE  StoreInv'
  <1> USE DEF HandleStateApply, observations
  <1>1. nodes' \in Snapshot /\ AtMost(nodes, nodes')
    BY ApplyRaises DEF StoreInv, StoreTypeOK
  <1>2. StoreTypeOK'
    BY <1>1, MsgShrinks DEF StoreInv, StoreTypeOK
  <1>3. LogIsChain' /\ NothingInvented'
    BY <1>1, NodesGrow
  <1>4. RootRemembered'
    BY DEF StoreInv, StoreTypeOK, RootRemembered
  <1>5. Covered'
    BY DEF StoreInv, StoreTypeOK, Covered
  <1>6. face'.pc = "apply"
    BY DEF StoreInv, StoreTypeOK
  <1>7. RowsInv'
    BY <1>6, FaceMoves
  <1> QED
    BY <1>2, <1>3, <1>4, <1>5, <1>7 DEF StoreInv

\* The old hash is the root, which is logged.
LEMMA HandleStateOldHashInv ==
  ASSUME StoreInv, HandleStateOldHash
  PROVE  StoreInv'
  <1> USE DEF HandleStateOldHash, observations, storeVars
  <1>1. StoreTypeOK'
    BY DEF StoreInv, StoreTypeOK, FacePc
  <1>2. RootRemembered'
    BY DEF StoreInv, StoreTypeOK, RootRemembered
  <1>3. Covered'
    BY DEF StoreInv, StoreTypeOK, Covered
  <1>4. face'.pc = "remember"
    BY DEF StoreInv, StoreTypeOK
  <1>5. RowsInv' /\ LogIsChain'
    BY <1>4, FaceMoves, SameLog DEF StoreInv
  <1> QED
    BY <1>1, <1>2, <1>3, <1>5 DEF StoreInv, NothingInvented

\* A state remembered now subsumes all that were remembered before.
LEMMA RememberChain ==
  ASSUME StoreInv, Remembered' \subseteq Remembered \cup {nodes, Origin},
         UNCHANGED <<nodes, reported, published>>
  PROVE  LogIsChain' /\ NothingInvented'
  <1>1. /\ nodes \in Snapshot /\ Origin \in Snapshot
        /\ Remembered \subseteq Snapshot
    BY FirstStates DEF StoreInv, StoreTypeOK, Remembered
  <1>2. \A s \in Remembered' : AtMost(s, nodes)
    BY <1>1, OriginIsLeast DEF StoreInv, LogIsChain
  <1>3. \A s, t \in Remembered' : AtMost(s, t) \/ AtMost(t, s)
    BY <1>1, <1>2, OriginIsLeast DEF StoreInv, LogIsChain
  <1> QED
    BY <1>2, <1>3 DEF StoreInv, LogIsChain, NothingInvented

\* The first statement of RememberStateInStateLog, by either thread: the state is
\* logged, and has no rows.
LEMMA InsertHashLog ==
  ASSUME StoreInv, InsertHash, UNCHANGED <<nodes, reported, published, overlapped>>
  PROVE  /\ log' \subseteq Snapshot /\ rows' \in [Snapshot -> Snapshot]
         /\ LogIsChain' /\ NothingInvented' /\ NotAhead'
         /\ nodes \in log' /\ rows'[nodes] = Origin
         /\ \A h \in log' : h = nodes \/ (h \in log /\ rows'[h] = rows[h])
  <1>1. nodes \in Snapshot /\ log \subseteq Snapshot /\ rows \in [Snapshot -> Snapshot]
    BY DEF StoreInv, StoreTypeOK
  <1>2. /\ log' = log \cup {nodes} /\ log' \subseteq Snapshot
        /\ rows' \in [Snapshot -> Snapshot] /\ rows'[nodes] = Origin
        /\ \A h \in log' : h = nodes \/ (h \in log /\ rows'[h] = rows[h])
    BY <1>1, FirstStates DEF InsertHash
  <1>3. Remembered' \subseteq Remembered \cup {nodes, Origin}
    BY <1>2 DEF Remembered
  <1>4. LogIsChain' /\ NothingInvented'
    BY <1>3, RememberChain
  <1>5. \A d \in Remotes : Origin[d] <= nodes[d]
    BY <1>1, OriginIsLeast DEF AtMost, Remotes
  <1>6. NotAhead'
    BY <1>2, <1>5 DEF StoreInv, RowsInv, NotAhead
  <1> QED
    BY <1>2, <1>4, <1>6

\* The second statement: the rows of a state below SyncNodes are those of SyncNodes.
LEMMA InsertRowsLog ==
  ASSUME StoreInv, NEW h \in log, InsertRows(h), UNCHANGED <<nodes, log, reported, published>>
  PROVE  /\ rows' \in [Snapshot -> Snapshot]
         /\ LogIsChain' /\ NothingInvented'
         /\ rows'[h] = nodes /\ AtMost(h, rows'[h])
         /\ \A g \in log : g = h \/ rows'[g] = rows[g]
  <1>1. nodes \in Snapshot /\ log \subseteq Snapshot /\ rows \in [Snapshot -> Snapshot]
    BY DEF StoreInv, StoreTypeOK
  <1>2. /\ rows' \in [Snapshot -> Snapshot] /\ rows'[h] = nodes
        /\ \A g \in log : g = h \/ rows'[g] = rows[g]
    BY <1>1 DEF InsertRows
  <1>3. Remembered' \subseteq Remembered \cup {nodes, Origin}
    BY <1>2 DEF Remembered
  <1>4. LogIsChain' /\ NothingInvented'
    BY <1>3, RememberChain
  <1>5. AtMost(h, nodes)
    BY DEF StoreInv, LogIsChain, Remembered
  <1> QED
    BY <1>2, <1>4, <1>5

\* The state that handleStateData remembers is logged before it is the root.
LEMMA HandleStateRememberInv ==
  ASSUME StoreInv, HandleStateRemember
  PROVE  StoreInv'
  <1> USE DEF HandleStateRemember, observations
  <1>0. /\ LogIsChain' /\ NothingInvented' /\ NotAhead' /\ log' \subseteq Snapshot
        /\ rows' \in [Snapshot -> Snapshot] /\ nodes \in log' /\ rows'[nodes] = Origin
        /\ \A h \in log' : h = nodes \/ (h \in log /\ rows'[h] = rows[h])
    BY InsertHashLog
  <1>1. StoreTypeOK'
    BY <1>0 DEF StoreInv, StoreTypeOK, FacePc
  <1>2. RootRemembered'
    BY DEF StoreInv, StoreTypeOK, RootRemembered, InsertHash
  <1>3. Covered'
    BY DEF StoreInv, StoreTypeOK, Covered
  <1>4. /\ face'.pc = "rows" /\ face'.new = nodes /\ exec' = exec
        /\ exec.pc # "rows" /\ exec.pc # "dead" /\ face.pc = "remember"
    BY DEF StoreInv, StoreTypeOK, RowsInv, WrittenAlone, Remembering, crashed
  <1>5. RowsNotBehind'
    BY <1>0, <1>4 DEF StoreInv, RowsInv, RowsNotBehind, BeingWritten, Remembering, crashed
  <1>6. WrittenAlone'
    BY <1>0, <1>4 DEF WrittenAlone, BeingWritten, Remembering, crashed
  <1> QED
    BY <1>0, <1>1, <1>2, <1>3, <1>5, <1>6 DEF StoreInv, RowsInv

\* It gets its rows; of remote devices they say what the hash says.
LEMMA HandleStateInsertRowsInv ==
  ASSUME StoreInv, HandleStateInsertRows
  PROVE  StoreInv'
  <1> USE DEF HandleStateInsertRows, observations
  <1> DEFINE h == face.new
  <1>0. h \in log /\ h \in Snapshot
    BY DEF StoreInv, StoreTypeOK, RootRemembered
  <1>1. /\ LogIsChain' /\ NothingInvented' /\ rows' \in [Snapshot -> Snapshot]
        /\ rows'[h] = nodes /\ AtMost(h, rows'[h])
        /\ \A g \in log : g = h \/ rows'[g] = rows[g]
    BY <1>0, InsertRowsLog
  <1>2. StoreTypeOK'
    BY <1>1 DEF StoreInv, StoreTypeOK, FacePc
  <1>3. RootRemembered'
    BY DEF StoreInv, StoreTypeOK, RootRemembered
  <1>4. Covered'
    BY DEF StoreInv, StoreTypeOK, Covered
  <1>5. /\ face.pc = "rows" /\ face'.pc = "assign" /\ exec' = exec /\ log' = log
        /\ exec.pc # "rows" /\ exec.pc # "dead"
    BY DEF StoreInv, StoreTypeOK, RowsInv, WrittenAlone, Remembering, crashed
  <1>6. RowsNotBehind'
    BY <1>1, <1>5 DEF StoreInv, RowsInv, RowsNotBehind, BeingWritten, Remembering, crashed
  <1>7. WrittenAlone'
    BY <1>5 DEF WrittenAlone, BeingWritten, Remembering, crashed
  <1>8. ~overlapped => \A d \in Remotes : nodes[d] <= h[d]
    <2>1. \A d \in Remotes : h[d] \in Int
      BY <1>0, SeqNoFacts DEF Remotes
    <2> QED
      BY <1>5, <2>1 DEF StoreInv, Covered
  <1>9. NotAhead'
    BY <1>1, <1>8 DEF StoreInv, RowsInv, NotAhead
  <1> QED
    BY <1>1, <1>2, <1>3, <1>4, <1>6, <1>7, <1>9 DEF StoreInv, RowsInv

\* It becomes the root, and the difference from the old hash covers the debt.
LEMMA HandleStateAssignInv ==
  ASSUME StoreInv, HandleStateAssign
  PROVE  StoreInv'
  <1> USE DEF HandleStateAssign, observations
  <1>1. StoreTypeOK'
    BY FirstStates DEF StoreInv, StoreTypeOK, FacePc
  <1>2. RootRemembered'
    BY DEF StoreInv, StoreTypeOK, RootRemembered
  <1>3. Covered'
    BY DEF StoreInv, StoreTypeOK, Covered
  <1>4. face'.pc = "diff"
    BY DEF StoreInv, StoreTypeOK
  <1>5. RowsInv' /\ LogIsChain'
    BY <1>4, FaceMoves, SameLog DEF StoreInv
  <1> QED
    BY <1>1, <1>2, <1>3, <1>5 DEF StoreInv, NothingInvented

\* localStateChanged reads the root, which is logged.
LEMMA LocalOldHashInv ==
  ASSUME StoreInv, LocalOldHash
  PROVE  StoreInv'
  <1> USE DEF LocalOldHash, observations, storeVars
  <1>1. StoreTypeOK'
    BY DEF StoreInv, StoreTypeOK, ExecPc
  <1>2. RootRemembered'
    BY DEF StoreInv, StoreTypeOK, RootRemembered
  <1>3. exec'.pc = "remember"
    BY DEF StoreInv, StoreTypeOK
  <1>4. RowsInv' /\ LogIsChain'
    BY <1>3, ExecMoves, SameLog DEF StoreInv
  <1> QED
    BY <1>1, <1>2, <1>4 DEF StoreInv, NothingInvented, Covered

\* The state that localStateChanged remembers is logged.
LEMMA LocalRememberInv ==
  ASSUME StoreInv, LocalRemember
  PROVE  StoreInv'
  <1> USE DEF LocalRemember, observations
  <1>0. /\ LogIsChain' /\ NothingInvented' /\ NotAhead' /\ log' \subseteq Snapshot
        /\ rows' \in [Snapshot -> Snapshot] /\ nodes \in log' /\ rows'[nodes] = Origin
        /\ \A h \in log' : h = nodes \/ (h \in log /\ rows'[h] = rows[h])
    BY InsertHashLog
  <1>1. StoreTypeOK'
    BY <1>0 DEF StoreInv, StoreTypeOK, ExecPc
  <1>2. RootRemembered'
    BY DEF StoreInv, StoreTypeOK, RootRemembered, InsertHash
  <1>4. /\ exec'.pc = "rows" /\ exec'.new = nodes /\ face' = face
        /\ face.pc # "rows" /\ exec.pc = "remember"
    BY DEF StoreInv, StoreTypeOK, Remembering
  <1>5. RowsNotBehind'
    BY <1>0, <1>4 DEF StoreInv, RowsInv, RowsNotBehind, BeingWritten, Remembering, crashed
  <1>6. WrittenAlone'
    BY <1>0, <1>4 DEF WrittenAlone, BeingWritten, Remembering, crashed
  <1> QED
    BY <1>0, <1>1, <1>2, <1>5, <1>6 DEF StoreInv, RowsInv, Covered

\* It gets its rows; if they are ahead of it by then, overlapped records it.
LEMMA LocalInsertRowsInv ==
  ASSUME StoreInv, LocalInsertRows
  PROVE  StoreInv'
  <1> USE DEF LocalInsertRows
  <1> DEFINE h == exec.new
  <1>0. h \in log /\ h \in Snapshot
    BY DEF StoreInv, StoreTypeOK, RootRemembered
  <1>1. /\ LogIsChain' /\ NothingInvented' /\ rows' \in [Snapshot -> Snapshot]
        /\ rows'[h] = nodes /\ AtMost(h, rows'[h])
        /\ \A g \in log : g = h \/ rows'[g] = rows[g]
    BY <1>0, InsertRowsLog
  <1>2. StoreTypeOK'
    BY <1>1 DEF StoreInv, StoreTypeOK, ExecPc
  <1>3. RootRemembered'
    BY DEF StoreInv, StoreTypeOK, RootRemembered
  <1>4. Covered'
    BY DEF StoreInv, Covered
  <1>5. /\ exec.pc = "rows" /\ exec'.pc = "assign" /\ face' = face /\ log' = log
        /\ face.pc # "rows"
    BY DEF StoreInv, StoreTypeOK, RowsInv, WrittenAlone, Remembering
  <1>6. RowsNotBehind'
    BY <1>1, <1>5 DEF StoreInv, RowsInv, RowsNotBehind, BeingWritten, Remembering, crashed
  <1>7. WrittenAlone'
    BY <1>5 DEF WrittenAlone, BeingWritten, Remembering, crashed
  <1>8. ~overlapped' => \A d \in Remotes : nodes[d] <= h[d]
    <2>1. \A d \in Remotes : h[d] \in Int
      BY <1>0, SeqNoFacts DEF Remotes
    <2>2. ~overlapped' => \A d \in Remotes : nodes[d] = h[d]
      BY Zenon
    <2> QED
      BY <2>1, <2>2
  <1>9. NotAhead'
    BY <1>1, <1>5, <1>8 DEF StoreInv, RowsInv, NotAhead
  <1> QED
    BY <1>1, <1>2, <1>3, <1>4, <1>6, <1>7, <1>9 DEF StoreInv, RowsInv

\* The executor's write to m_rootHash is harmless between messages, and
\* recorded in overlapped during one.
LEMMA LocalAssignInv ==
  ASSUME StoreInv, LocalAssign
  PROVE  StoreInv'
  <1> USE DEF LocalAssign
  <1>1. StoreTypeOK'
    BY FirstStates DEF StoreInv, StoreTypeOK, ExecPc
  <1>2. RootRemembered'
    BY DEF StoreInv, StoreTypeOK, RootRemembered
  <1>3. Covered'
    BY DEF StoreInv, Covered
  <1>4. exec'.pc = "put"
    BY DEF StoreInv, StoreTypeOK
  <1>5. RowsInv' /\ LogIsChain'
    BY <1>4, ExecMoves, SameLog DEF StoreInv
  <1> QED
    BY <1>1, <1>2, <1>3, <1>5 DEF StoreInv, NothingInvented

\* A crash in recover leaves the database as it is.
LEMMA RecoverCrashInv ==
  ASSUME StoreInv, RecoverCrash
  PROVE  StoreInv'
  <1> USE DEF RecoverCrash, observations, storeVars
  <1>1. StoreTypeOK'
    BY DEF StoreInv, StoreTypeOK, FacePc, ExecPc
  <1>2. RootRemembered'
    BY DEF StoreInv, StoreTypeOK, RootRemembered
  <1>3. Covered'
    BY DEF StoreInv, StoreTypeOK, Covered
  <1>4. face'.pc = "dead" /\ exec'.pc = "dead"
    BY DEF StoreInv, StoreTypeOK
  <1>5. RowsNotBehind' /\ WrittenAlone'
    BY <1>4 DEF RowsNotBehind, WrittenAlone, BeingWritten, Remembering, crashed
  <1>6. NotAhead' /\ LogIsChain'
    BY SameLog DEF StoreInv, RowsInv, NotAhead
  <1> QED
    BY <1>1, <1>2, <1>3, <1>5, <1>6 DEF StoreInv, RowsInv, NothingInvented

\* The difference that handleStateData reports starts no later than what has
\* been reported and ends no later than SyncNodes.
LEMMA HandleStateDiffInv ==
  ASSUME StoreInv, HandleStateDiff
  PROVE  StoreInv'
  <1> USE DEF HandleStateDiff, storeVars
  <1> DEFINE old == rows[face.old]
             new == rows[m_rootHash]
  <1>0. face.old \in log /\ m_rootHash \in log /\ face.pc = "diff"
    BY DEF StoreInv, RootRemembered
  <1>1. old \in Snapshot /\ new \in Snapshot
    BY <1>0, Logged
  <1>2. reported' = [d \in Device |-> reported[d] \cup Fetched(old, new, d)]
    BY DEF Fetched
  <1>3. \A d \in Device : reported'[d] \subseteq 1..MaxSeq
    BY <1>1, <1>2, FetchedRange DEF StoreInv, StoreTypeOK
  <1>4. StoreTypeOK'
    BY <1>2, <1>3, FirstStates DEF StoreInv, StoreTypeOK, FacePc
  <1>5. RootRemembered'
    BY DEF StoreInv, StoreTypeOK, RootRemembered
  <1>6. ASSUME NEW d \in Device, NEW n \in reported'[d] PROVE n <= nodes[d]
    <2>1. CASE n \in reported[d]
      BY <2>1 DEF StoreInv, NothingInvented
    <2>2. CASE n \in Fetched(old, new, d)
      <3>1. n \in 1..new[d]
        BY <1>1, <2>2, FetchedRange
      <3>2. new[d] \in Int /\ nodes[d] \in Int /\ new[d] <= nodes[d]
        BY <1>0, Logged, SeqNoFacts
      <3> QED
        BY <3>1, <3>2
    <2> QED
      BY <1>2, <1>6, <2>1, <2>2
  <1>7. NothingInvented'
    BY <1>6 DEF StoreInv, NothingInvented
  <1>8. ASSUME NEW d \in Remotes, ~overlapped'
        PROVE  1..nodes[d] \subseteq reported'[d]
    <2>1. d \in Device /\ ~overlapped /\ new # Origin
      BY <1>8 DEF Remotes
    <2>2. 1..face.old[d] \subseteq reported[d] /\ m_rootHash[d] = nodes[d]
      BY <1>0, <2>1, <1>8 DEF StoreInv, Covered
    <2>3. AtMost(m_rootHash, new)
      BY <1>0, <2>1 DEF StoreInv, RowsInv, RowsNotBehind, WrittenAlone
    <2>4. nodes[d] \in Int /\ new[d] \in Int /\ nodes[d] <= new[d]
      BY <1>0, <2>1, <2>2, <2>3, Logged, SeqNoFacts DEF AtMost
    <2>5. old[d] \in Int /\ face.old[d] \in Int /\ old[d] <= face.old[d]
      <3>1. old[d] <= face.old[d]
        BY <1>0, <2>1, <1>8 DEF StoreInv, RowsInv, NotAhead
      <3> QED
        BY <1>0, <2>1, <3>1, Logged, SeqNoFacts
    <2>6. 1..new[d] \subseteq (1..old[d]) \cup Fetched(old, new, d)
      BY <1>1, <2>1, FetchedRange
    <2> HIDE DEF old, new
    <2>7. 1..nodes[d] \subseteq 1..new[d] /\ 1..old[d] \subseteq 1..face.old[d]
      BY <2>4, <2>5
    <2> QED
      BY <1>2, <2>1, <2>2, <2>6, <2>7
  <1>9. face'.pc = "delete"
    BY DEF StoreInv, StoreTypeOK
  <1>10. Covered'
    BY <1>8, <1>9 DEF Covered
  <1>11. RowsInv' /\ LogIsChain'
    BY <1>9, FaceMoves, SameLog DEF StoreInv
  <1> QED
    BY <1>4, <1>5, <1>7, <1>10, <1>11 DEF StoreInv

\* What localStateChanged puts about the local device is in SyncNodes.
LEMMA LocalPublishInv ==
  ASSUME StoreInv, LocalPublish
  PROVE  StoreInv'
  <1> USE DEF LocalPublish, storeVars
  <1> DEFINE old == rows[exec.old]
             new == rows[m_rootHash]
  <1>1. /\ new[Local] \in (-1)..MaxSeq /\ nodes[Local] \in (-1)..MaxSeq
        /\ new[Local] <= nodes[Local]
    BY Logged, LocalAssumption DEF StoreInv, RootRemembered
  <1> DEFINE mine == {st \in FindStateDifferences(old, new) :
                        st.name = Local /\ st.seq > published}
  <1>2. published' = IF mine = {} THEN published
                                  ELSE (CHOOSE st \in mine : TRUE).seq
    OBVIOUS
  <1>3. \A st \in mine : st.seq = new[Local] /\ st.seq > published
    BY DEF FindStateDifferences, SyncStateRec
  <1> HIDE DEF mine
  <1>4. \/ published' = published
        \/ published' = new[Local] /\ new[Local] > published
    BY <1>2, <1>3
  <1>5. published \in 0..MaxSeq /\ published <= nodes[Local]
    BY DEF StoreInv, StoreTypeOK, SeqNo, NothingInvented
  <1>6. published' \in SeqNo /\ published' <= nodes[Local]
    BY <1>1, <1>4, <1>5, SeqNoFacts DEF SeqNo
  <1>7. StoreTypeOK'
    BY <1>6, FirstStates DEF StoreInv, StoreTypeOK, ExecPc
  <1>8. RootRemembered'
    BY DEF StoreInv, StoreTypeOK, RootRemembered
  <1>9. NothingInvented'
    BY <1>6 DEF StoreInv, NothingInvented
  <1>10. exec'.pc = "delete"
    BY DEF StoreInv, StoreTypeOK
  <1>11. RowsInv' /\ LogIsChain'
    BY <1>10, ExecMoves, SameLog DEF StoreInv
  <1> QED
    BY <1>7, <1>8, <1>9, <1>11 DEF StoreInv, Covered

\* Every step preserves the invariant of the store.
LEMMA NextStore ==
  ASSUME StoreInv, [Next]_vars
  PROVE  StoreInv'
  <1> USE DEF storeVars, observations, threadVars
  <1>1. CASE AppStep
    BY <1>1, GetNextLocalSeqNoInv, QuietStep
    DEF AppStep, LocalStateChangedDelayed
  <1>2. CASE Deliver
    BY <1>2, HandleDataInv, QuietStep DEF Deliver, HandleSyncInterest
  <1>3. CASE FaceStep
    <2>1. CASE HandleDataDeleteTask
      BY <2>1, QuietFace DEF HandleDataDeleteTask
    <2>2. CASE HandleDataSchedule
      BY <2>2, QuietFace DEF HandleDataSchedule
    <2> QED
      BY <1>3, <2>1, <2>2, HandleStateApplyInv, HandleStateOldHashInv,
         HandleStateRememberInv, HandleStateInsertRowsInv, HandleStateAssignInv,
         HandleStateDiffInv
      DEF FaceStep
  <1>4. CASE ExecStep
    <2>1. CASE ExecTake
      <3>1. PICK pc : exec' = [exec EXCEPT !.pc = pc] /\
                      pc \in {"idle", "old", "send", "recover"}
        BY <2>1 DEF ExecTake, Entry
      <3> QED
        BY <2>1, <3>1, QuietStep DEF ExecTake
    <2>2. CASE LocalDeleteTask
      BY <2>2, QuietStep DEF LocalDeleteTask
    <2>3. CASE LocalSchedule
      BY <2>3, QuietStep DEF LocalSchedule
    <2>4. CASE SendSyncInterest
      BY <2>4, QuietStep DEF SendSyncInterest
    <2>5. CASE Recover
      BY <2>5, QuietStep DEF Recover
    <2>6. CASE ExecReturn
      BY <2>6, QuietStep DEF ExecReturn
    <2>7. CASE ExecDeregister
      BY <2>7, QuietStep DEF ExecDeregister
    <2>8. CASE ExecFinishPeriodic
      BY <2>8, QuietStep DEF ExecFinishPeriodic
    <2> QED
      BY <1>4, <2>1, <2>2, <2>3, <2>4, <2>5, <2>6, <2>7, <2>8, LocalOldHashInv,
         LocalRememberInv, LocalInsertRowsInv, LocalAssignInv, LocalPublishInv
      DEF ExecStep
  <1>5. ASSUME NEW t \in Task, FireTimer(t) PROVE StoreInv'
    BY <1>5, QuietStep DEF FireTimer
  <1>6. CASE UNCHANGED vars
    BY <1>6, QuietStep DEF vars
  <1> QED
    BY <1>1, <1>2, <1>3, <1>4, <1>5, <1>6, RecoverCrashInv DEF Next

-----------------------------------------------------------------------------
IInv == TypeOK /\ StoreInv

\* The whole invariant holds initially ...
LEMMA InitInv == Init => IInv
  <1> SUFFICES ASSUME Init PROVE IInv
    OBVIOUS
  <1>1. StoreInv
    BY InitStore
  <1>2. expressed = {} /\ app = "idle" /\ recoverFor = Origin
    BY DEF Init
  <1>3. overlapped \in BOOLEAN
    BY Zenon DEF Init
  <1>4. RestTypeOK
    BY <1>2, <1>3 DEF RestTypeOK
  <1>5. m_queue \in Seq(Task)
    BY DEF Init
  <1>6. SchedulerTypeOK
    BY <1>5, TagFacts DEF Init, SchedulerTypeOK, FirstTask
  <1> QED
    BY <1>1, <1>4, <1>6, TypeSplit DEF IInv, StoreInv

\* ... is preserved by every step ...
LEMMA NextInv == IInv /\ [Next]_vars => IInv'
  <1> SUFFICES ASSUME IInv, [Next]_vars PROVE IInv'
    OBVIOUS
  <1>1. StoreInv' /\ RestTypeOK' /\ SchedulerTypeOK'
    BY NextStore, NextRestType, NextSchedulerType, TypeSplit DEF IInv
  <1>2. TypeOK'
    BY <1>1, TypeSplit, PTL DEF StoreInv
  <1> QED
    BY <1>1, <1>2 DEF IInv

\* ... and so holds in every reachable state.
LEMMA AlwaysInv == Spec => []IInv
  BY InitInv, NextInv, PTL DEF Spec

\* The state of SyncCore and SyncLog stays well formed.
THEOREM TypeCorrect == Spec => []TypeOK
  <1>1. IInv => TypeOK
    BY DEF IInv
  <1> QED
    BY <1>1, AlwaysInv, PTL

\* Every hash that is or was the root, or that a thread is about to compare with,
\* is in the state log; its rows hold all it stands for unless that very state is
\* between the two statements that remember it; and the log is a chain below
\* SyncNodes (localStateChanged, handleStateData, RememberStateInStateLog).
THEOREM RootsAreLogged == Spec => []RootsLogged
  <1>1. IInv => RootsLogged
    BY DEF IInv, StoreInv, RowsInv, RootsLogged
  <1> QED
    BY <1>1, AlwaysInv, PTL

\* The application is told of every remote action that SyncNodes records and of no
\* other, as long as localStateChanged neither writes m_rootHash in the middle of
\* handleStateData, nor gives a state rows ahead of its hash, nor has the rows of the
\* new root deleted when the difference is taken (handleStateData,
\* FindStateDifferences).
THEOREM ReportsAreComplete == Spec => []ReportsComplete
  <1>1. IInv => ReportsComplete
    BY DEF IInv, StoreInv, Covered, ReportsComplete, NothingMissed
  <1> QED
    BY <1>1, AlwaysInv, PTL

-----------------------------------------------------------------------------
(* SyncLog: the inductive invariant.                                        *)

\* The states of the log in tables t, with the tables as a parameter because
\* ROLLBACK brings the saved ones back.
StatesOf(t) == {i \in 1..MaxState : t.state_hash[i] # NoHash}

\* A device has a row in SyncNodes when it has a device_id, and the local one does.
RowsHaveIds(t) ==
    /\ \A d \in Device : t.device_id[d] # 0 <=> t.seq_no[d] # Absent
    /\ t.device_id[Local] # 0

\* LoggedIsKnown, for tables t.
LoggedIn(t) ==
    /\ \A i \in StatesOf(t) : AtMost(t.state_hash[i], t.seq_no)
    /\ \A r \in t.nodes : r.state_id \in StatesOf(t) /\ r.seq_no <= t.seq_no[r.device]

\* state_id grows: no state has a larger one than the latest.
StatesBelow(t) == \A i \in StatesOf(t) : i <= t.last_state

Sound(t) == t \in Tables /\ RowsHaveIds(t) /\ LoggedIn(t) /\ StatesBelow(t)

\* The rows of state i cover its hash in tables t.
Covers(t, i) ==
    /\ \A d \in Device : t.state_hash[i][d] # Absent =>
          \E r \in t.nodes : /\ r.state_id = i /\ r.device = d
                             /\ r.seq_no >= t.state_hash[i][d]
    /\ \A r, q \in t.nodes :
          r.state_id = i /\ q.state_id = i /\ r.device = q.device => r = q

Scalars ==
    /\ last_insert_rowid \in Nat
    /\ remember \in [pc : {"idle", "hash", "rowid", "nodes", "select"}, rowId : Nat]
    /\ next \in SeqNo \cup {Absent}
    /\ settled \subseteq handed /\ handed \subseteq SeqNo
    /\ collided \in BOOLEAN

\* Where the transaction is.  The new state has no rows until they are inserted, and
\* the id it is given is the one that sqlite3_last_insert_rowid reads, unless a
\* device was inserted at the wrong moment.
Transaction ==
    /\ remember.pc = "hash" => db.last_state < MaxState
    /\ remember.pc \in {"rowid", "nodes"} =>
          /\ db.last_state \in StatesOf(db)
          /\ \A r \in db.nodes : r.state_id # db.last_state
    /\ ~collided /\ remember.pc = "rowid" => last_insert_rowid = db.last_state
    /\ ~collided /\ remember.pc = "nodes" => remember.rowId = db.last_state

\* The tables, and those that a rollback would restore, have complete states.
HashesCovered ==
    ~collided =>
      /\ \A i \in StatesOf(db) : ~Unfinished(i) => Covers(db, i)
      /\ \A i \in StatesOf(saved) : Covers(saved, i)

\* A settled number is in SyncNodes, also after a rollback, and below the one that
\* GetNextLocalSeqNo is about to return.
Settled ==
    \A n \in settled : /\ n <= db.seq_no[Local]
                       /\ remember.pc # "idle" => n <= saved.seq_no[Local]
                       /\ next # Absent => n < next

\* The inductive invariant.
LogIInv == Scalars /\ Sound(db) /\ Sound(saved) /\ Transaction /\ HashesCovered /\ Settled

-----------------------------------------------------------------------------
(* SyncLog: snapshots and tables.                                           *)

\* What stands for no hash is no snapshot.
LEMMA NoHashNoSnapshot == NoHash \notin Snapshot
  <1>1. NoHash[Local] = -2 /\ Local \in Device
    BY LogAssumption DEF NoHash
  <1> QED
    BY <1>1, SeqNoFacts

\* A row for a new device raises its number from Absent.
LEMMA InsertRaises ==
  ASSUME NEW s \in Snapshot, NEW d \in Device, NEW seq \in SeqNo, s[d] = Absent
  PROVE  /\ [s EXCEPT ![d] = seq] \in Snapshot
         /\ AtMost(s, [s EXCEPT ![d] = seq])
  <1>1. \A e \in Device : s[e] \in Int
    BY SeqNoFacts
  <1> QED
    BY <1>1, SeqNoFacts DEF Snapshot, AtMost, SeqNo, Absent

-----------------------------------------------------------------------------
(* SyncLog: what the statements do to the tables.                           *)

\* The columns of the tables.
LEMMA Columns ==
  ASSUME NEW t \in Tables
  PROVE  /\ t.seq_no \in Snapshot
         /\ t.device_id \in [Device -> 0..Cardinality(Device)]
         /\ t.state_hash \in [1..MaxState -> Snapshot \cup {NoHash}]
         /\ \A r \in t.nodes : /\ r.state_id \in 1..MaxState /\ r.device \in Device
                               /\ r.seq_no \in SeqNo
         /\ t.last_state \in 0..MaxState
         /\ \A i \in StatesOf(t) : i \in 1..MaxState /\ t.state_hash[i] \in Snapshot
  BY DEF Tables, StatesOf

\* Raising numbers in SyncNodes leaves the log sound.
LEMMA RaisedIsSound ==
  ASSUME NEW t, NEW u \in Tables, Sound(t),
         u.state_hash = t.state_hash, u.nodes = t.nodes, u.last_state = t.last_state,
         RowsHaveIds(u), AtMost(t.seq_no, u.seq_no)
  PROVE  /\ Sound(u) /\ StatesOf(u) = StatesOf(t)
         /\ t.seq_no[Local] <= u.seq_no[Local]
         /\ \A i : Covers(u, i) <=> Covers(t, i)
  <1>1. t \in Tables /\ t.seq_no \in Snapshot /\ u.seq_no \in Snapshot
    BY Columns DEF Sound
  <1>2. StatesOf(u) = StatesOf(t) /\ \A i : Covers(u, i) <=> Covers(t, i)
    BY DEF StatesOf, Covers
  <1>3. \A i \in StatesOf(u) : AtMost(u.state_hash[i], u.seq_no)
    BY <1>1, <1>2, Columns, AtMostOrder DEF Sound, LoggedIn
  <1>4. ASSUME NEW r \in u.nodes
        PROVE  r.state_id \in StatesOf(u) /\ r.seq_no <= u.seq_no[r.device]
    <2>1. r.state_id \in StatesOf(u) /\ r.seq_no <= t.seq_no[r.device] /\ r.device \in Device
      BY <1>1, <1>2, <1>4, Columns DEF Sound, LoggedIn
    <2>2. t.seq_no[r.device] <= u.seq_no[r.device]
      BY <2>1 DEF AtMost
    <2>3. t.seq_no[r.device] \in Int /\ u.seq_no[r.device] \in Int /\ r.seq_no \in Int
      BY <1>1, <1>4, <2>1, SeqNoFacts, Columns DEF SeqNo
    <2> QED
      BY <2>1, <2>2, <2>3
  <1>5. StatesBelow(u)
    BY <1>2 DEF Sound, StatesBelow
  <1>6. t.seq_no[Local] <= u.seq_no[Local]
    BY LogAssumption DEF AtMost
  <1> QED
    BY <1>2, <1>3, <1>4, <1>5, <1>6 DEF Sound, LoggedIn

\* Tables u are t with larger numbers in SyncNodes and the same log.
Raised(t, u) ==
    /\ Sound(u) /\ StatesOf(u) = StatesOf(t)
    /\ t.seq_no[Local] <= u.seq_no[Local]
    /\ u.last_state = t.last_state /\ u.nodes = t.nodes
    /\ \A i : Covers(u, i) <=> Covers(t, i)

Updated(t, d, seq) == [t EXCEPT !.seq_no = UpdateDeviceSeqNo(t.seq_no, d, seq)]

\* UPDATE SyncNodes, for a device that has a row.
LEMMA UpdatedIsSound ==
  ASSUME NEW t, Sound(t), NEW d \in Device, NEW seq \in SeqNo, t.device_id[d] # 0
  PROVE  Raised(t, Updated(t, d, seq)) /\ Updated(t, d, seq).seq_no[d] >= seq
  <1> DEFINE u == Updated(t, d, seq)
  <1>1. t \in Tables /\ t.seq_no \in Snapshot
    BY Columns DEF Sound
  <1>2. /\ u.seq_no = UpdateDeviceSeqNo(t.seq_no, d, seq)
        /\ u.device_id = t.device_id /\ u.state_hash = t.state_hash
        /\ u.nodes = t.nodes /\ u.last_state = t.last_state
    BY <1>1 DEF Tables, Updated
  <1>3. u \in Tables
    BY <1>1, UpdateRaises DEF Tables, Updated
  <1> HIDE DEF u
  <1>4. AtMost(t.seq_no, u.seq_no) /\ u.seq_no[d] >= seq
    BY <1>1, <1>2, UpdateRaises
  <1>5. RowsHaveIds(u)
    BY <1>1, <1>2, UpdateRaises DEF RowsHaveIds, Sound
  <1>6. Raised(t, u)
    BY <1>2, <1>3, <1>4, <1>5, RaisedIsSound DEF Raised
  <1> QED
    BY <1>4, <1>6 DEF u

NewId(t) == Cardinality({e \in Device : t.device_id[e] # 0}) + 1
Inserted(t, d, seq) == [t EXCEPT !.seq_no[d] = seq, !.device_id[d] = NewId(t)]

\* INSERT INTO SyncNodes, for a device that has none: its id is a new one.
LEMMA InsertedIsSound ==
  ASSUME NEW t, Sound(t), NEW d \in Device, NEW seq \in SeqNo, t.device_id[d] = 0
  PROVE  Raised(t, Inserted(t, d, seq)) /\ NewId(t) \in Nat
  <1> DEFINE u == Inserted(t, d, seq)
             id == NewId(t)
  <1>1. /\ t \in Tables /\ t.seq_no \in Snapshot
        /\ t.device_id \in [Device -> 0..Cardinality(Device)] /\ t.seq_no[d] = Absent
    BY Columns DEF Sound, RowsHaveIds
  <1>2. id \in 1..Cardinality(Device)
    <2> DEFINE K == {e \in Device : t.device_id[e] # 0}
    <2>1. IsFiniteSet(Device) /\ K \subseteq Device \ {d}
      BY LogAssumption
    <2>2. IsFiniteSet(Device \ {d}) /\ Cardinality(Device \ {d}) = Cardinality(Device) - 1
      BY <2>1, FS_RemoveElement
    <2>3. IsFiniteSet(K) /\ Cardinality(K) <= Cardinality(Device \ {d})
      BY <2>1, <2>2, FS_Subset
    <2>4. Cardinality(K) \in Nat /\ Cardinality(Device) \in Nat
      BY <2>1, <2>3, FS_CardinalityType
    <2> QED
      BY <2>2, <2>3, <2>4 DEF NewId
  <1> HIDE DEF id
  <1>3. /\ u.seq_no = [t.seq_no EXCEPT ![d] = seq]
        /\ u.device_id = [t.device_id EXCEPT ![d] = id]
        /\ u.state_hash = t.state_hash /\ u.nodes = t.nodes
        /\ u.last_state = t.last_state
    BY <1>1 DEF Tables, Inserted, id
  <1>4. u.seq_no \in Snapshot /\ AtMost(t.seq_no, u.seq_no)
    BY <1>1, <1>3, InsertRaises
  <1>5. u.device_id \in [Device -> 0..Cardinality(Device)]
    BY <1>1, <1>2, <1>3
  <1>6. u \in Tables
    BY <1>1, <1>4, <1>5 DEF Tables, Inserted
  <1> HIDE DEF u
  <1>7. RowsHaveIds(u)
    <2>1. seq # Absent /\ id # 0
      BY <1>2 DEF SeqNo, Absent
    <2>2. /\ \A e \in Device \ {d} : u.seq_no[e] = t.seq_no[e] /\ u.device_id[e] = t.device_id[e]
          /\ u.seq_no[d] = seq /\ u.device_id[d] = id
      BY <1>1, <1>3 DEF Snapshot
    <2> QED
      BY <2>1, <2>2, LogAssumption DEF RowsHaveIds, Sound
  <1>8. id \in Nat
    BY <1>2
  <1>9. Raised(t, u)
    BY <1>3, <1>4, <1>6, <1>7, RaisedIsSound DEF Raised
  <1> QED
    BY <1>8, <1>9 DEF id, u

EqualStates(t) == {i \in StatesOf(t) : t.state_hash[i] = t.seq_no}
Hashed(t) ==
    [t EXCEPT
       !.state_hash = [i \in 1..MaxState |->
           IF i = t.last_state + 1 THEN t.seq_no
           ELSE IF i \in EqualStates(t) THEN NoHash ELSE t.state_hash[i]],
       !.nodes = {r \in t.nodes : r.state_id \notin EqualStates(t)},
       !.last_state = t.last_state + 1]

\* Tables u are t with a new state id.
NewState(t, u, id) ==
    /\ Sound(u) /\ u.last_state = id /\ u.seq_no = t.seq_no /\ id \in StatesOf(u)
    /\ \A r \in u.nodes : r.state_id # id
    /\ \A i \in StatesOf(u) \ {id} : i \in StatesOf(t) /\ (Covers(t, i) => Covers(u, i))

\* INSERT INTO SyncLog replaces the states of an equal hash, with their rows, by
\* one that is new and has no rows yet.
LEMMA HashIsSound ==
  ASSUME NEW t, Sound(t), t.last_state < MaxState
  PROVE  NewState(t, Hashed(t), t.last_state + 1)
  <1> DEFINE same == EqualStates(t)
             id == t.last_state + 1
             u == Hashed(t)
  <1>1. /\ t \in Tables /\ t.seq_no \in Snapshot /\ t.last_state \in 0..MaxState
        /\ t.state_hash \in [1..MaxState -> Snapshot \cup {NoHash}]
        /\ MaxState \in Nat \ {0}
    BY Columns, LogAssumption DEF Sound
  <1>2. id \in 1..MaxState
    BY <1>1
  <1>3. /\ u.seq_no = t.seq_no /\ u.device_id = t.device_id /\ u.last_state = id
        /\ u.nodes = {r \in t.nodes : r.state_id \notin same}
        /\ u.state_hash = [i \in 1..MaxState |->
                              IF i = id THEN t.seq_no
                              ELSE IF i \in same THEN NoHash ELSE t.state_hash[i]]
    BY <1>1 DEF Tables, Hashed
  <1>4. u \in Tables
    <2>1. u.state_hash \in [1..MaxState -> Snapshot \cup {NoHash}]
      BY <1>1, <1>3
    <2>2. u.nodes \in SUBSET [state_id : 1..MaxState, device : Device, seq_no : SeqNo]
      BY <1>1, <1>3 DEF Tables
    <2>3. u.last_state \in 0..MaxState
      BY <1>1, <1>2, <1>3
    <2> DEFINE w == [t EXCEPT !.state_hash = u.state_hash, !.nodes = u.nodes,
                              !.last_state = u.last_state]
    <2>4. w \in Tables
      <3> HIDE DEF u
      <3> QED
        BY <1>1, <2>1, <2>2, <2>3 DEF Tables
    <2>5. u = w
      BY <1>3 DEF Hashed
    <2> QED
      BY <2>4, <2>5
  <1> HIDE DEF u
  <1>5. /\ u.state_hash[id] = t.seq_no
        /\ \A i \in (1..MaxState) \ {id} :
              u.state_hash[i] = IF i \in same THEN NoHash ELSE t.state_hash[i]
    BY <1>2, <1>3
  <1> HIDE DEF id
  <1>6. /\ id \in StatesOf(u)
        /\ \A i \in StatesOf(u) \ {id} :
              i \in StatesOf(t) /\ i \notin same /\ u.state_hash[i] = t.state_hash[i]
        /\ \A i \in StatesOf(t) : i # id /\ (i \notin same => i \in StatesOf(u))
    <2>1. u.state_hash[id] # NoHash
      BY <1>1, <1>5, SeqNoFacts, NoHashNoSnapshot
    <2>2. \A i \in StatesOf(t) : i # id /\ i \in 1..MaxState
      BY <1>1 DEF StatesOf, Sound, StatesBelow, id
    <2> QED
      BY <1>2, <1>5, <2>1, <2>2 DEF StatesOf
  <1>7. RowsHaveIds(u)
    BY <1>3 DEF RowsHaveIds, Sound
  <1>8. LoggedIn(u)
    <2>1. \A i \in StatesOf(u) : AtMost(u.state_hash[i], u.seq_no)
      BY <1>1, <1>3, <1>5, <1>6, AtMostOrder DEF Sound, LoggedIn
    <2>2. \A r \in u.nodes : r.state_id \in StatesOf(u) /\ r.seq_no <= u.seq_no[r.device]
      BY <1>3, <1>6 DEF Sound, LoggedIn
    <2> QED
      BY <2>1, <2>2 DEF LoggedIn
  <1>9. StatesBelow(u)
    <2>1. ASSUME NEW i \in StatesOf(u) PROVE i <= id
      <3>1. CASE i = id
        BY <1>2, <3>1
      <3>2. CASE i # id
        <4>1. i <= t.last_state /\ i \in 1..MaxState
          BY <1>6, <3>2 DEF Sound, StatesBelow, StatesOf
        <4> QED
          BY <1>1, <4>1 DEF id
      <3> QED
        BY <3>1, <3>2
    <2> QED
      BY <1>3, <2>1 DEF StatesBelow
  <1>10. \A r \in u.nodes : r.state_id # id
    BY <1>3, <1>6 DEF Sound, LoggedIn
  <1>11. ASSUME NEW i \in StatesOf(u) \ {id}, Covers(t, i) PROVE Covers(u, i)
    <2>1. i \notin same /\ u.state_hash[i] = t.state_hash[i]
      BY <1>6
    <2>2. \A r \in t.nodes : r.state_id = i => r \in u.nodes
      BY <1>3, <2>1
    <2>3. u.nodes \subseteq t.nodes
      BY <1>3
    <2> QED
      BY <1>11, <2>1, <2>2, <2>3 DEF Covers
  <1>12. NewState(t, u, id)
    BY <1>3, <1>4, <1>6, <1>7, <1>8, <1>9, <1>10, <1>11 DEF Sound, NewState
  <1> QED
    BY <1>12 DEF u, id

NodeRows(t, id) == {[state_id |-> id, device |-> d, seq_no |-> t.seq_no[d]] :
                       d \in {e \in Device : t.device_id[e] # 0}}
WithNodes(t, id) == [t EXCEPT !.nodes = @ \cup NodeRows(t, id)]

\* Tables u are t with the rows of state id.
Completed(t, u, id) ==
    /\ Sound(u) /\ StatesOf(u) = StatesOf(t)
    /\ u.seq_no = t.seq_no /\ u.last_state = t.last_state
    /\ \A i \in StatesOf(t) \ {id} : Covers(t, i) => Covers(u, i)
    /\ (\A r \in t.nodes : r.state_id # id) => Covers(u, id)

\* INSERT INTO SyncStateNodes gives a state one row for each device that has a
\* number: with no rows before, they cover its hash.
LEMMA NodesAreSound ==
  ASSUME NEW t, Sound(t), NEW id \in StatesOf(t)
  PROVE  Completed(t, WithNodes(t, id), id)
  <1> DEFINE added == NodeRows(t, id)
             u == WithNodes(t, id)
  <1>1. t \in Tables /\ t.seq_no \in Snapshot /\ id \in 1..MaxState
    BY Columns DEF Sound
  <1>2. /\ u.seq_no = t.seq_no /\ u.device_id = t.device_id /\ u.last_state = t.last_state
        /\ u.state_hash = t.state_hash /\ u.nodes = t.nodes \cup added
    BY <1>1 DEF Tables, WithNodes
  <1>3. \A r \in added : /\ r.state_id = id /\ r.device \in Device
                        /\ r.seq_no = t.seq_no[r.device] /\ r.seq_no \in SeqNo
                        /\ r = [state_id |-> id, device |-> r.device,
                                seq_no |-> t.seq_no[r.device]]
    BY <1>1 DEF Sound, RowsHaveIds, Snapshot, NodeRows
  <1>4. u \in Tables
    <2>1. added \subseteq [state_id : 1..MaxState, device : Device, seq_no : SeqNo]
      BY <1>1 DEF Sound, RowsHaveIds, Snapshot, NodeRows
    <2> QED
      BY <1>1, <2>1 DEF Tables, WithNodes
  <1> HIDE DEF u
  <1>5. StatesOf(u) = StatesOf(t)
    BY <1>2 DEF StatesOf
  <1>6. LoggedIn(u)
    <2>1. ASSUME NEW r \in added PROVE r.seq_no <= t.seq_no[r.device]
      BY <1>3, SeqNoFacts DEF SeqNo
    <2> QED
      BY <1>2, <1>3, <1>5, <2>1 DEF Sound, LoggedIn
  <1>7. RowsHaveIds(u) /\ StatesBelow(u)
    BY <1>2, <1>5 DEF Sound, RowsHaveIds, StatesBelow
  <1>8. ASSUME NEW i \in StatesOf(t) \ {id}, Covers(t, i) PROVE Covers(u, i)
    <2>1. \A r \in u.nodes : r.state_id = i => r \in t.nodes
      BY <1>2, <1>3
    <2> QED
      BY <1>2, <1>8, <2>1 DEF Covers
  <1>9. ASSUME \A r \in t.nodes : r.state_id # id PROVE Covers(u, id)
    <2>1. \A r \in u.nodes : r.state_id = id => r \in added
      BY <1>2, <1>9
    <2>2. ASSUME NEW d \in Device, u.state_hash[id][d] # Absent
          PROVE  \E r \in u.nodes : /\ r.state_id = id /\ r.device = d
                                    /\ r.seq_no >= u.state_hash[id][d]
      <3>1. /\ u.state_hash[id] \in Snapshot
            /\ u.state_hash[id][d] <= t.seq_no[d]
        BY <1>1, <1>2, Columns DEF Sound, LoggedIn, AtMost
      <3>2. t.seq_no[d] # Absent
        BY <1>1, <2>2, <3>1, SeqNoFacts DEF Absent
      <3> DEFINE row == [state_id |-> id, device |-> d, seq_no |-> t.seq_no[d]]
      <3>3. row \in u.nodes
        BY <1>2, <3>2 DEF Sound, RowsHaveIds, NodeRows
      <3>4. t.seq_no[d] >= u.state_hash[id][d]
        BY <1>1, <3>1, SeqNoFacts
      <3>5. row.state_id = id /\ row.device = d /\ row.seq_no >= u.state_hash[id][d]
        BY <3>4
      <3> HIDE DEF row
      <3> QED
        BY <3>3, <3>5
    <2>3. \A r, q \in u.nodes :
              r.state_id = id /\ q.state_id = id /\ r.device = q.device => r = q
      BY <1>3, <2>1
    <2> QED
      BY <2>2, <2>3 DEF Covers
  <1>10. Completed(t, u, id)
    BY <1>2, <1>4, <1>5, <1>6, <1>7, <1>8, <1>9 DEF Sound, Completed
  <1> QED
    BY <1>10 DEF u

-----------------------------------------------------------------------------
(* SyncLog: the statements preserve the invariant.                          *)

\* Settled and next are about numbers.
LEMMA Numbers ==
  ASSUME LogIInv
  PROVE  /\ db.seq_no \in Snapshot /\ saved.seq_no \in Snapshot
         /\ db.seq_no[Local] \in (-1)..MaxSeq /\ saved.seq_no[Local] \in (-1)..MaxSeq
         /\ settled \subseteq SeqNo /\ \A n \in settled : n \in Nat
         /\ next # Absent => next \in Nat
  <1>1. db.seq_no \in Snapshot /\ saved.seq_no \in Snapshot
    BY Columns DEF LogIInv, Sound
  <1>2. SeqNo \subseteq Nat
    BY DEF SeqNo
  <1> QED
    BY <1>1, <1>2, SeqNoFacts, LogAssumption DEF LogIInv, Scalars

\* A step of another thread that only raises numbers in SyncNodes.
LEMMA RaisedInv ==
  ASSUME LogIInv, Raised(db, db'), UNCHANGED <<saved, remember>>, collided => collided'
  PROVE  /\ Sound(saved') /\ HashesCovered'
         /\ Transaction' <=>
              (~collided' /\ remember.pc = "rowid" => last_insert_rowid' = db.last_state)
         /\ \A n \in settled : /\ n <= db'.seq_no[Local]
                               /\ remember.pc # "idle" => n <= saved'.seq_no[Local]
  <1>1. Sound(saved')
    BY DEF LogIInv
  <1>2. HashesCovered'
    BY DEF LogIInv, HashesCovered, Unfinished, Raised
  <1>3. Transaction' <=>
              (~collided' /\ remember.pc = "rowid" => last_insert_rowid' = db.last_state)
    BY DEF LogIInv, Transaction, Raised
  <1>4. ASSUME NEW n \in settled
        PROVE  /\ n <= db'.seq_no[Local]
               /\ remember.pc # "idle" => n <= saved'.seq_no[Local]
    <2>1. n <= db.seq_no[Local] /\ n \in Nat /\ db.seq_no[Local] \in Int
      BY <1>4, Numbers DEF LogIInv, Settled
    <2>2. db'.seq_no[Local] \in Int
      BY Columns, SeqNoFacts, LogAssumption DEF Sound, Raised
    <2> QED
      BY <1>4, <2>1, <2>2 DEF LogIInv, Settled, Raised
  <1> QED
    BY <1>1, <1>2, <1>3, <1>4

\* UpdateDeviceSeqNo, for a known device.
LEMMA UpdateInv ==
  ASSUME LogIInv, NEW d \in Device, NEW seq \in SeqNo, UpdateDeviceSeqNoName(d, seq)
  PROVE  LogIInv'
  <1>1. Raised(db, db')
    <2>1. db' = Updated(db, d, seq)
      BY DEF UpdateDeviceSeqNoName, Updated
    <2>2. Sound(db) /\ db.device_id[d] # 0
      BY DEF LogIInv, UpdateDeviceSeqNoName, Known
    <2> QED
      BY <2>1, <2>2, UpdatedIsSound
  <1>2. UNCHANGED <<saved, last_insert_rowid, remember, next, handed, settled, collided>>
    BY DEF UpdateDeviceSeqNoName
  <1>3. HashesCovered' /\ Sound(saved') /\ Transaction' /\ Settled'
    BY <1>1, <1>2, RaisedInv DEF LogIInv, Settled, Transaction
  <1>4. Scalars'
    BY <1>2 DEF LogIInv, Scalars
  <1> QED
    BY <1>1, <1>3, <1>4 DEF LogIInv, Raised

\* UpdateDeviceSeqNo, for a new device: the collision is noted.
LEMMA InsertInv ==
  ASSUME LogIInv, NEW d \in Device, NEW seq \in SeqNo, InsertDevice(d, seq)
  PROVE  LogIInv'
  <1>1. /\ db' = Inserted(db, d, seq) /\ last_insert_rowid' = NewId(db)
        /\ UNCHANGED <<saved, remember, next, handed, settled>>
    BY DEF InsertDevice, Known, Inserted, NewId
  <1>2. collided' \in BOOLEAN /\ (collided => collided')
        /\ (remember.pc = "rowid" => collided')
    BY Zenon DEF InsertDevice
  <1>3. Sound(db) /\ db.device_id[d] = 0
    BY DEF LogIInv, InsertDevice, Known
  <1>4. Raised(db, db') /\ NewId(db) \in Nat
    BY <1>1, <1>3, InsertedIsSound
  <1>5. HashesCovered' /\ Sound(saved') /\ Transaction' /\ Settled'
    BY <1>1, <1>2, <1>4, RaisedInv DEF LogIInv, Settled
  <1>6. Scalars'
    BY <1>1, <1>2, <1>4 DEF LogIInv, Scalars
  <1> QED
    BY <1>4, <1>5, <1>6 DEF LogIInv, Raised

\* GetNextLocalSeqNo reads a number above all that are settled ...
LEMMA SelectInv ==
  ASSUME LogIInv, GetNextLocalSeqNoSelect
  PROVE  LogIInv'
  <1>1. /\ UNCHANGED <<db, saved, last_insert_rowid, remember, handed, settled, collided>>
        /\ next' = db.seq_no[Local] + 1 /\ db.seq_no[Local] < MaxSeq
    BY DEF GetNextLocalSeqNoSelect
  <1>2. next' \in SeqNo
    BY <1>1, Numbers, SeqNoFacts DEF SeqNo
  <1>3. Scalars'
    BY <1>1, <1>2 DEF LogIInv, Scalars
  <1>4. Settled'
    <2>1. ASSUME NEW n \in settled PROVE n < next'
      <3>1. n <= db.seq_no[Local]
        BY DEF LogIInv, Settled
      <3> QED
        BY <1>1, <3>1, Numbers
    <2> QED
      BY <1>1, <2>1 DEF LogIInv, Settled
  <1>5. Transaction' /\ HashesCovered'
    BY <1>1 DEF LogIInv, Transaction, HashesCovered, Unfinished
  <1> QED
    BY <1>1, <1>3, <1>4, <1>5 DEF LogIInv

\* ... and stores it before it returns it.
LEMMA NextUpdateInv ==
  ASSUME LogIInv, GetNextLocalSeqNoUpdate
  PROVE  LogIInv'
  <1>1. next \in SeqNo /\ Local \in Device /\ Sound(db) /\ db.device_id[Local] # 0
    BY LogAssumption DEF GetNextLocalSeqNoUpdate, LogIInv, Scalars, Sound, RowsHaveIds
  <1>2. Raised(db, db') /\ db'.seq_no[Local] >= next
    <2>1. db' = Updated(db, Local, next)
      BY DEF GetNextLocalSeqNoUpdate, Updated
    <2> QED
      BY <1>1, <2>1, UpdatedIsSound
  <1>3. /\ UNCHANGED <<saved, last_insert_rowid, remember, collided>>
        /\ next' = Absent /\ handed' = handed \cup {next}
        /\ settled' = IF remember.pc = "idle" THEN settled \cup {next} ELSE settled
    BY DEF GetNextLocalSeqNoUpdate
  <1>4. HashesCovered' /\ Sound(saved') /\ Transaction'
    BY <1>2, <1>3, RaisedInv DEF LogIInv, Transaction
  <1>5. Settled'
    <2>1. \A n \in settled : /\ n <= db'.seq_no[Local]
                             /\ remember.pc # "idle" => n <= saved'.seq_no[Local]
      BY <1>2, <1>3, RaisedInv
    <2>2. next <= db'.seq_no[Local]
      <3>1. db'.seq_no[Local] \in Int /\ next \in Int
        BY <1>1, <1>2, Columns, SeqNoFacts, LogAssumption DEF Sound, SeqNo, Raised
      <3> QED
        BY <1>2, <3>1
    <2> QED
      BY <1>3, <2>1, <2>2 DEF Settled
  <1>6. Scalars'
    BY <1>1, <1>3 DEF LogIInv, Scalars
  <1> QED
    BY <1>2, <1>4, <1>5, <1>6 DEF LogIInv, Raised

\* BEGIN TRANSACTION: every state is complete, and the settled numbers are in.
LEMMA BeginInv ==
  ASSUME LogIInv, RememberBegin
  PROVE  LogIInv'
  <1>1. /\ remember.pc = "idle" /\ remember' = [remember EXCEPT !.pc = "hash"]
        /\ db.last_state < MaxState /\ saved' = db
        /\ UNCHANGED <<db, last_insert_rowid, next, handed, settled, collided>>
    BY DEF RememberBegin, Remember
  <1>2. remember'.pc = "hash" /\ Scalars'
    BY <1>1 DEF LogIInv, Scalars
  <1>3. Sound(db') /\ Sound(saved')
    BY <1>1 DEF LogIInv
  <1>4. Transaction'
    BY <1>1, <1>2 DEF Transaction
  <1>5. HashesCovered' /\ Settled'
    BY <1>1, <1>2 DEF LogIInv, HashesCovered, Settled, Unfinished
  <1> QED
    BY <1>2, <1>3, <1>4, <1>5 DEF LogIInv

\* The INSERT of a hash, which is then ahead of its rows.
LEMMA InsertHashInv ==
  ASSUME LogIInv, RememberInsertHash
  PROVE  LogIInv'
  <1> DEFINE id == db.last_state + 1
  <1>1. /\ remember.pc = "hash" /\ remember' = [remember EXCEPT !.pc = "rowid"]
        /\ db' = Hashed(db) /\ last_insert_rowid' = id
        /\ UNCHANGED <<saved, next, handed, settled, collided>>
    BY DEF RememberInsertHash, Remember, States, StatesOf, Hashed, EqualStates
  <1>2. Sound(db) /\ db.last_state < MaxState
    BY <1>1 DEF LogIInv, Transaction
  <1>3. id \in Nat
    BY <1>2, Columns DEF Sound
  <1>4. NewState(db, db', id)
    BY <1>1, <1>2, HashIsSound
  <1> HIDE DEF id
  <1>5. remember'.pc = "rowid" /\ Scalars'
    BY <1>1, <1>3 DEF LogIInv, Scalars
  <1>6. Transaction'
    BY <1>1, <1>4, <1>5 DEF Transaction, NewState
  <1>7. HashesCovered'
    <2>1. \A i \in StatesOf(db) : ~Unfinished(i)
      BY <1>1 DEF Unfinished
    <2>2. \A i \in StatesOf(db') : ~Unfinished(i)' => i # id
      BY <1>4, <1>5 DEF Unfinished, NewState
    <2> QED
      BY <1>1, <1>4, <2>1, <2>2 DEF LogIInv, HashesCovered, NewState
  <1>8. Settled' /\ Sound(saved')
    BY <1>1, <1>4, <1>5 DEF LogIInv, Settled, NewState
  <1> QED
    BY <1>4, <1>5, <1>6, <1>7, <1>8 DEF LogIInv, NewState

\* The read of last_insert_rowid.
LEMMA RowIdInv ==
  ASSUME LogIInv, RememberRowId
  PROVE  LogIInv'
  <1>1. /\ remember.pc = "rowid" /\ remember' = [pc |-> "nodes", rowId |-> last_insert_rowid]
        /\ UNCHANGED <<db, saved, last_insert_rowid, next, handed, settled, collided>>
    BY DEF RememberRowId
  <1>2. /\ remember'.pc = "nodes" /\ remember'.rowId = last_insert_rowid
        /\ Scalars' /\ Sound(db') /\ Sound(saved')
    BY <1>1 DEF LogIInv, Scalars
  <1>3. Transaction'
    BY <1>1, <1>2 DEF LogIInv, Transaction
  <1>4. HashesCovered' /\ Settled'
    BY <1>1, <1>2 DEF LogIInv, HashesCovered, Settled, Unfinished
  <1> QED
    BY <1>2, <1>3, <1>4 DEF LogIInv

\* The INSERT of the rows of a state, taken from what SyncNodes holds by then.
LEMMA InsertNodesInv ==
  ASSUME LogIInv, RememberInsertNodes
  PROVE  LogIInv'
  <1> DEFINE id == remember.rowId
  <1>1. /\ remember.pc = "nodes" /\ remember' = [remember EXCEPT !.pc = "select"]
        /\ UNCHANGED <<saved, last_insert_rowid, next, handed, settled, collided>>
    BY DEF RememberInsertNodes, Remember
  <1>2. IF id \in StatesOf(db) THEN db' = WithNodes(db, id) ELSE db' = db
    BY DEF RememberInsertNodes, States, StatesOf, Known, WithNodes, NodeRows
  <1>3. remember'.pc = "select" /\ Scalars' /\ Sound(saved') /\ Sound(db)
    BY <1>1 DEF LogIInv, Scalars
  <1>4. Transaction'
    BY <1>3 DEF Transaction
  <1>5. CASE id \in StatesOf(db)
    <2>1. Completed(db, db', id)
      BY <1>2, <1>3, <1>5, NodesAreSound
    <2>2. HashesCovered'
      <3> SUFFICES ASSUME ~collided PROVE \A i \in StatesOf(db) : Covers(db', i)
        BY <1>1, <2>1 DEF LogIInv, HashesCovered, Completed
      <3>1. id = db.last_state /\ \A r \in db.nodes : r.state_id # id
        BY <1>1 DEF LogIInv, Transaction
      <3>2. \A i \in StatesOf(db) \ {id} : Covers(db, i)
        BY <3>1 DEF LogIInv, HashesCovered, Unfinished
      <3> QED
        BY <2>1, <3>1, <3>2 DEF Completed
    <2>3. Settled'
      BY <1>1, <1>3, <2>1 DEF LogIInv, Settled, Completed
    <2> QED
      BY <1>3, <1>4, <2>1, <2>2, <2>3 DEF LogIInv, Completed
  <1>6. CASE id \notin StatesOf(db)
    <2>1. db' = db /\ collided
      BY <1>1, <1>2, <1>6 DEF LogIInv, Transaction
    <2> QED
      BY <1>1, <1>3, <1>4, <2>1 DEF LogIInv, HashesCovered, Settled
  <1> QED
    BY <1>5, <1>6

\* The check that commits what the transaction wrote.
LEMMA CommitInv ==
  ASSUME LogIInv, RememberCommit
  PROVE  LogIInv'
  <1>1. /\ remember.pc = "select" /\ remember' = [pc |-> "idle", rowId |-> 0]
        /\ saved' = db
        /\ UNCHANGED <<db, last_insert_rowid, next, handed, settled, collided>>
    BY DEF RememberCommit
  <1>2. remember'.pc = "idle" /\ Scalars' /\ Sound(db') /\ Sound(saved')
    BY <1>1 DEF LogIInv, Scalars
  <1>3. Transaction' /\ HashesCovered' /\ Settled'
    BY <1>1, <1>2 DEF LogIInv, Transaction, HashesCovered, Settled, Unfinished
  <1> QED
    BY <1>2, <1>3 DEF LogIInv

\* A rollback brings back tables that are sound and have the settled numbers.
LEMMA RestartInv ==
  ASSUME LogIInv, Restart
  PROVE  LogIInv'
  <1>1. /\ remember' = [pc |-> "idle", rowId |-> 0] /\ next' = Absent
        /\ saved' = db' /\ db' = (IF remember.pc = "idle" THEN db ELSE saved)
        /\ last_insert_rowid' = 0
        /\ UNCHANGED <<handed, settled, collided>>
    BY DEF Restart
  <1>2. remember'.pc = "idle" /\ Scalars' /\ Sound(db') /\ Sound(saved')
    BY <1>1 DEF LogIInv, Scalars
  <1>3. Transaction'
    BY <1>2 DEF Transaction
  <1>4. HashesCovered'
    <2>1. \A i \in StatesOf(db) : remember.pc = "idle" => ~Unfinished(i)
      BY DEF Unfinished
    <2> QED
      BY <1>1, <2>1 DEF LogIInv, HashesCovered
  <1>5. Settled'
    BY <1>1, <1>2 DEF LogIInv, Settled
  <1> QED
    BY <1>2, <1>3, <1>4, <1>5 DEF LogIInv

-----------------------------------------------------------------------------
(* SyncLog: the theorems.                                                   *)

LEMMA LogInitInv == LogInit => LogIInv
  <1> SUFFICES ASSUME LogInit PROVE LogIInv
    OBVIOUS
  <1>1. MaxSeq \in Nat /\ MaxState \in Nat \ {0} /\ Local \in Device
    BY LogAssumption, SeqNoFacts
  <1>2. 1 \in 0..Cardinality(Device)
    <2>1. IsFiniteSet(Device) /\ Cardinality(Device) \in Nat
      BY LogAssumption, FS_CardinalityType
    <2>2. Cardinality(Device) # 0
      BY <1>1, <2>1, FS_EmptySet
    <2> QED
      BY <2>1, <2>2
  <1>3. db \in Tables
    <2>1. db.seq_no \in Snapshot
      BY <1>1 DEF LogInit, Snapshot, SeqNo, Absent
    <2>2. db.device_id \in [Device -> 0..Cardinality(Device)]
      BY <1>1, <1>2, FS_CardinalityType, LogAssumption DEF LogInit
    <2>3. db.state_hash \in [1..MaxState -> Snapshot \cup {NoHash}]
      BY DEF LogInit
    <2>4. db.nodes = {} /\ db.last_state \in 0..MaxState
      BY <1>1 DEF LogInit
    <2>5. db = [seq_no |-> db.seq_no, device_id |-> db.device_id,
                state_hash |-> db.state_hash, nodes |-> db.nodes,
                last_state |-> db.last_state]
      BY DEF LogInit
    <2> QED
      BY <2>1, <2>2, <2>3, <2>4, <2>5 DEF Tables
  <1>4. RowsHaveIds(db)
    BY <1>1 DEF LogInit, RowsHaveIds, Absent
  <1>5. StatesOf(db) = {} /\ db.nodes = {}
    BY DEF LogInit, StatesOf
  <1>6. Sound(db) /\ Sound(saved)
    <2>1. saved = db
      BY DEF LogInit
    <2> QED
      BY <1>3, <1>4, <1>5, <2>1 DEF Sound, LoggedIn, StatesBelow
  <1>7. Scalars
    BY DEF LogInit, Scalars
  <1>8. Transaction /\ Settled
    BY DEF LogInit, Transaction, Settled
  <1>9. HashesCovered
    BY <1>5 DEF LogInit, HashesCovered
  <1> QED
    BY <1>6, <1>7, <1>8, <1>9 DEF LogIInv

\* Every step keeps the inductive invariant.
LEMMA LogNextInv == LogIInv /\ [LogNext]_logVars => LogIInv'
  <1> SUFFICES ASSUME LogIInv, [LogNext]_logVars PROVE LogIInv'
    OBVIOUS
  <1>1. CASE UNCHANGED logVars
    BY <1>1 DEF logVars, LogIInv, Scalars, Transaction, HashesCovered, Unfinished, Settled
  <1>2. ASSUME NEW d \in Device, NEW seq \in SeqNo,
               UpdateDeviceSeqNoName(d, seq) \/ InsertDevice(d, seq)
        PROVE  LogIInv'
    BY <1>2, UpdateInv, InsertInv
  <1>3. CASE GetNextLocalSeqNoSelect \/ GetNextLocalSeqNoUpdate
    BY <1>3, SelectInv, NextUpdateInv
  <1>4. CASE RememberBegin \/ RememberInsertHash \/ RememberRowId
    BY <1>4, BeginInv, InsertHashInv, RowIdInv
  <1>5. CASE RememberInsertNodes \/ RememberCommit
    BY <1>5, InsertNodesInv, CommitInv
  <1>6. CASE RememberThrow \/ Crash
    BY <1>6, RestartInv DEF RememberThrow, Crash
  <1> QED
    BY <1>1, <1>2, <1>3, <1>4, <1>5, <1>6 DEF LogNext

\* The inductive invariant holds in every reachable state.
LEMMA LogAlwaysInv == LogSpec => []LogIInv
  BY LogInitInv, LogNextInv, PTL DEF LogSpec

\* The state log is sound however the five statements of RememberStateInStateLog
\* interleave with those of other threads, with rollbacks and with crashes.
THEOREM EntriesAreSound == LogSpec => []EntriesSound
  <1>1. LogIInv => LogTypeOK /\ LoggedIsKnown
    BY DEF LogIInv, Scalars, Sound, LoggedIn, StatesOf, LogTypeOK, LoggedIsKnown, States
  <1>2. ASSUME LogIInv PROVE RowsCoverHash
    <2> SUFFICES ASSUME ~collided, NEW i \in States, ~Unfinished(i)
                 PROVE  /\ \A d \in Device : db.state_hash[i][d] # Absent =>
                              \E r \in RowsOf(i) : /\ r.device = d
                                                   /\ r.seq_no >= db.state_hash[i][d]
                        /\ \A r, q \in RowsOf(i) : r.device = q.device => r = q
      BY DEF RowsCoverHash
    <2>1. Covers(db, i)
      BY <1>2 DEF LogIInv, HashesCovered, States, StatesOf
    <2> QED
      BY <2>1 DEF Covers, RowsOf
  <1>3. LogIInv => EntriesSound
    BY <1>1, <1>2 DEF EntriesSound
  <1> QED
    BY <1>3, LogAlwaysInv, PTL

\* GetNextLocalSeqNo never returns a number a second time, not even after a crash,
\* if it returned it outside a transaction.
THEOREM SettledAreUnique == LogSpec => []SettledNeverReused
  <1>1. ASSUME LogIInv PROVE SettledNeverReused
    <2> SUFFICES ASSUME next # Absent, next \in settled PROVE FALSE
      BY DEF SettledNeverReused
    <2>1. next < next /\ next \in Nat
      BY <1>1, Numbers DEF LogIInv, Settled
    <2> QED
      BY <2>1
  <1>2. LogIInv => SettledNeverReused
    BY <1>1
  <1> QED
    BY <1>2, LogAlwaysInv, PTL

=============================================================================
