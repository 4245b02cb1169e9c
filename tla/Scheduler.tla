------------------------------ MODULE Scheduler ------------------------------
(***************************************************************************)
(* The task scheduler (scheduler/*.cc) with its one-thread executor        *)
(* (executor/executor.cc), as operations for the modules that use it.      *)
(*                                                                         *)
(* Each operation is one critical section of Scheduler::m_mutex.  Time is  *)
(* not modelled: an armed timer may fire at any moment, whatever its delay *)
(* (m_tv), so every order of expiry is covered.  libevent is external: an  *)
(* armed event fires once, in the event thread, and evtimer_add on an      *)
(* armed event only moves its deadline.                                    *)
(***************************************************************************)
EXTENDS Integers, Sequences, Functions

CONSTANTS
    Tag,            \* tags used by the callers
    PeriodicTag,    \* tags whose tasks are PeriodicTask objects
    TaskPool,       \* bound on the Task objects alive per tag
    MaxQueue        \* bound on the executor's job queue

ASSUME TagAssumption == PeriodicTag \subseteq Tag
ASSUME TaskPoolAssumption == TaskPool \in Nat \ {0}
ASSUME MaxQueueAssumption == MaxQueue \in Nat \ {0}

\* A Task object; objects of one tag differ in n.
Task == [tag : Tag, n : 1..TaskPool]

\* The null TaskPtr.
NoTask == [tag |-> "none", n |-> 0]

IsPeriodic(t) == t.tag \in PeriodicTag

VARIABLES
    m_taskMap,  \* Scheduler::m_taskMap : [Tag -> Task \cup {NoTask}]
    armed,      \* tasks whose libevent timer is pending
    m_queue,    \* Executor::m_queue, the jobs Task::execute has queued
    running,    \* task whose run() the executor thread is inside, or NoTask
    m_invoked   \* tasks whose Task::m_invoked is true

schedulerVars == <<m_taskMap, armed, m_queue, running, m_invoked>>

SchedulerTypeOK ==
    /\ m_taskMap \in [Tag -> Task \cup {NoTask}]
    /\ \A g \in Tag : m_taskMap[g] # NoTask => m_taskMap[g].tag = g
    /\ armed \subseteq Task
    /\ m_queue \in Seq(Task)
    /\ running \in Task \cup {NoTask}
    /\ m_invoked \subseteq Task

SchedulerInit ==
    /\ m_taskMap = [g \in Tag |-> NoTask]
    /\ armed = {}
    /\ m_queue = <<>>
    /\ running = NoTask
    /\ m_invoked = {}

InMap(t) == m_taskMap[t.tag] = t

\* Objects somebody still holds a TaskPtr to.
Alive(t) == InMap(t) \/ t \in Range(m_queue) \/ running = t

\* addToMap: no effect when the tag is taken.
AddToMap(t) ==
    /\ m_taskMap[t.tag] = NoTask
    /\ m_taskMap' = [m_taskMap EXCEPT ![t.tag] = t]
    /\ UNCHANGED <<armed, m_queue, running, m_invoked>>

\* Mutant: a task that has run is added without reset().
ArmAddedNoReset(t) ==
    /\ armed' = armed \cup {t}
    /\ UNCHANGED <<m_taskMap, m_queue, running, m_invoked>>

\* The rest of addTask, outside the lock: reset() and evtimer_add.
ArmAdded(t) ==
    /\ m_invoked' = m_invoked \ {t}
    /\ armed' = armed \cup {t}
    /\ UNCHANGED <<m_taskMap, m_queue, running>>

\* addTask in one step.  So it is for rescheduleTask, which holds the
\* (recursive) lock, and in effect for a new object: if its entry is deleted
\* before its timer is armed, the object dies with its timer on return.
AddTask(t) ==
    /\ IF m_taskMap[t.tag] = NoTask
       THEN /\ m_taskMap' = [m_taskMap EXCEPT ![t.tag] = t]
            /\ m_invoked' = m_invoked \ {t}
            /\ armed' = armed \cup {t}
       ELSE UNCHANGED <<m_taskMap, m_invoked, armed>>
    /\ UNCHANGED <<m_queue, running>>

\* Objects of a tag that nobody holds any more.
Unused(tag) == {t \in Task : t.tag = tag /\ ~Alive(t)}

\* scheduleOneTimeTask: a new object (the unused one of least n) is added.
ScheduleOneTimeTask(tag) ==
    \E t \in Unused(tag) :
        /\ \A u \in Unused(tag) : t.n <= u.n
        /\ AddTask(t)

\* deleteTask(tag): the timer is cancelled and the entry erased.  A job that
\* the timer has already queued is not touched.
DeleteTask(tag) ==
    /\ armed' = armed \ {m_taskMap[tag]}
    /\ m_taskMap' = [m_taskMap EXCEPT ![tag] = NoTask]
    /\ UNCHANGED <<m_queue, running, m_invoked>>

\* deleteTask(matcher): the same for every entry the matcher accepts.
DeleteMatching(tags) ==
    /\ armed' = armed \ {m_taskMap[g] : g \in tags}
    /\ m_taskMap' = [g \in Tag |-> IF g \in tags THEN NoTask ELSE m_taskMap[g]]
    /\ UNCHANGED <<m_queue, running, m_invoked>>

\* Mutant: the result of find() is used without comparing it with end().
RescheduleTagUnchecked(tag) ==
    /\ m_invoked' = m_invoked \ {m_taskMap[tag]}
    /\ armed' = armed \cup {m_taskMap[tag]}
    /\ UNCHANGED <<m_taskMap, m_queue, running>>

\* rescheduleTask(tag) and rescheduleTaskAt(tag, time): the entry under the
\* tag is reset and its timer armed again; no effect when there is none.
RescheduleTag(tag) ==
    /\ IF m_taskMap[tag] # NoTask
       THEN /\ m_invoked' = m_invoked \ {m_taskMap[tag]}
            /\ armed' = armed \cup {m_taskMap[tag]}
       ELSE UNCHANGED <<m_invoked, armed>>
    /\ UNCHANGED <<m_taskMap, m_queue, running>>

\* rescheduleTask(task): a task that is not in the map is added.
RescheduleTask(t) ==
    IF m_taskMap[t.tag] # NoTask THEN RescheduleTag(t.tag) ELSE AddTask(t)

\* The event thread: the timer expires and Task::execute queues run().
Fire(t) ==
    /\ t \in armed
    /\ Len(m_queue) < MaxQueue
    /\ armed' = armed \ {t}
    /\ m_queue' = Append(m_queue, t)
    /\ UNCHANGED <<m_taskMap, running, m_invoked>>

\* Mutant: run() does not look at m_invoked.
TakeJobAlways ==
    /\ running = NoTask
    /\ m_queue # <<>>
    /\ running' = Head(m_queue)
    /\ m_invoked' = IF IsPeriodic(running') THEN m_invoked \cup {running'}
                                           ELSE m_invoked
    /\ m_queue' = Tail(m_queue)
    /\ UNCHANGED <<m_taskMap, armed>>

\* The executor thread takes a job.  run() does nothing for a task that has
\* been invoked; a periodic task is marked before its callback is entered.
TakeJob ==
    /\ running = NoTask
    /\ m_queue # <<>>
    /\ LET t == Head(m_queue)
       IN  /\ running' = IF t \in m_invoked THEN NoTask ELSE t
           /\ m_invoked' = IF IsPeriodic(t) THEN m_invoked \cup {t} ELSE m_invoked
    /\ m_queue' = Tail(m_queue)
    /\ UNCHANGED <<m_taskMap, armed>>

\* The callback of a one-time task returns: m_invoked is set.
OneTimeReturn ==
    /\ running # NoTask
    /\ ~IsPeriodic(running)
    /\ m_invoked' = m_invoked \cup {running}
    /\ UNCHANGED <<m_taskMap, armed, m_queue, running>>

\* deregisterSelf: whatever task is registered under the tag is deleted.
DeregisterSelf ==
    /\ running # NoTask
    /\ armed' = armed \ {m_taskMap[running.tag]}
    /\ m_taskMap' = [m_taskMap EXCEPT ![running.tag] = NoTask]
    /\ running' = NoTask
    /\ UNCHANGED <<m_queue, m_invoked>>

\* Mutant: a periodic task is not scheduled again when its callback returns.
FinishPeriodicOnce ==
    /\ running # NoTask
    /\ IsPeriodic(running)
    /\ running' = NoTask
    /\ UNCHANGED <<m_taskMap, armed, m_queue, m_invoked>>

\* The end of PeriodicTask::run: rescheduled unless the callback did it.
FinishPeriodic ==
    /\ running # NoTask
    /\ IsPeriodic(running)
    /\ IF running \in m_invoked /\ m_taskMap[running.tag] # NoTask
       THEN /\ m_invoked' = m_invoked \ {m_taskMap[running.tag]}
            /\ armed' = armed \cup {m_taskMap[running.tag]}
       ELSE UNCHANGED <<m_invoked, armed>>
    /\ running' = NoTask
    /\ UNCHANGED <<m_taskMap, m_queue>>

=============================================================================
