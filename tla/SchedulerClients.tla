-------------------------- MODULE SchedulerClients --------------------------
(***************************************************************************)
(* The scheduler under its most general client: threads that add, delete   *)
(* and reschedule tasks at any moment, also while a callback is running.   *)
(* Clients keep the TaskPtr they added and may add the same object again,  *)
(* as test/test-event-scheduler.cc does.  rescheduleTaskAt(task, time) is  *)
(* only called for a task that is in the map, as in FetchManager.          *)
(***************************************************************************)
EXTENDS Scheduler

CONSTANT Client     \* threads that call addTask

VARIABLES
    m_running,  \* Scheduler::m_running
    adding,     \* task a client has put in the map and not yet armed
    returned,   \* the callback of the running one-time task has returned
    granted,    \* observation: tasks added or rescheduled since they last ran
    cancelled   \* observation: those deleted since then

clientsVars == <<schedulerVars, m_running, adding, returned, granted, cancelled>>

Grant(t) == granted' = granted \cup {t} /\ cancelled' = cancelled \ {t}

\* The tag's entry is granted a run, if there is one.
GrantTag(tag) ==
    IF m_taskMap[tag] # NoTask THEN Grant(m_taskMap[tag])
                               ELSE UNCHANGED <<granted, cancelled>>

-----------------------------------------------------------------------------
ClientsInit ==
    /\ SchedulerInit
    /\ m_running = FALSE
    /\ adding = [c \in Client |-> NoTask]
    /\ returned = FALSE
    /\ granted = {}
    /\ cancelled = {}

Start ==
    /\ ~m_running
    /\ m_running' = TRUE
    /\ UNCHANGED <<schedulerVars, adding, returned, granted, cancelled>>

\* shutdown() breaks the event loop and joins the executor, which first
\* finishes the job it is in.
Shutdown ==
    /\ m_running
    /\ running = NoTask
    /\ m_running' = FALSE
    /\ UNCHANGED <<schedulerVars, adding, returned, granted, cancelled>>

\* addTask: the map is changed under the lock, the timer armed after it.
ClientAddToMap(c, t) ==
    /\ adding[c] = NoTask
    /\ AddToMap(t)
    /\ adding' = [adding EXCEPT ![c] = t]
    /\ UNCHANGED <<m_running, returned, granted, cancelled>>

ClientAddArm(c) ==
    /\ adding[c] # NoTask
    /\ ArmAdded(adding[c])
    /\ Grant(adding[c])
    /\ adding' = [adding EXCEPT ![c] = NoTask]
    /\ UNCHANGED <<m_running, returned>>

ClientDelete(tag) ==
    /\ DeleteTask(tag)
    /\ cancelled' = cancelled \cup ({m_taskMap[tag]} \ {NoTask})
    /\ UNCHANGED <<m_running, adding, returned, granted>>

ClientDeleteMatching(tags) ==
    /\ DeleteMatching(tags)
    /\ cancelled' = cancelled \cup ({m_taskMap[g] : g \in tags} \ {NoTask})
    /\ UNCHANGED <<m_running, adding, returned, granted>>

ClientRescheduleTag(tag) ==
    /\ RescheduleTag(tag)
    /\ GrantTag(tag)
    /\ UNCHANGED <<m_running, adding, returned>>

ClientReschedule(t) ==
    /\ RescheduleTask(t)
    /\ IF m_taskMap[t.tag] = NoTask THEN Grant(t) ELSE GrantTag(t.tag)
    /\ UNCHANGED <<m_running, adding, returned>>

ClientFireTimer(t) ==
    /\ m_running
    /\ Fire(t)
    /\ UNCHANGED <<m_running, adding, returned, granted, cancelled>>

ExecutorTake ==
    /\ m_running
    /\ TakeJob
    /\ granted' = granted \ {running'}
    /\ cancelled' = cancelled \ {running'}
    /\ UNCHANGED <<m_running, adding, returned>>

ExecutorReturn ==
    /\ ~returned
    /\ OneTimeReturn
    /\ returned' = TRUE
    /\ cancelled' = cancelled \cup {running}
    /\ UNCHANGED <<m_running, adding, granted>>

ExecutorDeregister ==
    /\ returned
    /\ DeregisterSelf
    /\ returned' = FALSE
    /\ cancelled' = cancelled \cup ({m_taskMap[running.tag]} \ {NoTask})
    /\ UNCHANGED <<m_running, adding, granted>>

ExecutorFinishPeriodic ==
    /\ FinishPeriodic
    /\ IF running \in m_invoked THEN GrantTag(running.tag)
                                ELSE UNCHANGED <<granted, cancelled>>
    /\ UNCHANGED <<m_running, adding, returned>>

Executor == \/ ExecutorTake
            \/ ExecutorReturn \/ ExecutorDeregister \/ ExecutorFinishPeriodic

ClientsNext ==
    \/ Start
    \/ Shutdown
    \/ \E c \in Client, t \in Task : ClientAddToMap(c, t)
    \/ \E c \in Client : ClientAddArm(c)
    \/ \E g \in Tag : ClientDelete(g)
    \/ \E gs \in SUBSET Tag : ClientDeleteMatching(gs)
    \/ \E g \in Tag : ClientRescheduleTag(g)
    \/ \E t \in Task : ClientReschedule(t)
    \/ \E t \in Task : ClientFireTimer(t)
    \/ Executor

ClientsSpec == ClientsInit /\ [][ClientsNext]_clientsVars

\* The event thread and the executor thread run while the scheduler is started,
\* and a client that has entered addTask leaves it.
\* Strong fairness of a timer stands for the unbounded queue of the code: the
\* model disables Fire while its queue is full.
ClientsFairSpec ==
    /\ ClientsSpec
    /\ \A g \in Tag : SF_clientsVars(\E t \in Task : t.tag = g /\ ClientFireTimer(t))
    /\ WF_clientsVars(Executor)
    /\ \A c \in Client : WF_clientsVars(ClientAddArm(c))

-----------------------------------------------------------------------------
ClientsTypeOK ==
    /\ SchedulerTypeOK
    /\ m_running \in BOOLEAN
    /\ adding \in [Client -> Task \cup {NoTask}]
    /\ returned \in BOOLEAN
    /\ returned => running # NoTask /\ ~IsPeriodic(running)
    /\ granted \subseteq Task
    /\ cancelled \subseteq Task

\* A callback is entered at most once for each time its task was added or
\* rescheduled, in whatever order timers, queued jobs and clients interleave
\* (Task::m_invoked, OneTimeTask::run, PeriodicTask::run).
OneRunPerGrant ==
    [][running' # NoTask /\ running' # running => running' \in granted]_clientsVars

\* A periodic task that is in the map never dies: its timer is pending, or an
\* effective job for it is queued, or it is running and will be rescheduled
\* when it returns, or some addTask is about to arm it (PeriodicTask::run,
\* Scheduler::addTask, Scheduler::rescheduleTask).
PeriodicAlive ==
    \A g \in PeriodicTag :
        LET t == m_taskMap[g]
        IN  t # NoTask =>
              \/ \E c \in Client : adding[c] = t
              \/ running = t /\ t \in m_invoked
              \/ t \notin m_invoked /\ (t \in armed \/ t \in Range(m_queue))

\* While the scheduler runs and a periodic tag stays registered, its callback
\* is entered again and again, whatever clients do with this and other tasks.
PeriodicKeepsRunning ==
    \A g \in PeriodicTag :
        []<>(~m_running \/ m_taskMap[g] = NoTask \/ running.tag = g)

\* A task that was added or rescheduled still has its timer pending or an
\* effective job queued, whatever happened to its earlier jobs, unless it was
\* deleted since: by a client, or by the end of a one-time task of its tag, which
\* spends the task itself and deregisters what was added while the callback ran.
GrantedWillRun ==
    \A t \in granted \ cancelled :
        \/ t \in armed
        \/ t \in Range(m_queue) \ m_invoked

=============================================================================
