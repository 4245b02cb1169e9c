---------------------------- MODULE FetchManager ----------------------------
(***************************************************************************)
(* FetchManager (src/fetch-manager.cc) with its table of tasks             *)
(* (src/fetch-task-db.cc): it starts at most m_maxParallelFetches of the   *)
(* fetchers in m_fetchList, pauses those that get no data, and removes     *)
(* those that are done.                                                    *)
(*                                                                         *)
(* Each fetcher behaves as FetcherLife says.  Three kinds of threads take  *)
(* part: callers of Enqueue, the manager's executor, whose one thread runs *)
(* the fetchers' handlers, and its scheduler, which runs ScheduleFetches   *)
(* and TimedWait.  m_parellelFetchMutex makes ScheduleFetches, TimedWait   *)
(* and the second half of Enqueue atomic.  Of the clock the model keeps    *)
(* whether a retry is due.                                                 *)
(***************************************************************************)
EXTENDS Integers, Sequences, FiniteSets

CONSTANTS
    Names,                  \* base names of fetches
    m_mapping,              \* forwarding hint of a name's device
    m_maxParallelFetches,   \* 3 in the code
    MaxPause,               \* longest retry pause (300 in the code)
    LengthsAgree,           \* do device and base names have encodings of equal
                            \* length?  FALSE for the names of Dispatcher.
    UintSize,               \* 2^32 in the code
    MaxEnqueue,             \* bound on the fetchers that are created
    MaxStray                \* bound on the ends of a fetcher that no restart
                            \* accounts for

Hints == {"none", "broadcast", "located"}

ASSUME ManagerAssumption ==
    /\ m_mapping \in [Names -> {"none", "located"}]
    /\ m_maxParallelFetches \in Nat \ {0}
    /\ MaxPause \in Nat \ {0}
    /\ LengthsAgree \in BOOLEAN
    /\ MaxEnqueue \in Nat /\ MaxStray \in Nat \ {0}
    /\ UintSize \in Nat /\ UintSize > m_maxParallelFetches

VARIABLES
    fetcher,                    \* the fetchers that were ever created
    m_fetchList,
    m_currentParallelFetches,
    running,        \* the handler that the executor is in the middle of
    waits,          \* the registered TimedWait tasks
    due,            \* ScheduleFetches has been rescheduled to run at once
    task,           \* the rows of table Task
    up              \* is the process running?

vars == <<fetcher, m_fetchList, m_currentParallelFetches, running, waits, due,
          task, up>>

L == INSTANCE FetcherLife WITH life <- 0

Ids == 1..MaxEnqueue
Created == DOMAIN fetcher
Listed == {m_fetchList[k] : k \in DOMAIN m_fetchList}
Place(f) == CHOOSE k \in DOMAIN m_fetchList : m_fetchList[k] = f
Life(f) == fetcher[f].life

\* m_mapping is SyncLog's LookupLocator: the locator stored for the device, or none.
LookupLocator(name) == m_mapping[name]

NewFetcher(name) ==
    [name |-> name, life |-> L!New, hint |-> LookupLocator(name), pause |-> 0,
     delayed |-> FALSE, refused |-> FALSE]

\* The process runs.  The model follows it up to MaxStray ends that no restart
\* accounts for.
Unaccounted(f) ==
    Life(f).completing + (IF Life(f).active THEN 1 ELSE 0) - Life(f).owed
Live == up /\ \A f \in Created : Unaccounted(f) < MaxStray

\* Table Task of a new folder.
NoTasks == {}

Idle == [in |-> "idle", f |-> 0]

Init ==
    /\ fetcher = <<>>
    /\ m_fetchList = <<>>
    /\ m_currentParallelFetches = 0
    /\ running = Idle
    /\ waits = {}
    /\ due = FALSE
    /\ task = NoTasks
    /\ up = TRUE

-----------------------------------------------------------------------------
(* FetchTaskDb.                                                             *)

\* INSERT OR IGNORE: the key is the pair of names, the range is not part of it.
AddTask(rows, name, f) ==
    IF \E r \in rows : r.name = name THEN rows ELSE rows \cup {[name |-> name, f |-> f]}

\* deleteTask binds the device's name with the length of the base name, so it
\* deletes nothing unless the lengths agree; what is then left of a task that is
\* done ends the process at its next start (Restart).
DeleteTask(rows, name) ==
    IF LengthsAgree THEN {r \in rows : r.name # name} ELSE rows

-----------------------------------------------------------------------------
(* Callers.                                                                 *)

\* Enqueue up to the lock.  An empty range returns before and does nothing.
EnqueueRecord(name) ==
    /\ Live
    /\ Len(fetcher) < MaxEnqueue
    /\ task' = AddTask(task, name, Len(fetcher) + 1)
    /\ fetcher' = Append(fetcher, NewFetcher(name))
    /\ UNCHANGED <<m_fetchList, m_currentParallelFetches, running, waits, due, up>>

\* The rest of Enqueue, under the lock: at the front with PRIORITY_HIGH.
Enqueue(f, high) ==
    /\ Live
    /\ f \notin Listed /\ Life(f) = L!New
    /\ m_fetchList' = IF high THEN <<f>> \o m_fetchList ELSE Append(m_fetchList, f)
    /\ due' = TRUE
    /\ UNCHANGED <<fetcher, m_currentParallelFetches, running, waits, task, up>>

-----------------------------------------------------------------------------
(* The scheduler's thread.                                                  *)

\* What the loop of ScheduleFetches does not skip.
Startable(f) == L!MayStart(Life(f)) /\ ~fetcher[f].delayed

\* The startable fetchers that the loop comes to before f.
Before(f) == {g \in Listed : Place(g) < Place(f) /\ Startable(g)}

\* Mutant: one fetch too many.
StartedOneMore ==
    {f \in Listed : Startable(f) /\ m_currentParallelFetches + Cardinality(Before(f)) <= m_maxParallelFetches}

\* The loop walks down the list until every slot is taken.
StartedBy ==
    {f \in Listed : Startable(f) /\ m_currentParallelFetches + Cardinality(Before(f)) < m_maxParallelFetches}

ScheduleFetches ==
    /\ Live
    /\ fetcher' = [f \in Created |->
                      IF f \in StartedBy THEN [fetcher[f] EXCEPT !.life = L!Started(@)]
                                         ELSE fetcher[f]]
    /\ m_currentParallelFetches' = m_currentParallelFetches + Cardinality(StartedBy)
    /\ due' = FALSE
    /\ UNCHANGED <<m_fetchList, running, waits, task, up>>

\* The pause of a fetcher is over.  The first one may last no time, because
\* the clock counts seconds; a longer one outlasts a ScheduleFetches that is due.
RetryDue(f) ==
    /\ Live
    /\ fetcher[f].delayed
    /\ fetcher[f].pause > 1 => ~due
    /\ fetcher' = [fetcher EXCEPT ![f].delayed = FALSE]
    /\ UNCHANGED <<m_fetchList, m_currentParallelFetches, running, waits, due, task, up>>

\* m_fetchList without the node of f.
Erased(f) ==
    [k \in 1..(Len(m_fetchList) - 1) |-> m_fetchList[IF k < Place(f) THEN k ELSE k + 1]]

\* Mutant: the first fetcher of the list is erased.
TimedWaitFront(w) ==
    /\ Live
    /\ ~w.ran
    /\ waits' = (waits \ {w}) \cup {[w EXCEPT !.ran = TRUE]}
    /\ m_fetchList' = Tail(m_fetchList)
    /\ fetcher' = [fetcher EXCEPT ![Head(m_fetchList)] = [NewFetcher(@.name) EXCEPT !.life = fetcher[Head(m_fetchList)].life]]
    /\ UNCHANGED <<m_currentParallelFetches, running, due, task, up>>

\* TimedWait, ten seconds after DidFetchComplete: the fetcher is deleted; the
\* model remembers how its life ended.
TimedWait(w) ==
    /\ Live
    /\ ~w.ran
    /\ waits' = (waits \ {w}) \cup {[w EXCEPT !.ran = TRUE]}
    /\ m_fetchList' = IF w.f \in Listed THEN Erased(w.f) ELSE m_fetchList
    /\ fetcher' = [fetcher EXCEPT ![w.f] = [NewFetcher(@.name) EXCEPT !.life = fetcher[w.f].life]]
    /\ UNCHANGED <<m_currentParallelFetches, running, due, task, up>>

\* Its one-time task is deregistered after it has run.
TimedWaitReturn(w) ==
    /\ Live
    /\ w.ran
    /\ waits' = waits \ {w}
    /\ UNCHANGED <<fetcher, m_fetchList, m_currentParallelFetches, running, due, task, up>>

-----------------------------------------------------------------------------
(* The executor's thread: the handlers of the fetchers.                     *)

\* m_currentParallelFetches is unsigned.
Decremented(n) == (n - 1) % UintSize

\* The executor takes a job of fetcher f; the life it leaves is l.
Job(f, l) ==
    /\ Live
    /\ running = Idle
    /\ f \in Listed
    /\ fetcher' = [fetcher EXCEPT ![f].life = l]

\* OnTimeout_Execute gives up, and DidNoDataTimeout frees the slot.
DidNoDataTimeout(f) ==
    /\ L!MayEnd(Life(f))
    /\ Job(f, L!Failed(Life(f)))
    /\ m_currentParallelFetches' = Decremented(m_currentParallelFetches)
    /\ running' = [in |-> "timeout", f |-> f]
    /\ UNCHANGED <<m_fetchList, waits, due, task, up>>

\* Mutant: the broadcast hint is not tried after an empty one.
NextHintEmpty(f) == IF fetcher[f].hint = "none" THEN LookupLocator(fetcher[f].name) ELSE "none"

\* The hints are tried in turn; "/" is the empty one.
NextHint(f) ==
    LET located == LookupLocator(fetcher[f].name)
    IN  CASE fetcher[f].hint = "none" -> IF located = "none" THEN "broadcast" ELSE located
          [] fetcher[f].hint = "broadcast" -> "none"
          [] OTHER -> "broadcast"

NextPause(f) ==
    LET doubled == 2 * fetcher[f].pause
    IN  IF fetcher[f].pause < 1 THEN 1 ELSE IF doubled < MaxPause THEN doubled ELSE MaxPause

\* Mutant: the fetcher is not paused.
NoDataTimeoutAtOnce(f) ==
    /\ Live
    /\ running = [in |-> "timeout", f |-> f]
    /\ fetcher' = [fetcher EXCEPT ![f].hint = NextHint(f)]
    /\ running' = Idle
    /\ due' = TRUE
    /\ UNCHANGED <<m_fetchList, m_currentParallelFetches, waits, task, up>>

\* The rest of DidNoDataTimeout, without the lock: ScheduleFetches may have
\* restarted the fetcher before.
NoDataTimeoutRetry(f) ==
    /\ Live
    /\ running = [in |-> "timeout", f |-> f]
    /\ fetcher' = [fetcher EXCEPT ![f].hint = NextHint(f),
                                  ![f].pause = NextPause(f),
                                  ![f].delayed = TRUE]
    /\ running' = Idle
    /\ due' = TRUE
    /\ UNCHANGED <<m_fetchList, m_currentParallelFetches, waits, task, up>>

\* OnData_Execute has the last segment and clears m_active, ...
FetchFinishes(f) ==
    /\ L!MayEnd(Life(f))
    /\ Job(f, L!Completed(Life(f)))
    /\ running' = [in |-> "finish", f |-> f]
    /\ UNCHANGED <<m_fetchList, m_currentParallelFetches, waits, due, task, up>>

\* ... and sets m_timedwait after the finish callback.
FetchWaits(f) ==
    /\ Live
    /\ running = [in |-> "finish", f |-> f]
    /\ fetcher' = [fetcher EXCEPT ![f].life = L!Waiting(@)]
    /\ running' = Idle
    /\ UNCHANGED <<m_fetchList, m_currentParallelFetches, waits, due, task, up>>

\* Mutant: the timed-wait is only scheduled when the table has no row for the
\* name.
DidFetchCompleteNoWait(f) ==
    /\ L!MayNotify(Life(f))
    /\ Live /\ running = Idle /\ f \in Listed
    /\ LET name == fetcher[f].name
           taken == \E w \in waits : w.name = name
       IN  /\ fetcher' = [fetcher EXCEPT ![f].life = L!Notified(@),
                                         ![f].refused = (@ \/ taken)]
           /\ waits' = IF name \in {r.name : r \in task} THEN waits
                       ELSE waits \cup {[name |-> name, f |-> f, ran |-> FALSE]}
           /\ task' = DeleteTask(task, name)
    /\ m_currentParallelFetches' = Decremented(m_currentParallelFetches)
    /\ due' = TRUE
    /\ UNCHANGED <<m_fetchList, running, up>>

\* DidFetchComplete, a job of its own.  The scheduler refuses the TimedWait
\* task when one with the same base name is registered.
DidFetchComplete(f) ==
    /\ L!MayNotify(Life(f))
    /\ Live /\ running = Idle /\ f \in Listed
    /\ LET name == fetcher[f].name
           taken == \E w \in waits : w.name = name
       IN  /\ fetcher' = [fetcher EXCEPT ![f].life = L!Notified(@),
                                         ![f].refused = (@ \/ taken)]
           /\ waits' = IF taken THEN waits ELSE waits \cup {[name |-> name, f |-> f, ran |-> FALSE]}
           /\ task' = DeleteTask(task, name)
    /\ m_currentParallelFetches' = Decremented(m_currentParallelFetches)
    /\ due' = TRUE
    /\ UNCHANGED <<m_fetchList, running, up>>

\* FillPipeline has sent Interests that no attempt needs: behind the give-up or
\* the end of the fetch, or for segments that it had counted before a restart.
\* They bring about an end of a fetcher that should have none.
MayStray(f) == Life(f) # L!New /\ ~Life(f).stalled /\ ~L!MayEnd(Life(f))

StrayNoDataTimeout(f) ==
    /\ MayStray(f)
    /\ Job(f, L!Failed(L!Strayed(Life(f))))
    /\ m_currentParallelFetches' = Decremented(m_currentParallelFetches)
    /\ running' = [in |-> "timeout", f |-> f]
    /\ UNCHANGED <<m_fetchList, waits, due, task, up>>

StrayFinishes(f) ==
    /\ MayStray(f)
    /\ Job(f, L!Completed(L!Strayed(Life(f))))
    /\ running' = [in |-> "finish", f |-> f]
    /\ UNCHANGED <<m_fetchList, m_currentParallelFetches, waits, due, task, up>>

\* The last outstanding Interest is answered and nothing is requested again.
FetchStalls(f) ==
    /\ L!MayStall(Life(f))
    /\ Job(f, L!Stalled(Life(f)))
    /\ UNCHANGED <<m_fetchList, m_currentParallelFetches, running, waits, due, task, up>>

-----------------------------------------------------------------------------
(* The process.                                                             *)

\* The destructor, or a crash: the fetchers are gone, the rows stay.
Stop ==
    /\ up
    /\ up' = FALSE
    /\ fetcher' = <<>> /\ m_fetchList' = <<>> /\ m_currentParallelFetches' = 0
    /\ running' = Idle /\ waits' = {} /\ due' = FALSE
    /\ UNCHANGED task

\* The constructor.  foreachTask takes the length of a name for the address of
\* a string, so the process ends when there is a row.
Restart ==
    /\ ~up
    /\ up' = (task = NoTasks)
    /\ UNCHANGED <<fetcher, m_fetchList, m_currentParallelFetches, running,
                   waits, due, task>>

FetchEndsOrStalls(f) == DidNoDataTimeout(f) \/ FetchFinishes(f) \/ FetchStalls(f)

Next ==
    \/ \E name \in Names : EnqueueRecord(name)
    \/ \E f \in Created :
          \/ \E high \in BOOLEAN : Enqueue(f, high)
          \/ RetryDue(f)
          \/ FetchEndsOrStalls(f)
          \/ NoDataTimeoutRetry(f)
          \/ FetchWaits(f)
          \/ DidFetchComplete(f)
          \/ StrayNoDataTimeout(f) \/ StrayFinishes(f)
    \/ ScheduleFetches
    \/ \E w \in waits : TimedWait(w) \/ TimedWaitReturn(w)
    \/ Stop
    \/ Restart

Spec == Init /\ [][Next]_vars

\* The scheduler's periodic task runs, the executor and the one-time tasks do,
\* time passes, and Interests are answered or time out.  The executor's queue is
\* first-in first-out, so jobs of one fetcher do not keep another's waiting.
FairSpec ==
    /\ Spec
    /\ WF_vars(ScheduleFetches)
    /\ WF_vars(Restart)
    /\ \A f \in Ids :
          /\ WF_vars(f \in Created /\ (\E high \in BOOLEAN : Enqueue(f, high)))
          /\ SF_vars(f \in Created /\ RetryDue(f))
          /\ SF_vars(f \in Created /\ FetchEndsOrStalls(f))
          /\ WF_vars(f \in Created /\ (NoDataTimeoutRetry(f) \/ FetchWaits(f)))
          /\ SF_vars(f \in Created /\ DidFetchComplete(f))
    /\ WF_vars(\E w \in waits : TimedWait(w) \/ TimedWaitReturn(w))

-----------------------------------------------------------------------------
Fetchers == [name : Names, life : L!Lives, hint : Hints, pause : 0..MaxPause,
             delayed : BOOLEAN, refused : BOOLEAN]

TypeOK ==
    /\ fetcher \in Seq(Fetchers) /\ Len(fetcher) <= MaxEnqueue
    /\ m_fetchList \in Seq(Ids) /\ Listed \subseteq Created
    /\ m_currentParallelFetches \in 0..(UintSize - 1)
    /\ running \in [in : {"idle", "timeout", "finish"}, f : {0} \cup Ids]
    /\ waits \subseteq [name : Names, f : Ids, ran : BOOLEAN]
    /\ due \in BOOLEAN /\ up \in BOOLEAN
    /\ task \subseteq [name : Names, f : Ids]

NoStray == \A f \in Created : ~Life(f).stray
Active == {f \in Created : Life(f).active}
Completing == {f \in Created : Life(f).completing > 0}

\* The unsigned m_currentParallelFetches counts the fetchers that are active and
\* the completions that the manager has not been told of, and stays within the
\* limit: two threads change it, and one decrement too many would stop every
\* later fetch.  The exception is a fetcher that sent Interests after giving up.
SlotsExact ==
    NoStray =>
        /\ m_currentParallelFetches =
              Cardinality(Active) + Cardinality(Completing)
        /\ m_currentParallelFetches <= m_maxParallelFetches

\* A fetcher is deleted only when nothing of it can call back: it is done, told,
\* and without Interests, unless a stray FillPipeline sent some.
DeletedIsQuiet ==
    NoStray =>
        \A f \in Created \ Listed :
            Life(f) # L!New => Life(f).timedwait /\ Life(f).completing = 0

\* The manager's accounts agree with its fetchers: the slots in use are those of
\* fetches under way, and what TimedWait deletes no longer calls back.
Accounting == TypeOK /\ SlotsExact /\ DeletedIsQuiet

\* Slots that are never given back: the fetch has stalled, or it was restarted
\* between m_active = false and m_timedwait = true.
DeadSlots == {f \in Active : Life(f).stalled \/ Life(f).timedwait}

\* ScheduleFetches has restarted a fetcher between the two halves of its
\* DidNoDataTimeout, before its pause was set.
Rushed == running.in = "timeout" /\ running.f \in Active

\* A fetch in the list is started, whatever fails before it: the retry pause of
\* one lets the others run.  The exceptions are that every slot is dead, that
\* stray Interests have upset the counter, and that others are rushed for ever.
QueuedIsStarted ==
    <>[]~Rushed => \A f \in Ids :
        (f \in Created /\ f \in Listed /\ L!MayStart(Life(f)))
            ~> (~up \/ f \in Active \/ ~NoStray \/ (f \in Created /\ Life(f).timedwait)
                    \/ Cardinality(DeadSlots) >= m_maxParallelFetches)

\* A completed fetcher leaves the list, unless the TimedWait task of another
\* fetch of the same name was registered when it completed, or the
\* counter is upset.
CompletedLeaves ==
    \A f \in Ids :
        (f \in Listed /\ Life(f).timedwait)
            ~> (~up \/ ~NoStray \/ f \notin Listed \/ fetcher[f].refused)

\* A fetch that fails again and again also tries the broadcast hint again and
\* again.
BroadcastIsTried ==
    \A f \in Ids :
        []<>(NoStray /\ running = [in |-> "timeout", f |-> f])
            => []<>(f \in Active /\ fetcher[f].hint = "broadcast")

=============================================================================
