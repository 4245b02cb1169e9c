---------------------------- MODULE CcnxWrapper ----------------------------
(***************************************************************************)
(* The binding to the CCNx daemon (ccnx/ccnx-wrapper.cpp).  Four threads   *)
(* meet here: the application, which sets filters, sends Interests, waits  *)
(* in get and shuts the wrapper down; ccnLoop, which runs the CCNx library *)
(* and reconnects when the daemon has gone; the executor (one thread),     *)
(* which runs the callbacks; and the daemon itself, which may stop and     *)
(* start again.                                                            *)
(*                                                                         *)
(* m_mutex makes each locked section one step.  The sections of one call   *)
(* are separate steps, and so are the accesses of ccnLoop and shutdown to  *)
(* m_connected, which take no lock.                                        *)
(*                                                                         *)
(* External: the CCNx library keeps filters and pending Interests in the   *)
(* handle across ccn_disconnect, fails in ccn_run once the connection is   *)
(* lost, and ends a pending Interest by one CONTENT or TIMED_OUT upcall    *)
(* that the FINAL upcall follows.                                          *)
(***************************************************************************)
EXTENDS Integers, Sequences, FiniteSets

CONSTANTS
  Prefix,        \* names that filters are set for
  Callback,      \* interest callbacks, numbers from 1
  Interest,      \* Interests to be sent, each once
  Got,           \* those that get sends, the others are the application's own
  MaxInterval,   \* maxInterval of ccnLoop, 32 in the code
  MaxFail,       \* bound: times the connection is lost
  MaxJobs,       \* bound: jobs in the queue when another Interest comes in
  MaxCall,       \* bound: calls that set or clear a filter
  MaxShutdown    \* bound: calls of shutdown, the last one by the destructor

ASSUME CcnxAssumption ==
  /\ Callback \subseteq Nat \ {0}
  /\ Got \subseteq Interest
  /\ MaxInterval \in Nat \ {0} /\ MaxFail \in Nat
  /\ MaxJobs \in Nat \ {0} /\ MaxCall \in Nat /\ MaxShutdown \in Nat \ {0}

VARIABLES
  m_running, m_connected,
  ccnd,                    \* the daemon runs
  linked,                  \* the handle's socket reaches the daemon
  routes,                  \* prefixes the daemon forwards to this process
  filters,                 \* the callback of each filter in the handle, 0: none
  m_registeredInterests,   \* the recorded callbacks, 0: none
  loop,                    \* ccnLoop: where it is and its reconnect interval
  phase,                   \* how far sendInterest and the handle are with an Interest
  closures,                \* Interests whose closure is allocated
  jobs, executing,         \* the executor: its queue, and whether its thread lives
  getter,                  \* how far a get is
  object,                  \* what is being published: "whole", "empty", "none"
  reunited,                \* history: a connection was made since the object was
  emptied,                 \* history: an empty object was put, with no such connection
  stopper,                 \* how far shutdown is
  fails, calls, shutdowns, \* what the bounds count
  latest,                  \* history: what the last accepted call set a filter to
  answered,                \* history: Interests whose callback has been run
  abandoned                \* history: shutdown returned without joining ccnLoop

handle == <<linked, routes, filters>>
bounds == <<fails, calls, shutdowns>>
publishing == <<object, reunited, emptied>>
executor == <<closures, jobs, executing, answered>>
vars == <<m_running, m_connected, ccnd, handle, m_registeredInterests, loop, phase,
          executor, getter, publishing, stopper, bounds, latest, abandoned>>

Open == m_running /\ m_connected
Usable == stopper \notin {"destroyed"}

\* The constructor has connected and started both threads.
Init ==
  /\ m_running = TRUE /\ m_connected = TRUE
  /\ ccnd = TRUE /\ linked = TRUE /\ routes = {}
  /\ filters = [p \in Prefix |-> 0]
  /\ m_registeredInterests = [p \in Prefix |-> 0]
  /\ loop = [at |-> "top", interval |-> 1]
  /\ phase = [i \in Interest |-> "new"]
  /\ closures = {} /\ jobs = <<>> /\ executing = TRUE
  /\ getter = [i \in Got |-> "new"]
  /\ stopper = "none"
  /\ object = "none" /\ reunited = FALSE /\ emptied = FALSE
  /\ fails = 0 /\ calls = 0 /\ shutdowns = 0
  /\ latest = [p \in Prefix |-> 0]
  /\ answered = {} /\ abandoned = FALSE

-----------------------------------------------------------------------------
(* The daemon. *)

CcndStops ==
  /\ ccnd /\ fails < MaxFail
  /\ ccnd' = FALSE /\ linked' = FALSE /\ routes' = {}
  /\ fails' = fails + 1
  /\ UNCHANGED <<m_running, m_connected, filters, m_registeredInterests, loop, phase,
                 executor, getter, stopper, calls, shutdowns, publishing, latest, abandoned>>

CcndStarts ==
  /\ ~ccnd
  /\ ccnd' = TRUE
  /\ UNCHANGED <<m_running, m_connected, handle, m_registeredInterests, loop, phase,
                 executor, getter, stopper, bounds, publishing, latest, abandoned>>

-----------------------------------------------------------------------------
(* Filters, called by the application. *)

\* map::insert keeps the callback of a prefix that is already recorded.
Recorded(p, cb) ==
  IF m_registeredInterests[p] = 0 THEN [m_registeredInterests EXCEPT ![p] = cb]
                                  ELSE m_registeredInterests

\* A filter that the daemon does not hear of is recorded all the same.
SetInterestFilter(p, cb) ==
  /\ Usable /\ Open /\ calls < MaxCall
  /\ filters' = [filters EXCEPT ![p] = cb]
  /\ routes' = IF linked THEN routes \cup {p} ELSE routes
  /\ m_registeredInterests' = Recorded(p, cb)
  /\ latest' = [latest EXCEPT ![p] = cb]
  /\ calls' = calls + 1
  /\ UNCHANGED <<m_running, m_connected, ccnd, linked, loop, phase, executor, getter,
                 stopper, fails, shutdowns, publishing, abandoned>>

Erased(p) == [m_registeredInterests EXCEPT ![p] = 0]

\* Mutant: the handle keeps the filter.
ClearInterestFilterOnRecord(p) ==
  /\ Usable /\ Open /\ calls < MaxCall
  /\ m_registeredInterests' = Erased(p)
  /\ latest' = [latest EXCEPT ![p] = 0]
  /\ calls' = calls + 1
  /\ UNCHANGED <<m_running, m_connected, ccnd, handle, loop, phase, executor,
                 getter, stopper, fails, shutdowns, publishing, abandoned>>

\* Neither call does anything while the wrapper is not connected.
ClearInterestFilter(p) ==
  /\ Usable /\ Open /\ calls < MaxCall
  /\ filters' = [filters EXCEPT ![p] = 0]
  /\ m_registeredInterests' = Erased(p)
  /\ latest' = [latest EXCEPT ![p] = 0]
  /\ calls' = calls + 1
  /\ UNCHANGED <<m_running, m_connected, ccnd, linked, routes, loop, phase, executor,
                 getter, stopper, fails, shutdowns, publishing, abandoned>>

-----------------------------------------------------------------------------
(* sendInterest checks under the lock, releases it, and takes it again to  *)
(* express the Interest; get sends one and waits for its callback.         *)

Moves(i, from, to) == phase[i] = from /\ phase' = [phase EXCEPT ![i] = to]

\* The first section; a refused call returns -1.
SendInterest(i) ==
  /\ Usable
  /\ i \in Got => getter[i] = "checked"
  /\ Moves(i, "new", IF Open THEN "checked" ELSE "refused")
  /\ closures' = IF Open THEN closures \cup {i} ELSE closures
  /\ UNCHANGED <<m_running, m_connected, ccnd, handle, m_registeredInterests, loop, jobs,
                 executing, answered, getter, stopper, bounds, publishing, latest, abandoned>>

\* The second section; a failure to express is logged and leaks the closure.
SendInterestExpress(i) ==
  /\ \/ Moves(i, "checked", "pending")
     \/ ~linked /\ Moves(i, "checked", "lost")
  /\ UNCHANGED <<m_running, m_connected, ccnd, handle, m_registeredInterests, loop,
                 executor, getter, stopper, bounds, publishing, latest, abandoned>>

\* The check of get itself; a refused get returns nothing.
GetCheck(i) ==
  /\ Usable /\ getter[i] = "new"
  /\ getter' = [getter EXCEPT ![i] = IF Open THEN "checked" ELSE "returned"]
  /\ UNCHANGED <<m_running, m_connected, ccnd, handle, m_registeredInterests, loop, phase,
                 executor, stopper, bounds, publishing, latest, abandoned>>

\* WaitForResult ends when it is notified or its time has passed, whatever
\* became of the Interest.
GetReturn(i) ==
  /\ getter[i] = "checked" /\ phase[i] \notin {"new", "checked"}
  /\ getter' = [getter EXCEPT ![i] = "returned"]
  /\ UNCHANGED <<m_running, m_connected, ccnd, handle, m_registeredInterests, loop, phase,
                 executor, stopper, bounds, publishing, latest, abandoned>>

-----------------------------------------------------------------------------
(* Publishing: an object is made in one section and put in another.        *)

Publishes(what) ==
  /\ Usable /\ object = "none"
  /\ object' = what
  /\ UNCHANGED <<m_running, m_connected, ccnd, handle, m_registeredInterests, loop, phase,
                 executor, getter, reunited, emptied, stopper, bounds, latest, abandoned>>

\* Signing needs the handle; without a connection the object is empty, and
\* publishData puts it all the same.
CreateContentObject == Publishes(IF Open THEN "whole" ELSE "empty")

\* A refused call returns -1.
PublishUnsignedData == Open /\ Publishes("whole")

\* Mutant: there is no second check.
MayPutAlways == TRUE

MayPut == Open

\* ccn_put may fail, which is logged, and putToCcnd returns 0.
PutToCcnd ==
  /\ object # "none"
  /\ object' = "none" /\ reunited' = FALSE
  /\ emptied' = (emptied \/ (MayPut /\ object = "empty" /\ ~reunited))
  /\ UNCHANGED <<m_running, m_connected, ccnd, handle, m_registeredInterests, loop, phase,
                 executor, getter, stopper, bounds, latest, abandoned>>

-----------------------------------------------------------------------------
(* ccnLoop *)

LoopTo(from, to) == loop.at = from /\ loop' = [loop EXCEPT !.at = to]

LoopTop ==
  /\ LoopTo("top", IF m_running THEN "run" ELSE "ended")
  /\ UNCHANGED <<m_running, m_connected, ccnd, handle, m_registeredInterests, phase,
                 executor, getter, stopper, bounds, publishing, latest, abandoned>>

Run(i) == [do |-> "run", i |-> i]
Free(i) == [do |-> "free", i |-> i]
Serve(cb) == [do |-> "serve", i |-> cb]

\* Mutant: the FINAL upcall frees the closure itself.
FinalAtOnce(i) == jobs' = Append(jobs, Run(i)) /\ closures' = closures \ {i}

\* The upcalls that end an Interest: its callback is queued with a bare
\* pointer to the closure, and so is the closure's deletion.
Final(i) == jobs' = jobs \o <<Run(i), Free(i)>> /\ UNCHANGED closures

IncomingData(i) ==
  /\ linked /\ loop.at = "run" /\ phase[i] = "pending"
  /\ phase' = [phase EXCEPT ![i] = "ended"]
  /\ Final(i)
  /\ loop' = [loop EXCEPT !.at = "top"]
  /\ UNCHANGED <<m_running, m_connected, ccnd, handle, m_registeredInterests, executing,
                 answered, getter, stopper, bounds, publishing, latest, abandoned>>

\* The callback of the filter is copied into the job.
IncomingInterest(p) ==
  /\ linked /\ p \in routes /\ filters[p] # 0
  /\ Len(jobs) < MaxJobs
  /\ LoopTo("run", "top")
  /\ jobs' = Append(jobs, Serve(filters[p]))
  /\ UNCHANGED <<m_running, m_connected, ccnd, handle, m_registeredInterests, phase,
                 closures, executing, answered, getter, stopper, bounds, publishing, latest,
                 abandoned>>

\* ccn_run finds nothing to do, or the connection lost.
CcnRun ==
  /\ LoopTo("run", IF linked THEN "top" ELSE "broken")
  /\ UNCHANGED <<m_running, m_connected, ccnd, handle, m_registeredInterests, phase,
                 executor, getter, stopper, bounds, publishing, latest, abandoned>>

\* After a ccn_run that failed: stop or throw.  After one that did not, the
\* check is the one at the top of the loop again, with only poll in between.
LoopCheck ==
  /\ LoopTo("broken", IF m_running THEN "failed" ELSE "ended")
  /\ UNCHANGED <<m_running, m_connected, ccnd, handle, m_registeredInterests, phase,
                 executor, getter, stopper, bounds, publishing, latest, abandoned>>

\* Mutant: the exception ends the thread.
LoopFailedEnds ==
  /\ loop.at = "failed"
  /\ m_connected' = FALSE
  /\ loop' = [at |-> "ended", interval |-> 1]
  /\ UNCHANGED <<m_running, ccnd, handle, m_registeredInterests, phase, executor, getter,
                 stopper, bounds, publishing, latest, abandoned>>

\* The handler of the exception takes no lock.
LoopFailed ==
  /\ loop.at = "failed"
  /\ m_connected' = FALSE
  /\ loop' = [at |-> "retry", interval |-> 1]
  /\ UNCHANGED <<m_running, ccnd, handle, m_registeredInterests, phase, executor, getter,
                 stopper, bounds, publishing, latest, abandoned>>

\* Mutant: ccnLoop goes on reconnecting after shutdown.
MayRetryAlways == TRUE

MayRetry == m_running

LoopRetry ==
  /\ LoopTo("retry", IF MayRetry THEN "asleep" ELSE "top")
  /\ UNCHANGED <<m_running, m_connected, ccnd, handle, m_registeredInterests, phase,
                 executor, getter, stopper, bounds, publishing, latest, abandoned>>

\* connectCcnd up to the lock.
ConnectDisconnect ==
  /\ LoopTo("asleep", "connect")
  /\ linked' = FALSE /\ routes' = {}
  /\ UNCHANGED <<m_running, m_connected, ccnd, filters, m_registeredInterests, phase,
                 executor, getter, stopper, bounds, publishing, latest, abandoned>>

OnRecord == {p \in Prefix : m_registeredInterests[p] # 0}

\* Mutant: only what the handle does not know any more is registered again.
ReregisterNew == IF m_running THEN {p \in OnRecord : filters[p] = 0} ELSE {}

\* What connectCcnd registers again: clear and set do nothing after shutdown.
Reregister == IF m_running THEN OnRecord ELSE {}

ConnectCcnd ==
  /\ ccnd
  /\ LoopTo("connect", "top")
  /\ linked' = TRUE /\ m_connected' = TRUE
  /\ filters' = [p \in Prefix |-> IF p \in Reregister THEN m_registeredInterests[p]
                                                      ELSE filters[p]]
  /\ routes' = Reregister
  /\ reunited' = (object = "empty")
  /\ UNCHANGED <<m_running, ccnd, m_registeredInterests, phase, executor, getter, stopper,
                 bounds, object, emptied, latest, abandoned>>

Backoff == IF loop.interval < MaxInterval THEN loop.interval * 2 ELSE loop.interval

ConnectFails ==
  /\ ~ccnd
  /\ loop.at = "connect"
  /\ loop' = [at |-> "retry", interval |-> Backoff]
  /\ UNCHANGED <<m_running, m_connected, ccnd, handle, m_registeredInterests, phase,
                 executor, getter, stopper, bounds, publishing, latest, abandoned>>

Loop ==
  \/ LoopTop \/ CcnRun \/ LoopCheck \/ LoopFailed \/ LoopRetry
  \/ ConnectDisconnect \/ ConnectCcnd \/ ConnectFails

-----------------------------------------------------------------------------
(* The executor's thread. *)

\* The callback of get notifies the thread that waits for it, which has
\* perhaps given up: its GetState is then written to after get has returned.
RunJob ==
  LET job == Head(jobs) IN
  /\ executing /\ jobs # <<>>
  /\ jobs' = Tail(jobs)
  /\ closures' = IF job.do = "free" THEN closures \ {job.i} ELSE closures
  /\ answered' = IF job.do = "run" THEN answered \cup {job.i} ELSE answered
  /\ UNCHANGED <<m_running, m_connected, ccnd, handle, m_registeredInterests, loop, phase,
                 executing, getter, stopper, bounds, publishing, latest, abandoned>>

-----------------------------------------------------------------------------
(* shutdown *)

Stopping(from, to) == stopper = from /\ stopper' = to

ShutdownExecutor ==
  /\ stopper \in {"none", "returned"} /\ shutdowns < MaxShutdown
  /\ stopper' = "executor"
  /\ shutdowns' = shutdowns + 1
  /\ executing' = FALSE
  /\ UNCHANGED <<m_running, m_connected, ccnd, handle, m_registeredInterests, loop, phase,
                 closures, jobs, answered, getter, fails, calls, publishing, latest, abandoned>>

ShutdownRunning ==
  /\ Stopping("executor", "stopped")
  /\ m_running' = FALSE
  /\ UNCHANGED <<m_connected, ccnd, handle, m_registeredInterests, loop, phase, executor,
                 getter, bounds, publishing, latest, abandoned>>

\* Without a connection the thread is not joined.
ShutdownConnected ==
  /\ Stopping("stopped", IF m_connected THEN "join" ELSE "returned")
  /\ abandoned' = ~m_connected
  /\ UNCHANGED <<m_running, m_connected, ccnd, handle, m_registeredInterests, loop, phase,
                 executor, getter, bounds, publishing, latest>>

\* Mutant: the thread is not waited for.
JoinedAlways == TRUE

Joined == loop.at = "ended"

ShutdownJoin ==
  /\ Joined
  /\ Stopping("join", "returned")
  /\ linked' = FALSE /\ routes' = {} /\ m_connected' = FALSE
  /\ UNCHANGED <<m_running, ccnd, filters, m_registeredInterests, loop, phase, executor,
                 getter, bounds, publishing, latest, abandoned>>

\* The destructor, whose own shutdown is the last one.
Destroy ==
  /\ Stopping("returned", "destroyed")
  /\ \A i \in Interest : phase[i] # "checked"
  /\ \A i \in Got : getter[i] # "checked"
  /\ object = "none"
  /\ UNCHANGED <<m_running, m_connected, ccnd, handle, m_registeredInterests, loop, phase,
                 executor, getter, bounds, publishing, latest, abandoned>>

Shutdown == ShutdownRunning \/ ShutdownConnected \/ ShutdownJoin

Next ==
  \/ CcndStops \/ CcndStarts
  \/ \E p \in Prefix, cb \in Callback : SetInterestFilter(p, cb)
  \/ \E p \in Prefix : ClearInterestFilter(p) \/ IncomingInterest(p)
  \/ \E i \in Interest : SendInterest(i) \/ SendInterestExpress(i) \/ IncomingData(i)
  \/ \E i \in Got : GetCheck(i) \/ GetReturn(i)
  \/ CreateContentObject \/ PublishUnsignedData \/ PutToCcnd
  \/ Loop
  \/ RunJob
  \/ ShutdownExecutor \/ Shutdown \/ Destroy

Spec == Init /\ [][Next]_vars

\* ccnLoop, the executor and a shutdown that has begun keep running, and an
\* Interest ends although ccn_run often finds the loop elsewhere: it is
\* answered or its lifetime passes.
FairSpec ==
  /\ Spec
  /\ WF_vars(Loop) /\ WF_vars(RunJob) /\ WF_vars(Shutdown)
  /\ \A i \in Interest : SF_vars(IncomingData(i)) /\ WF_vars(SendInterestExpress(i))

-----------------------------------------------------------------------------
LoopPc == {"top", "run", "broken", "failed", "retry", "asleep", "connect", "ended"}
Calls == Callback \cup {0}

\* The state is well formed: in particular the reconnect interval stays below
\* twice its maximum, and only closures that exist are freed.
TypeOK ==
  /\ m_running \in BOOLEAN /\ m_connected \in BOOLEAN /\ ccnd \in BOOLEAN
  /\ linked \in BOOLEAN /\ (linked => ccnd) /\ routes \subseteq Prefix
  /\ filters \in [Prefix -> Calls] /\ m_registeredInterests \in [Prefix -> Calls]
  /\ loop \in [at : LoopPc, interval : 1..(2 * MaxInterval - 1)]
  /\ phase \in [Interest -> {"new", "checked", "refused", "pending", "lost", "ended"}]
  /\ getter \in [Got -> {"new", "checked", "returned"}]
  /\ stopper \in {"none", "executor", "stopped", "join", "returned", "destroyed"}
  /\ object \in {"none", "whole", "empty"} /\ (reunited => object = "empty")
  /\ emptied \in BOOLEAN
  /\ executing \in BOOLEAN /\ closures \subseteq Interest
  /\ \A k \in DOMAIN jobs : jobs[k].do \in {"run", "free", "serve"}

\* A callback on its way to the executor, which holds a bare pointer to the
\* closure, finds the closure allocated: the deletion that the FINAL upcall
\* queues runs after it on the only thread (incomingData).
ClosureOutlivesJobs ==
  \A k \in DOMAIN jobs : jobs[k].do \in {"run", "free"} => jobs[k].i \in closures

\* However often the connection is lost and restored, a prefix has a filter
\* exactly when the last call about it that was carried out set one
\* (m_registeredInterests, connectCcnd).  The callback is the recorded one or
\* the latest: a second setInterestFilter does not replace what is recorded.
FilterIsWanted ==
  \A p \in Prefix : /\ filters[p] = 0 <=> latest[p] = 0
                    /\ filters[p] \in {m_registeredInterests[p], latest[p]}

\* publishData reports success only for an object that it could sign, although
\* it puts what createContentObject gives without looking: the exception is a
\* connection that is made between the two sections (putToCcnd).
PublishedIsWhole == ~emptied

\* When the wrapper is destroyed its thread has ended, unless shutdown found
\* the wrapper disconnected and did not join it (shutdown).
DestroyedIsQuiet == stopper = "destroyed" => (loop.at = "ended" \/ abandoned)

\* Nothing is used after it was freed: neither a closure by a queued callback nor
\* the wrapper by its own thread (incomingData, shutdown).
NothingDangles == TypeOK /\ ClosureOutlivesJobs /\ DestroyedIsQuiet

\* A recorded filter is served by the daemon again after every loss of the
\* connection, unless it is removed, the wrapper shut down or the daemon gone
\* (ccnLoop, connectCcnd).
RecordedIsServed ==
  \A p \in Prefix :
    m_registeredInterests[p] # 0 ~>
      \/ linked /\ p \in routes /\ filters[p] # 0
      \/ m_registeredInterests[p] = 0 \/ ~m_running \/ ~ccnd

\* An Interest that the library has taken ends in a callback, across
\* reconnections, unless the executor is stopped or the daemon gone
\* (sendInterest, incomingData).
SentIsAnswered ==
  \A i \in Interest : phase[i] = "pending" ~> (i \in answered \/ ~executing \/ ~ccnd)

\* Losing the connection is healed: filters and pending Interests both outlive the
\* daemon's restart (ccnLoop, connectCcnd).
ReconnectionHeals == RecordedIsServed /\ SentIsAnswered

\* shutdown returns, wherever it finds ccnLoop and whatever the daemon does.
ShutdownReturns == stopper = "executor" ~> stopper = "returned"

=============================================================================
