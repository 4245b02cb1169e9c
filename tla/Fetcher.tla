------------------------------- MODULE Fetcher -------------------------------
(***************************************************************************)
(* One Fetcher (src/fetcher.cc): it fetches the segments m_minSeqNo ..     *)
(* m_maxSeqNo of a name with a pipeline of Interests.  Its handlers are    *)
(* jobs of the FetchManager's executor, which has one thread, so they run  *)
(* one after the other in the order they were queued.                      *)
(*                                                                         *)
(* The network is the environment: an outstanding Interest is answered, or *)
(* times out, at any moment.  Of the clock the model keeps whether more    *)
(* than m_maximumNoActivityPeriod has passed since m_lastPositiveActivity; *)
(* it may pass at any moment, even while jobs wait, because the executor   *)
(* is shared by all fetchers and runs their callbacks.  FetchManager's     *)
(* part is RestartPipeline, which ScheduleFetches calls on a fetcher that  *)
(* is neither active nor in timed-wait; it runs on a thread of the         *)
(* scheduler and writes m_minSendSeqNo without a lock, while FillPipeline  *)
(* may be in its loop, so the loop is modelled read by read.               *)
(***************************************************************************)
EXTENDS Integers, Sequences, Bags, FiniteSets

CONSTANTS
    m_minSeqNo, m_maxSeqNo,
    m_pipeline,         \* size of the pipeline (6 in the code)
    MaxReexpress,       \* bound on the Interests that are re-expressed
    MaxRestart          \* bound on the calls of RestartPipeline

ASSUME RangeAssumption == m_minSeqNo \in Nat /\ m_maxSeqNo \in Nat
                          /\ m_minSeqNo <= m_maxSeqNo
ASSUME PipelineAssumption == m_pipeline \in Nat \ {0}
ASSUME BoundsAssumption == MaxReexpress \in Nat /\ MaxRestart \in Nat

VARIABLES
    m_active, m_timedwait,
    m_minSendSeqNo,
    m_maxInOrderRecvSeqNo,
    m_outOfOrderRecvSeqNo,
    m_inActivePipeline,
    m_activePipeline,
    pending,        \* bag of outstanding Interests
    jobs,           \* the executor's queue
    fill,           \* FillPipeline's loop: where it is, and the value of
                    \* m_minSendSeqNo that it has read last
    reexpressed,    \* Interests re-expressed so far
    restarts,       \* calls of RestartPipeline so far
    noActivity,     \* m_lastPositiveActivity is older than the period
    delivered,      \* observation: the numbers the segment callback was given
    finished,       \* observation: calls of the finish callback
    lost,           \* observation: some Interest has timed out
    owed,           \* observation: restarts minus the ends reported
    stray,          \* observation: Interests were sent that no attempt needs
    torn            \* observation: one turn of the loop of FillPipeline has met
                    \* two values of m_minSendSeqNo

seqVars == <<m_minSendSeqNo, m_maxInOrderRecvSeqNo, m_outOfOrderRecvSeqNo,
             m_inActivePipeline, m_activePipeline>>
fillVars == <<fill, torn>>
vars == <<m_active, m_timedwait, seqVars, pending, jobs, reexpressed, restarts,
          noActivity, delivered, finished, lost, owed, stray, fillVars>>

\* An outstanding Interest: the segment that it names, and the numbers bound
\* into its OnData and its OnTimeout.
Interest(seqno, timeout, name) == [seqno |-> seqno, timeout |-> timeout, name |-> name]

AtTest == [pc |-> "test", n |-> m_minSeqNo - 1]

FillJob == [do |-> "fill"]
DataJob(i) == [do |-> "data", i |-> i]
TimeoutJob(i) == [do |-> "timeout", i |-> i]
FinishJob == [do |-> "finish"]
CompleteJob == [do |-> "complete"]

Init ==
    /\ m_active = FALSE
    /\ m_timedwait = FALSE
    /\ m_minSendSeqNo = m_minSeqNo - 1
    /\ m_maxInOrderRecvSeqNo = m_minSeqNo - 1
    /\ m_outOfOrderRecvSeqNo = {}
    /\ m_inActivePipeline = {}
    /\ m_activePipeline = 0
    /\ pending = EmptyBag
    /\ jobs = <<>>
    /\ reexpressed = 0
    /\ restarts = 0
    /\ noActivity = TRUE
    /\ delivered = {}
    /\ finished = 0
    /\ lost = FALSE
    /\ owed = 0
    /\ stray = FALSE
    /\ fill = AtTest
    /\ torn = FALSE

\* Mutant: a restart takes the pipeline for empty.
RestartEmptyPipeline ==
    /\ ~m_active
    /\ ~m_timedwait
    /\ restarts < MaxRestart
    /\ m_active' = TRUE
    /\ m_minSendSeqNo' = m_maxInOrderRecvSeqNo
    /\ m_inActivePipeline' = {} /\ m_activePipeline' = 0
    /\ jobs' = Append(jobs, FillJob)
    /\ restarts' = restarts + 1
    /\ noActivity' = FALSE
    /\ owed' = owed + 1
    /\ UNCHANGED <<m_timedwait, m_maxInOrderRecvSeqNo, m_outOfOrderRecvSeqNo,
                   pending, reexpressed, delivered, finished, lost, stray, fillVars>>

\* RestartPipeline, called by FetchManager::ScheduleFetches.
RestartPipeline ==
    /\ ~m_active
    /\ ~m_timedwait
    /\ restarts < MaxRestart
    /\ m_active' = TRUE
    /\ m_minSendSeqNo' = m_maxInOrderRecvSeqNo
    /\ jobs' = Append(jobs, FillJob)
    /\ restarts' = restarts + 1
    /\ noActivity' = FALSE
    /\ owed' = owed + 1
    /\ UNCHANGED <<m_timedwait, m_maxInOrderRecvSeqNo, m_outOfOrderRecvSeqNo,
                   m_inActivePipeline, m_activePipeline, pending, reexpressed,
                   delivered, finished, lost, stray, fillVars>>

-----------------------------------------------------------------------------
(* Network and timers: OnData and OnTimeout only queue a job.               *)

OnData(i) ==
    /\ BagIn(i, pending)
    /\ pending' = pending (-) SetToBag({i})
    /\ jobs' = Append(jobs, DataJob(i))
    /\ UNCHANGED <<m_active, m_timedwait, seqVars, reexpressed, restarts,
                   noActivity, delivered, finished, lost, owed, stray, fillVars>>

OnTimeout(i) ==
    /\ BagIn(i, pending)
    /\ pending' = pending (-) SetToBag({i})
    /\ jobs' = Append(jobs, TimeoutJob(i))
    /\ lost' = TRUE
    /\ UNCHANGED <<m_active, m_timedwait, seqVars, reexpressed, restarts,
                   noActivity, delivered, finished, owed, stray, fillVars>>

\* The clock: m_maximumNoActivityPeriod is over.
PeriodPasses ==
    /\ ~noActivity
    /\ noActivity' = TRUE
    /\ UNCHANGED <<m_active, m_timedwait, seqVars, pending, jobs, reexpressed,
                   restarts, delivered, finished, lost, owed, stray, fillVars>>

-----------------------------------------------------------------------------
(* The executor.                                                            *)

Job(what) == jobs # <<>> /\ Head(jobs).do = what

\* A request that no attempt needs: the fetcher is not active, or the segment is
\* counted in order.  A restart goes back to the first gap, and answers that
\* overtake the next FillPipeline may close it and what lies beyond it.
Needless(n) == ~m_active \/ n <= m_maxInOrderRecvSeqNo

\* FillPipeline.  The thread is in the loop at pc; what it reads of
\* m_minSendSeqNo now may differ from what it read before in the same turn,
\* because RestartPipeline has written it.
Filling(pc) == Job("fill") /\ fill.pc = pc
Reads(pc) ==
    /\ fill' = [pc |-> pc, n |-> m_minSendSeqNo]
    /\ torn' = (torn \/ m_minSendSeqNo # fill.n)

notFill == <<m_active, m_timedwait, m_maxInOrderRecvSeqNo, m_outOfOrderRecvSeqNo,
             reexpressed, restarts, noActivity, delivered, finished, lost, owed>>

\* Mutant: the loop ends one segment early (m_minSendSeqNo + 1 < m_maxSeqNo).
FillTestEarly ==
    /\ Filling("test")
    /\ IF m_minSendSeqNo + 1 < m_maxSeqNo /\ m_activePipeline < m_pipeline
       THEN fill' = [pc |-> "find", n |-> m_minSendSeqNo] /\ UNCHANGED jobs
       ELSE jobs' = Tail(jobs) /\ UNCHANGED fill
    /\ UNCHANGED <<m_minSendSeqNo, m_inActivePipeline, m_activePipeline, pending,
                   stray, torn, notFill>>

\* The condition of the loop.
FillTest ==
    /\ Filling("test")
    /\ IF m_minSendSeqNo < m_maxSeqNo /\ m_activePipeline < m_pipeline
       THEN fill' = [pc |-> "find", n |-> m_minSendSeqNo] /\ UNCHANGED jobs
       ELSE jobs' = Tail(jobs) /\ UNCHANGED fill
    /\ UNCHANGED <<m_minSendSeqNo, m_inActivePipeline, m_activePipeline, pending,
                   stray, torn, notFill>>

\* Mutant: the loop does not look at m_inActivePipeline.
FillFindReceived ==
    /\ Filling("find")
    /\ Reads(IF m_minSendSeqNo + 1 \in m_outOfOrderRecvSeqNo THEN "advance" ELSE "insert")
    /\ UNCHANGED <<m_minSendSeqNo, m_inActivePipeline, m_activePipeline, pending, jobs,
                   stray, notFill>>

\* What is received or requested is skipped.
FillFind ==
    /\ Filling("find")
    /\ Reads(IF m_minSendSeqNo + 1 \in m_outOfOrderRecvSeqNo \cup m_inActivePipeline
             THEN "advance" ELSE "insert")
    /\ UNCHANGED <<m_minSendSeqNo, m_inActivePipeline, m_activePipeline, pending, jobs,
                   stray, notFill>>

FillInsert ==
    /\ Filling("insert")
    /\ m_inActivePipeline' = m_inActivePipeline \cup {m_minSendSeqNo + 1}
    /\ Reads("express")
    /\ UNCHANGED <<m_minSendSeqNo, m_activePipeline, pending, jobs, stray, notFill>>

\* expressInterest: the name and the numbers of the two callbacks are read one
\* after the other.
FillExpress ==
    /\ Filling("express")
    /\ \E name, seqno, timeout \in {fill.n, m_minSendSeqNo} :
          /\ name # fill.n => seqno = name /\ timeout = name
          /\ pending' = pending (+) SetToBag({Interest(seqno + 1, timeout + 1, name + 1)})
          /\ stray' = (stray \/ Needless(seqno + 1))
          /\ fill' = [pc |-> "advance",
                      n |-> IF seqno = fill.n /\ timeout = fill.n THEN fill.n
                            ELSE m_minSendSeqNo]
    /\ torn' = (torn \/ m_minSendSeqNo # fill.n)
    /\ m_activePipeline' = m_activePipeline + 1
    /\ UNCHANGED <<m_minSendSeqNo, m_inActivePipeline, jobs, notFill>>

\* m_minSendSeqNo++, a load and a store: what RestartPipeline writes between
\* the two is lost.
FillAdvance ==
    /\ Filling("advance")
    /\ m_minSendSeqNo' \in {fill.n + 1, m_minSendSeqNo + 1}
    /\ fill' = AtTest
    /\ torn' = (torn \/ m_minSendSeqNo # fill.n)
    /\ UNCHANGED <<m_inActivePipeline, m_activePipeline, pending, jobs, stray, notFill>>

FillPipeline == FillTest \/ FillFind \/ FillInsert \/ FillExpress \/ FillAdvance

\* Mutant: the loop takes the highest received number for the in-order one.
InOrderHighest(received) ==
    CHOOSE n \in received \cup {m_maxInOrderRecvSeqNo} :
        \A k \in received \cup {m_maxInOrderRecvSeqNo} : k <= n

\* The loop of OnData_Execute over the received numbers, in their order.
InOrder(received) ==
    CHOOSE n \in m_maxInOrderRecvSeqNo..(m_maxInOrderRecvSeqNo + Cardinality(received)) :
        /\ (m_maxInOrderRecvSeqNo + 1)..n \subseteq received
        /\ n + 1 \notin received

\* OnData_Execute up to the end of the fetch: what is left to do then
\* (FinishFetch) stays at the head of the queue, because m_active is already
\* false and ScheduleFetches, on another thread, may look at it.
OnDataExecute ==
    /\ Job("data")
    /\ LET i == Head(jobs).i
           received == m_outOfOrderRecvSeqNo \cup {i.seqno}
           last == InOrder(received)
       IN  /\ delivered' = delivered \cup {i.seqno}
           /\ m_activePipeline' = m_activePipeline - 1
           /\ m_inActivePipeline' = m_inActivePipeline \ {i.seqno}
           /\ m_maxInOrderRecvSeqNo' = last
           /\ m_outOfOrderRecvSeqNo' = {n \in received : n > last}
           /\ IF last = m_maxSeqNo
              THEN m_active' = FALSE /\ jobs' = [jobs EXCEPT ![1] = FinishJob]
              ELSE jobs' = Append(Tail(jobs), FillJob) /\ UNCHANGED m_active
    /\ noActivity' = FALSE
    /\ UNCHANGED <<m_timedwait, m_minSendSeqNo, pending, reexpressed, restarts,
                   finished, lost, owed, stray, fillVars>>

\* The rest of OnData_Execute: the finish callback, m_timedwait and the job
\* that tells FetchManager.
FinishFetch ==
    /\ Job("finish")
    /\ finished' = finished + 1
    /\ m_timedwait' = TRUE
    /\ jobs' = Append(Tail(jobs), CompleteJob)
    /\ UNCHANGED <<m_active, seqVars, pending, reexpressed, restarts, noActivity,
                   delivered, lost, owed, stray, fillVars>>

\* Mutant: the Interest is given up without taking it from m_activePipeline.
OnTimeoutGiveUpUncounted ==
    /\ Job("timeout")
    /\ noActivity
    /\ jobs' = Tail(jobs)
    /\ m_inActivePipeline' = m_inActivePipeline \ {Head(jobs).i.timeout}
    /\ m_active' = (m_active /\ m_activePipeline # 0)
    /\ owed' = IF m_activePipeline = 0 THEN owed - 1 ELSE owed
    /\ UNCHANGED <<m_timedwait, m_minSendSeqNo, m_maxInOrderRecvSeqNo,
                   m_outOfOrderRecvSeqNo, m_activePipeline, pending, reexpressed,
                   restarts, noActivity, delivered, finished, lost, stray, fillVars>>

\* Mutant: every Interest that is given up is reported as the end of the fetch.
OnTimeoutGiveUpEach ==
    /\ Job("timeout")
    /\ noActivity
    /\ jobs' = Tail(jobs)
    /\ m_inActivePipeline' = m_inActivePipeline \ {Head(jobs).i.timeout}
    /\ m_activePipeline' = m_activePipeline - 1
    /\ m_active' = FALSE
    /\ owed' = owed - 1
    /\ UNCHANGED <<m_timedwait, m_minSendSeqNo, m_maxInOrderRecvSeqNo,
                   m_outOfOrderRecvSeqNo, pending, reexpressed, restarts,
                   noActivity, delivered, finished, lost, stray, fillVars>>

\* OnTimeout_Execute after a period without activity: the Interest is given
\* up, and with the last one the fetch (m_onFetchFailed is called).
OnTimeoutGiveUp ==
    /\ Job("timeout")
    /\ noActivity
    /\ jobs' = Tail(jobs)
    /\ m_inActivePipeline' = m_inActivePipeline \ {Head(jobs).i.timeout}
    /\ m_activePipeline' = m_activePipeline - 1
    /\ m_active' = (m_active /\ m_activePipeline' # 0)
    /\ owed' = IF m_activePipeline' = 0 THEN owed - 1 ELSE owed
    /\ UNCHANGED <<m_timedwait, m_minSendSeqNo, m_maxInOrderRecvSeqNo,
                   m_outOfOrderRecvSeqNo, pending, reexpressed, restarts,
                   noActivity, delivered, finished, lost, stray, fillVars>>

\* OnTimeout_Execute otherwise: the same Interest again, with callbacks bound
\* to the next number.
OnTimeoutReexpress ==
    /\ Job("timeout")
    /\ ~noActivity
    /\ reexpressed < MaxReexpress
    /\ jobs' = Tail(jobs)
    /\ LET i == Head(jobs).i
       IN  pending' = pending (+) SetToBag({Interest(i.timeout + 1, i.timeout + 1, i.name)})
    /\ reexpressed' = reexpressed + 1
    /\ UNCHANGED <<m_active, m_timedwait, seqVars, restarts, noActivity,
                   delivered, finished, lost, owed, stray, fillVars>>

\* m_onFetchComplete: FetchManager::DidFetchComplete, which leaves the
\* fetcher alone until its timed-wait is over.
OnFetchComplete ==
    /\ Job("complete")
    /\ jobs' = Tail(jobs)
    /\ owed' = owed - 1
    /\ UNCHANGED <<m_active, m_timedwait, seqVars, pending, reexpressed,
                   restarts, noActivity, delivered, finished, lost, stray, fillVars>>

Execute ==
    \/ FillPipeline
    \/ OnDataExecute
    \/ FinishFetch
    \/ OnTimeoutGiveUp
    \/ OnTimeoutReexpress
    \/ OnFetchComplete

Next ==
    \/ RestartPipeline
    \/ \E i \in BagToSet(pending) : OnData(i) \/ OnTimeout(i)
    \/ PeriodPasses
    \/ Execute

Spec == Init /\ [][Next]_vars

\* The executor's thread runs what is queued, an outstanding Interest is
\* answered or times out, and time passes.
FairSpec ==
    /\ Spec
    /\ WF_vars(Execute)
    /\ WF_vars(\E i \in BagToSet(pending) : OnData(i) \/ OnTimeout(i))
    /\ WF_vars(PeriodPasses)

-----------------------------------------------------------------------------
\* The numbers of segments.  There is no last one: a re-expressed Interest counts
\* up, and so does a turn of the loop that RestartPipeline has torn.
Number == {n \in Nat : n >= m_minSeqNo}
Interests == [seqno : Number, timeout : Number, name : Number]

TypeOK ==
    /\ m_active \in BOOLEAN /\ m_timedwait \in BOOLEAN
    /\ m_minSendSeqNo \in Number \cup {m_minSeqNo - 1}
    /\ m_maxInOrderRecvSeqNo \in Number \cup {m_minSeqNo - 1}
    /\ m_outOfOrderRecvSeqNo \subseteq Number
    /\ m_inActivePipeline \subseteq Number
    /\ m_activePipeline \in 0..m_pipeline
    /\ IsABag(pending) /\ BagToSet(pending) \subseteq Interests
    /\ \A k \in DOMAIN jobs : jobs[k].do \in {"fill", "data", "timeout", "finish", "complete"}
    /\ reexpressed \in 0..MaxReexpress /\ restarts \in 0..MaxRestart
    /\ noActivity \in BOOLEAN /\ lost \in BOOLEAN /\ stray \in BOOLEAN
    /\ owed \in Int
    /\ delivered \subseteq Number
    /\ finished \in Nat
    /\ fill.pc \in {"test", "find", "insert", "express", "advance"}
    /\ fill.n \in Number \cup {m_minSeqNo - 1} /\ torn \in BOOLEAN
    /\ fill.pc # "test" => Job("fill")

\* The Interests of a bag, every copy by itself, and the positions of a queue that
\* hold an answer.
Copies(B) == UNION {{<<i, k>> : k \in 1..B[i]} : i \in BagToSet(B)}
Answers(q) == {k \in DOMAIN q : q[k].do \in {"data", "timeout"}}

\* m_activePipeline counts the Interests whose answer has not been processed:
\* the outstanding ones and those whose answer waits in the executor's queue.
\* It is unsigned and decremented in two handlers, so one decrement too many
\* would close the pipeline for good.
PipelineAccounting ==
    m_activePipeline = Cardinality(Copies(pending)) + Cardinality(Answers(jobs))

\* m_maxInOrderRecvSeqNo never covers a number under which nothing was
\* delivered, whatever the order of the answers, and what is kept as received
\* out of order lies beyond the gap: RestartPipeline resumes from there, so a
\* number skipped here would never be requested again.
NothingSkipped ==
    /\ m_minSeqNo..m_maxInOrderRecvSeqNo \subseteq delivered
    /\ m_outOfOrderRecvSeqNo \subseteq delivered
    /\ \A n \in m_outOfOrderRecvSeqNo : n > m_maxInOrderRecvSeqNo + 1

\* The number that FillPipeline has taken and not yet requested.
Taken == IF fill.pc = "express" THEN {fill.n + 1} ELSE {}

\* As long as nothing has been re-expressed, m_inActivePipeline holds exactly
\* the numbers whose Interests are unanswered, each of them once: FillPipeline,
\* which runs as several queued jobs and again after a restart, never requests
\* a segment that is already on its way.  A turn of its loop that RestartPipeline
\* has torn may do that, or take a number that it does not request.
NoDoubleRequest ==
    reexpressed = 0 /\ ~torn =>
        /\ m_inActivePipeline =
               {i.seqno : i \in BagToSet(pending)}
                   \cup {jobs[k].i.seqno : k \in Answers(jobs)} \cup Taken
        /\ Cardinality(m_inActivePipeline) = m_activePipeline + Cardinality(Taken)

\* The pipeline is exact whatever FillPipeline, OnData, OnTimeout and restarts do:
\* the unsigned counter neither underflows nor leaks, even in a torn turn, and
\* no segment that is on its way is requested again.
PipelineExact == TypeOK /\ PipelineAccounting /\ NoDoubleRequest

\* The finish callback, which has the file assembled, is called once, although
\* ScheduleFetches may restart the fetcher while it finishes, unless stray
\* Interests were sent, or FillPipeline was torn.
FinishesOnce == ~stray /\ ~torn => finished <= 1

\* The end of a fetch can be relied on: it is announced once, and by a fetcher
\* that has counted nothing it was not given (OnData_Execute, RestartPipeline).
FinishSound == NothingSkipped /\ FinishesOnce

\* A fetch none of whose Interests is lost completes: a pipeline that has been
\* drained is filled again until the last segment has arrived.
CompletesWithoutLoss == (restarts > 0) ~> (finished > 0 \/ lost)

\* The fetcher as its manager sees it.
Queued(what) == Cardinality({k \in DOMAIN jobs : jobs[k].do = what})

Life ==
    INSTANCE FetcherLife WITH
        life <- [active |-> m_active,
                 timedwait |-> m_timedwait,
                 completing |-> Queued("finish") + Queued("complete"),
                 owed |-> owed,
                 stray |-> stray \/ torn,
                 stalled |-> /\ m_active
                             /\ pending = EmptyBag
                             /\ \A k \in DOMAIN jobs : jobs[k].do \in {"finish", "complete"}]

\* Seen from FetchManager the fetcher lives as FetcherLife says.  Every restart
\* is answered by one call of m_onFetchFailed or m_onFetchComplete, in spite of
\* jobs of an earlier attempt that still wait in the executor's queue; the
\* exceptions are the two that FetcherLife names, stray Interests and a stall.
ImplementsLife == Life!Spec

=============================================================================
