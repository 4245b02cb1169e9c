----------------------------- MODULE FetcherLife -----------------------------
(***************************************************************************)
(* What a Fetcher promises its FetchManager, without segments, pipelines   *)
(* and queues: the life of one fetcher between RestartPipeline and the     *)
(* callbacks m_onFetchFailed and m_onFetchComplete.  Fetcher implements    *)
(* this module, and FetchManager manages several lives.                    *)
(*                                                                         *)
(* A life is a record: the flags m_active and m_timedwait; completing, the *)
(* completed fetches that the manager has not been told of; owed, the      *)
(* restarts minus the ends that the manager has been told of, which is the *)
(* fetcher's share of m_currentParallelFetches; stray, whether Interests   *)
(* were sent that no attempt needs or RestartPipeline has torn a turn of   *)
(* the loop of FillPipeline; stalled, whether it is active with nothing    *)
(* outstanding or queued.                                                  *)
(***************************************************************************)
EXTENDS Integers

VARIABLE life

Lives == [active : BOOLEAN, timedwait : BOOLEAN, completing : Nat, owed : Int,
          stray : BOOLEAN, stalled : BOOLEAN]

New == [active |-> FALSE, timedwait |-> FALSE, completing |-> 0, owed |-> 0,
        stray |-> FALSE, stalled |-> FALSE]

\* ScheduleFetches restarts only what is neither active nor in timed-wait.
MayStart(l) == ~l.active /\ ~l.timedwait
Started(l) == [l EXCEPT !.active = TRUE, !.owed = @ + 1]

\* Answers can come in: Interests are out.  A fetcher that has completed has
\* nothing to request, even if it is restarted before it is in timed-wait.
MayEnd(l) ==
    \/ l.active /\ ~l.stalled /\ l.completing = 0 /\ ~l.timedwait
    \/ l.stray
Failed(l) == [l EXCEPT !.active = FALSE, !.owed = @ - 1]
Completed(l) == [l EXCEPT !.active = FALSE, !.completing = @ + 1]

\* After the finish callback the fetcher enters its timed-wait, and a job that
\* is queued behind tells the manager.
MayWait(l) == l.completing > 0
Waiting(l) == [l EXCEPT !.timedwait = TRUE]
MayNotify(l) == l.completing > 0 /\ l.timedwait
Notified(l) == [l EXCEPT !.completing = @ - 1, !.owed = @ - 1]

\* FillPipeline sends Interests after the fetcher gave up, or for segments that
\* it has counted, or finds m_minSendSeqNo changed in one turn of its loop.
Strayed(l) == [l EXCEPT !.stray = TRUE]

\* The last Interest is answered, others were given up, and none is requested.
MayStall(l) == l.active /\ ~l.stalled
Stalled(l) == [l EXCEPT !.stalled = TRUE]

Init == life = New
Start == MayStart(life) /\ life' = Started(life)
Fail == MayEnd(life) /\ life' = Failed(life)
Complete == MayEnd(life) /\ life' = Completed(life)
Wait == MayWait(life) /\ life' = Waiting(life)
Notify == MayNotify(life) /\ life' = Notified(life)
Stray == life' = Strayed(life)
Stall == MayStall(life) /\ life' = Stalled(life)
Next == Start \/ Fail \/ Complete \/ Wait \/ Notify \/ Stray \/ Stall

Spec == Init /\ [][Next]_life

=============================================================================
