------------------------- MODULE FetchManager_proofs -------------------------
(***************************************************************************)
(* The safety properties of FetchManager, for any names, any number of     *)
(* slots and fetchers, and any bound on the ends that no restart accounts  *)
(* for.                                                                    *)
(***************************************************************************)
EXTENDS FetchManager, FiniteSetTheorems, SequenceTheorems, TLAPS

\* The list is intrusive: a fetcher has one place in it.
Distinct ==
    \A j, k \in DOMAIN m_fetchList : m_fetchList[j] = m_fetchList[k] => j = k

\* A fetcher without stray Interests completes once at a time, so that the number
\* of completing fetchers is the number of completions.
CompletesOnce == \A f \in Created : ~Life(f).stray => Life(f).completing <= 1

\* What a TimedWait task will delete is done and told.
WaitsAreQuiet ==
    /\ \A w \in waits : w.f \in Created
    /\ NoStray => \A w \in waits : Life(w.f).timedwait /\ Life(w.f).completing = 0

IInv == TypeOK /\ Distinct /\ CompletesOnce /\ WaitsAreQuiet /\ SlotsExact /\ DeletedIsQuiet

-----------------------------------------------------------------------------
(* Lives.                                                                   *)

\* A new life, and what the steps of a life leave alone.
LEMMA LifeSteps ==
  /\ L!New \in L!Lives /\ ~L!New.active /\ ~L!New.stray /\ ~L!New.timedwait
  /\ L!New.completing = 0
  /\ \A l \in L!Lives :
        /\ L!Started(l) \in L!Lives /\ L!Started(l).active
        /\ L!Started(l).completing = l.completing /\ L!Started(l).stray = l.stray
        /\ L!Started(l).timedwait = l.timedwait
  /\ \A l \in L!Lives :
        /\ L!Failed(l) \in L!Lives /\ ~L!Failed(l).active
        /\ L!Failed(l).completing = l.completing /\ L!Failed(l).stray = l.stray
        /\ L!Failed(l).timedwait = l.timedwait
  /\ \A l \in L!Lives :
        /\ L!Completed(l) \in L!Lives /\ ~L!Completed(l).active
        /\ L!Completed(l).completing = l.completing + 1 /\ L!Completed(l).stray = l.stray
        /\ L!Completed(l).timedwait = l.timedwait
  /\ \A l \in L!Lives :
        /\ L!Waiting(l) \in L!Lives /\ L!Waiting(l).active = l.active
        /\ L!Waiting(l).completing = l.completing /\ L!Waiting(l).stray = l.stray
        /\ L!Waiting(l).timedwait
  /\ \A l \in L!Lives :
        l.completing > 0 =>
            /\ L!Notified(l) \in L!Lives /\ L!Notified(l).active = l.active
            /\ L!Notified(l).completing = l.completing - 1 /\ L!Notified(l).stray = l.stray
            /\ L!Notified(l).timedwait = l.timedwait
  /\ \A l \in L!Lives :
        /\ L!Stalled(l) \in L!Lives /\ L!Stalled(l).active = l.active
        /\ L!Stalled(l).completing = l.completing /\ L!Stalled(l).stray = l.stray
        /\ L!Stalled(l).timedwait = l.timedwait
  /\ \A l \in L!Lives : L!Strayed(l) \in L!Lives /\ L!Strayed(l).stray
  <1>1. /\ L!New \in L!Lives /\ ~L!New.active /\ ~L!New.stray /\ ~L!New.timedwait
        /\ L!New.completing = 0
    BY DEF L!New, L!Lives
  <1>2. ASSUME NEW l \in L!Lives
        PROVE  /\ L!Started(l) \in L!Lives /\ L!Started(l).active
               /\ L!Started(l).completing = l.completing /\ L!Started(l).stray = l.stray
               /\ L!Started(l).timedwait = l.timedwait
    <2> DEFINE m == [l EXCEPT !.active = TRUE]
    <2>1. /\ m \in L!Lives /\ m.owed = l.owed /\ m.timedwait = l.timedwait
          /\ m.stray = l.stray /\ m.completing = l.completing
          /\ m.active
      BY DEF L!Lives
    <2>2. L!Started(l) = [m EXCEPT !.owed = l.owed + 1]
      BY <2>1 DEF L!Started, L!Lives
    <2> HIDE DEF m
    <2> QED
      BY <2>1, <2>2 DEF L!Lives
  <1>3. ASSUME NEW l \in L!Lives
        PROVE  /\ L!Failed(l) \in L!Lives /\ ~L!Failed(l).active
               /\ L!Failed(l).completing = l.completing /\ L!Failed(l).stray = l.stray
               /\ L!Failed(l).timedwait = l.timedwait
    <2> DEFINE m == [l EXCEPT !.active = FALSE]
    <2>1. /\ m \in L!Lives /\ m.owed = l.owed /\ m.timedwait = l.timedwait
          /\ m.stray = l.stray /\ m.completing = l.completing
          /\ ~m.active
      BY DEF L!Lives
    <2>2. L!Failed(l) = [m EXCEPT !.owed = l.owed - 1]
      BY <2>1 DEF L!Failed, L!Lives
    <2> HIDE DEF m
    <2> QED
      BY <2>1, <2>2 DEF L!Lives
  <1>4. ASSUME NEW l \in L!Lives
        PROVE  /\ L!Completed(l) \in L!Lives /\ ~L!Completed(l).active
               /\ L!Completed(l).completing = l.completing + 1 /\ L!Completed(l).stray = l.stray
               /\ L!Completed(l).timedwait = l.timedwait
    <2> DEFINE m == [l EXCEPT !.active = FALSE]
    <2>1. /\ m \in L!Lives /\ m.owed = l.owed /\ m.timedwait = l.timedwait
          /\ m.stray = l.stray /\ m.completing = l.completing
          /\ ~m.active
      BY DEF L!Lives
    <2>2. L!Completed(l) = [m EXCEPT !.completing = l.completing + 1]
      BY <2>1 DEF L!Completed, L!Lives
    <2> HIDE DEF m
    <2> QED
      BY <2>1, <2>2 DEF L!Lives
  <1>5. ASSUME NEW l \in L!Lives
        PROVE  /\ L!Waiting(l) \in L!Lives /\ L!Waiting(l).active = l.active
               /\ L!Waiting(l).completing = l.completing /\ L!Waiting(l).stray = l.stray
               /\ L!Waiting(l).timedwait
    BY DEF L!Waiting, L!Lives
  <1>6. ASSUME NEW l \in L!Lives, l.completing > 0
        PROVE  /\ L!Notified(l) \in L!Lives /\ L!Notified(l).active = l.active
               /\ L!Notified(l).completing = l.completing - 1 /\ L!Notified(l).stray = l.stray
               /\ L!Notified(l).timedwait = l.timedwait
    <2> DEFINE m == [l EXCEPT !.completing = l.completing - 1]
    <2>1. /\ m \in L!Lives /\ m.owed = l.owed /\ m.timedwait = l.timedwait
          /\ m.stray = l.stray /\ m.completing = l.completing - 1
          /\ m.active = l.active
      BY <1>6 DEF L!Lives
    <2>2. L!Notified(l) = [m EXCEPT !.owed = l.owed - 1]
      BY <2>1 DEF L!Notified, L!Lives
    <2> HIDE DEF m
    <2> QED
      BY <2>1, <2>2 DEF L!Lives
  <1>7. ASSUME NEW l \in L!Lives
        PROVE  /\ L!Stalled(l) \in L!Lives /\ L!Stalled(l).active = l.active
               /\ L!Stalled(l).completing = l.completing /\ L!Stalled(l).stray = l.stray
               /\ L!Stalled(l).timedwait = l.timedwait
    BY DEF L!Stalled, L!Lives
  <1>8. ASSUME NEW l \in L!Lives PROVE L!Strayed(l) \in L!Lives /\ L!Strayed(l).stray
    BY DEF L!Strayed, L!Lives
  <1> QED
    BY <1>1, <1>2, <1>3, <1>4, <1>5, <1>6, <1>7, <1>8

-----------------------------------------------------------------------------
(* What a step does to the accounts when it changes no life, or one.        *)

\* The fetchers are numbered from one, and what is counted is finite.
LEMMA FetchersAreTyped ==
  ASSUME TypeOK
  PROVE  /\ Len(fetcher) \in Nat /\ Created = 1..Len(fetcher) /\ Created \subseteq Ids
         /\ \A f \in Created : fetcher[f] \in Fetchers /\ Life(f) \in L!Lives
         /\ \A f \in Created : Life(f).completing \in Nat
         /\ IsFiniteSet(Active) /\ IsFiniteSet(Completing)
         /\ Cardinality(Active) \in Nat /\ Cardinality(Completing) \in Nat
  <1> USE ManagerAssumption
  <1>1. /\ Len(fetcher) \in Nat /\ Created = 1..Len(fetcher)
        /\ \A f \in Created : fetcher[f] \in Fetchers
    BY LenProperties, ElementOfSeq DEF TypeOK, Created
  <1>2. Created \subseteq Ids
    BY <1>1 DEF TypeOK, Ids
  <1>3. \A f \in Created : Life(f) \in L!Lives
    BY <1>1 DEF Fetchers, Life
  <1>4. \A f \in Created : Life(f).completing \in Nat
    BY <1>3 DEF L!Lives
  <1>5. IsFiniteSet(Created)
    BY <1>1, FS_Interval
  <1>6. IsFiniteSet(Active) /\ IsFiniteSet(Completing)
    BY <1>5, FS_Subset DEF Active, Completing
  <1> QED
    BY <1>1, <1>2, <1>3, <1>4, <1>6, FS_CardinalityType

\* Lives that stay as they are keep their accounts.
LEMMA LivesStay ==
  ASSUME Created' = Created, \A f \in Created : Life(f)' = Life(f)
  PROVE  /\ NoStray' = NoStray /\ Active' = Active /\ Completing' = Completing
         /\ CompletesOnce => CompletesOnce'
  BY DEF NoStray, Active, Completing, CompletesOnce

\* The life of f becomes l.
Becomes(f, l) ==
    /\ f \in Created /\ l \in L!Lives
    /\ Created' = Created /\ Life(f)' = l
    /\ \A g \in Created \ {f} : Life(g)' = Life(g)

\* Then the counts change with the life.
LEMMA OneLife ==
  ASSUME TypeOK, NEW f, NEW l, Becomes(f, l)
  PROVE  /\ Life(f).active /\ ~l.active => Cardinality(Active') = Cardinality(Active) - 1
         /\ Life(f).active = l.active => Cardinality(Active') = Cardinality(Active)
         /\ Life(f).completing = 0 /\ l.completing > 0
                => Cardinality(Completing') = Cardinality(Completing) + 1
         /\ Life(f).completing > 0 /\ l.completing = 0
                => Cardinality(Completing') = Cardinality(Completing) - 1
         /\ Life(f).completing = l.completing
                => Cardinality(Completing') = Cardinality(Completing)
         /\ NoStray' /\ ~Life(f).stray => NoStray
         /\ NoStray' => ~l.stray
  <1>1. /\ f \in Created /\ IsFiniteSet(Active) /\ IsFiniteSet(Completing)
        /\ Life(f) \in L!Lives /\ l \in L!Lives
    BY FetchersAreTyped DEF Becomes
  <1>2. /\ Cardinality(Active \ {f}) = IF f \in Active THEN Cardinality(Active) - 1
                                                        ELSE Cardinality(Active)
        /\ Cardinality(Completing \ {f}) = IF f \in Completing THEN Cardinality(Completing) - 1
                                                                ELSE Cardinality(Completing)
        /\ Cardinality(Completing \cup {f}) = IF f \in Completing THEN Cardinality(Completing)
                                                                   ELSE Cardinality(Completing) + 1
    BY <1>1, FS_AddElement, FS_RemoveElement
  <1>3. Life(f).active /\ ~l.active => f \in Active /\ Active' = Active \ {f}
    BY DEF Becomes, Active
  <1>4. Life(f).active = l.active => Active' = Active
    BY DEF Becomes, Active
  <1>5. Life(f).completing = 0 /\ l.completing > 0
            => f \notin Completing /\ Completing' = Completing \cup {f}
    BY DEF Becomes, Completing
  <1>6. Life(f).completing > 0 /\ l.completing = 0
            => f \in Completing /\ Completing' = Completing \ {f}
    BY DEF Becomes, Completing
  <1>7. Life(f).completing = l.completing => Completing' = Completing
    BY DEF Becomes, Completing
  <1>8. NoStray' => ~l.stray /\ \A g \in Created \ {f} : ~Life(g).stray
    BY DEF NoStray, Becomes
  <1>9. NoStray' /\ ~Life(f).stray => NoStray
    BY <1>8 DEF NoStray
  <1> QED
    BY <1>2, <1>3, <1>4, <1>5, <1>6, <1>7, <1>8, <1>9

\* A step of one life keeps what is known of the others, if a fetcher that is done
\* and told stays so.
LEMMA OneLifeKeeps ==
  ASSUME IInv, NEW f, NEW l, Becomes(f, l),
         m_fetchList' = m_fetchList,
         \A w \in waits' : w \in waits \/ w.f = f,
         waits' # waits /\ ~l.stray => l.timedwait /\ l.completing = 0,
         ~l.stray => ~Life(f).stray /\ l.completing <= 1,
         ~l.stray /\ Life(f).timedwait => l.timedwait /\ l.completing <= Life(f).completing,
         ~l.stray /\ f \notin Listed /\ Life(f) = L!New => l.timedwait /\ l.completing = 0
  PROVE  CompletesOnce' /\ WaitsAreQuiet' /\ DeletedIsQuiet' /\ (NoStray' => NoStray)
  <1>1. /\ f \in Created /\ Life(f) \in L!Lives /\ l \in L!Lives
        /\ \A g \in Created : Life(g).completing \in Nat
    BY FetchersAreTyped DEF Becomes, IInv
  <1>2. l.completing \in Nat
    BY <1>1 DEF L!Lives
  <1>3. CompletesOnce'
    BY DEF IInv, CompletesOnce, Becomes
  <1>4. NoStray' => NoStray /\ ~l.stray
    BY OneLife DEF IInv
  <1>5. WaitsAreQuiet'
    <2>1. \A w \in waits' : w.f \in Created'
      BY DEF IInv, WaitsAreQuiet, Becomes
    <2>2. ASSUME NoStray', NEW w \in waits'
          PROVE  Life(w.f)'.timedwait /\ Life(w.f)'.completing = 0
      <3>1. w \in waits => w.f \in Created /\ Life(w.f).timedwait /\ Life(w.f).completing = 0
        BY <1>4, <2>2 DEF IInv, WaitsAreQuiet
      <3>2. CASE w.f = f
        <4>1. Life(w.f)' = l
          BY <3>2 DEF Becomes
        <4>2. w \in waits => l.timedwait /\ l.completing = 0
          BY <1>2, <1>4, <2>2, <3>1, <3>2
        <4>3. w \notin waits => l.timedwait /\ l.completing = 0
          BY <1>4, <2>2
        <4> QED
          BY <4>1, <4>2, <4>3
      <3>3. CASE w.f # f
        <4>1. w \in waits
          BY <2>2, <3>3
        <4>2. Life(w.f)' = Life(w.f)
          BY <3>1, <3>3, <4>1 DEF Becomes
        <4> QED
          BY <3>1, <4>1, <4>2
      <3> QED
        BY <3>2, <3>3
    <2> QED
      BY <2>1, <2>2 DEF WaitsAreQuiet
  <1>6. DeletedIsQuiet'
    <2>1. Listed' = Listed /\ Created' = Created
      BY DEF Listed, Becomes
    <2>2. ASSUME NoStray', NEW g \in Created \ Listed, Life(g)' # L!New
          PROVE  Life(g)'.timedwait /\ Life(g)'.completing = 0
      <3>1. Life(g) # L!New => Life(g).timedwait /\ Life(g).completing = 0
        BY <1>4, <2>2 DEF IInv, DeletedIsQuiet
      <3>2. CASE g = f
        <4>1. Life(g)' = l
          BY <3>2 DEF Becomes
        <4> QED
          BY <1>2, <1>4, <2>2, <3>1, <3>2, <4>1
      <3>3. CASE g # f
        <4>1. Life(g)' = Life(g)
          BY <3>3 DEF Becomes
        <4> QED
          BY <2>2, <3>1, <4>1
      <3> QED
        BY <3>2, <3>3
    <2>3. L!New' = L!New
      BY DEF L!New
    <2> QED
      BY <2>1, <2>2, <2>3 DEF DeletedIsQuiet
  <1> QED
    BY <1>3, <1>4, <1>5, <1>6

-----------------------------------------------------------------------------
(* The fetchers after a step.                                               *)

\* A fetcher is replaced by another record of its type.
LEMMA SetFetcher ==
  ASSUME TypeOK, NEW f \in Created, NEW r \in Fetchers, fetcher' = [fetcher EXCEPT ![f] = r]
  PROVE  /\ Becomes(f, r.life) /\ Created' = Created
         /\ fetcher' \in Seq(Fetchers) /\ Len(fetcher') = Len(fetcher)
  <1>1. /\ Len(fetcher) \in Nat /\ Created = 1..Len(fetcher)
        /\ \A g \in Created : fetcher[g] \in Fetchers
    BY FetchersAreTyped
  <1>2. fetcher \in Seq(Fetchers)
    BY DEF TypeOK
  <1>3. fetcher' \in Seq(Fetchers) /\ Len(fetcher') = Len(fetcher)
    BY <1>1, <1>2, ExceptSeq
  <1>4. Created' = Created
    BY <1>2, <1>3, LenProperties DEF Created
  <1>5. Life(f)' = r.life /\ \A g \in Created \ {f} : Life(g)' = Life(g)
    BY <1>1, <1>2 DEF Life, Created
  <1>6. r.life \in L!Lives
    BY DEF Fetchers
  <1> QED
    BY <1>3, <1>4, <1>5, <1>6 DEF Becomes

\* Only its life is replaced.
LEMMA SetLife ==
  ASSUME TypeOK, NEW f \in Created, NEW l \in L!Lives,
         fetcher' = [fetcher EXCEPT ![f].life = l]
  PROVE  /\ Becomes(f, l) /\ Created' = Created
         /\ fetcher' \in Seq(Fetchers) /\ Len(fetcher') = Len(fetcher)
         /\ \A g \in Created : fetcher'[g].name = fetcher[g].name
  <1> DEFINE r == [fetcher[f] EXCEPT !.life = l]
  <1>1. fetcher[f] \in Fetchers
    BY FetchersAreTyped
  <1>2. r \in Fetchers /\ r.life = l /\ r.name = fetcher[f].name
    BY <1>1 DEF Fetchers
  <1>3. fetcher' = [fetcher EXCEPT ![f] = r]
    OBVIOUS
  <1>4. fetcher \in Seq(Fetchers) /\ f \in DOMAIN fetcher
    BY DEF TypeOK, Created
  <1> HIDE DEF r
  <1>5. \A g \in Created : fetcher'[g].name = fetcher[g].name
    BY <1>2, <1>3, <1>4 DEF Created
  <1> QED
    BY <1>2, <1>3, <1>5, SetFetcher

\* One decrement of a count that is within the limit.
LEMMA DecrementedIsOneLess ==
  ASSUME NEW n \in 1..m_maxParallelFetches
  PROVE  Decremented(n) = n - 1
  <1>1. n - 1 \in 0..(UintSize - 1) /\ UintSize \in Nat /\ UintSize > 0
    BY ManagerAssumption
  <1> QED
    BY <1>1 DEF Decremented

\* Any decrement wraps around.
LEMMA DecrementedIsTyped ==
  ASSUME NEW n \in Int
  PROVE  Decremented(n) \in 0..(UintSize - 1)
  BY ManagerAssumption DEF Decremented

-----------------------------------------------------------------------------
(* The executor's thread.                                                   *)

\* A job leaves the list and what the type invariant says of the rest alone.
LEMMA TypeStays ==
  ASSUME TypeOK, fetcher' \in Seq(Fetchers), Len(fetcher') = Len(fetcher), Created' = Created,
         m_currentParallelFetches' \in 0..(UintSize - 1),
         running' \in [in : {"idle", "timeout", "finish"}, f : {0} \cup Ids],
         UNCHANGED <<m_fetchList, up>>,
         waits' \subseteq [name : Names, f : Ids, ran : BOOLEAN],
         due' \in BOOLEAN,
         task' \subseteq [name : Names, f : Ids]
  PROVE  TypeOK'
  BY DEF TypeOK, Listed

\* A give-up takes its fetcher out of the active ones, and its slot is free.
LEMMA NoDataTimeoutPreserves ==
  ASSUME IInv, NEW f \in Created, DidNoDataTimeout(f)
  PROVE  IInv'
  <1> DEFINE l == L!Failed(Life(f))
  <1>1. TypeOK /\ Life(f) \in L!Lives /\ f \in Ids
    BY FetchersAreTyped DEF IInv
  <1>2. /\ l \in L!Lives /\ ~l.active /\ l.completing = Life(f).completing
        /\ l.stray = Life(f).stray /\ l.timedwait = Life(f).timedwait
    BY <1>1, LifeSteps
  <1>3. fetcher' = [fetcher EXCEPT ![f].life = l] /\ f \in Listed /\ L!MayEnd(Life(f))
    BY DEF DidNoDataTimeout, Job
  <1> HIDE DEF l
  <1>4. /\ Becomes(f, l) /\ Created' = Created
        /\ fetcher' \in Seq(Fetchers) /\ Len(fetcher') = Len(fetcher)
    BY <1>1, <1>2, <1>3, SetLife
  <1>5. m_currentParallelFetches' = Decremented(m_currentParallelFetches)
    BY DEF DidNoDataTimeout
  <1>6. TypeOK'
    <2>1. m_currentParallelFetches' \in 0..(UintSize - 1)
      BY <1>1, <1>5, DecrementedIsTyped, ManagerAssumption DEF TypeOK
    <2>2. running' \in [in : {"idle", "timeout", "finish"}, f : {0} \cup Ids]
      BY <1>1 DEF DidNoDataTimeout
    <2> QED
      BY <1>1, <1>4, <2>1, <2>2, TypeStays DEF DidNoDataTimeout, TypeOK
  <1>7. Distinct'
    BY DEF IInv, Distinct, DidNoDataTimeout
  <1>8. CompletesOnce' /\ WaitsAreQuiet' /\ DeletedIsQuiet' /\ (NoStray' => NoStray)
    <2>1. ~l.stray => ~Life(f).stray /\ l.completing <= 1
      BY <1>2 DEF IInv, CompletesOnce
    <2>2. m_fetchList' = m_fetchList /\ waits' = waits
      BY DEF DidNoDataTimeout
    <2>3. l.completing \in Nat
      BY <1>2 DEF L!Lives
    <2> QED
      BY <1>2, <1>3, <1>4, <2>1, <2>2, <2>3, OneLifeKeeps
  <1>9. SlotsExact'
    <2> SUFFICES ASSUME NoStray'
                 PROVE  /\ m_currentParallelFetches' =
                              Cardinality(Active') + Cardinality(Completing')
                        /\ m_currentParallelFetches' <= m_maxParallelFetches
      BY DEF SlotsExact
    <2>1. /\ m_currentParallelFetches = Cardinality(Active) + Cardinality(Completing)
          /\ m_currentParallelFetches <= m_maxParallelFetches
          /\ ~Life(f).stray
      BY <1>8 DEF IInv, SlotsExact, NoStray
    <2>2. Life(f).active
      BY <1>3, <2>1 DEF L!MayEnd
    <2>3. /\ Cardinality(Active') = Cardinality(Active) - 1
          /\ Cardinality(Completing') = Cardinality(Completing)
      BY <1>1, <1>2, <1>4, <2>2, OneLife
    <2>4. /\ Cardinality(Active) \in Nat /\ Cardinality(Completing) \in Nat
          /\ Cardinality(Active) # 0
      <3>1. f \in Active
        BY <2>2 DEF Active
      <3> QED
        BY <1>1, <3>1, FetchersAreTyped, FS_EmptySet
    <2>5. m_currentParallelFetches \in 1..m_maxParallelFetches
      BY <2>1, <2>3, <2>4, ManagerAssumption
    <2>6. m_currentParallelFetches' = m_currentParallelFetches - 1
      BY <1>5, <2>5, DecrementedIsOneLess
    <2> QED
      BY <2>1, <2>3, <2>4, <2>5, <2>6, ManagerAssumption
  <1> QED
    BY <1>6, <1>7, <1>8, <1>9 DEF IInv

\* The end of a fetch takes its fetcher from the active to the completing ones.
LEMMA FinishesPreserves ==
  ASSUME IInv, NEW f \in Created, FetchFinishes(f)
  PROVE  IInv'
  <1> DEFINE l == L!Completed(Life(f))
  <1>1. /\ TypeOK /\ Life(f) \in L!Lives /\ f \in Ids
        /\ Life(f).completing \in Nat
    BY FetchersAreTyped DEF IInv
  <1>2. /\ l \in L!Lives /\ ~l.active /\ l.completing = Life(f).completing + 1
        /\ l.stray = Life(f).stray /\ l.timedwait = Life(f).timedwait
    BY <1>1, LifeSteps
  <1>3. fetcher' = [fetcher EXCEPT ![f].life = l] /\ f \in Listed /\ L!MayEnd(Life(f))
    BY DEF FetchFinishes, Job
  <1> HIDE DEF l
  <1>4. /\ Becomes(f, l) /\ Created' = Created
        /\ fetcher' \in Seq(Fetchers) /\ Len(fetcher') = Len(fetcher)
    BY <1>1, <1>2, <1>3, SetLife
  <1>5. ~l.stray => /\ ~Life(f).stray /\ Life(f).active /\ Life(f).completing = 0
                    /\ ~Life(f).timedwait
    BY <1>2, <1>3 DEF L!MayEnd
  <1>6. TypeOK'
    <2>1. running' \in [in : {"idle", "timeout", "finish"}, f : {0} \cup Ids]
      BY <1>1 DEF FetchFinishes
    <2> QED
      BY <1>1, <1>4, <2>1, TypeStays DEF FetchFinishes, TypeOK
  <1>7. Distinct'
    BY DEF IInv, Distinct, FetchFinishes
  <1>8. CompletesOnce' /\ WaitsAreQuiet' /\ DeletedIsQuiet' /\ (NoStray' => NoStray)
    <2>1. ~l.stray => ~Life(f).stray /\ l.completing <= 1
      BY <1>1, <1>2, <1>5
    <2>2. ~l.stray /\ Life(f).timedwait => l.timedwait /\ l.completing <= Life(f).completing
      BY <1>5
    <2>3. m_fetchList' = m_fetchList /\ waits' = waits
      BY DEF FetchFinishes
    <2> QED
      BY <1>3, <1>4, <2>1, <2>2, <2>3, OneLifeKeeps
  <1>9. SlotsExact'
    <2> SUFFICES ASSUME NoStray'
                 PROVE  /\ m_currentParallelFetches' =
                              Cardinality(Active') + Cardinality(Completing')
                        /\ m_currentParallelFetches' <= m_maxParallelFetches
      BY DEF SlotsExact
    <2>1. /\ m_currentParallelFetches = Cardinality(Active) + Cardinality(Completing)
          /\ m_currentParallelFetches <= m_maxParallelFetches
      BY <1>8 DEF IInv, SlotsExact
    <2>2. ~l.stray
      BY <1>1, <1>4, OneLife
    <2>3. /\ Cardinality(Active') = Cardinality(Active) - 1
          /\ Cardinality(Completing') = Cardinality(Completing) + 1
      BY <1>1, <1>2, <1>4, <1>5, <2>2, OneLife
    <2>4. Cardinality(Active) \in Nat /\ Cardinality(Completing) \in Nat
      BY <1>1, FetchersAreTyped
    <2>5. m_currentParallelFetches' = m_currentParallelFetches
      BY DEF FetchFinishes
    <2> QED
      BY <2>1, <2>3, <2>4, <2>5
  <1> QED
    BY <1>6, <1>7, <1>8, <1>9 DEF IInv

\* What a step that neither starts nor ends anything does to a life.
SameCounts(f, l) ==
    /\ l.active = Life(f).active /\ l.completing = Life(f).completing
    /\ l.stray = Life(f).stray
    /\ Life(f).timedwait => l.timedwait

\* Such a step keeps the accounts.
LEMMA SameCountsKeep ==
  ASSUME IInv, NEW f, NEW l, Becomes(f, l), SameCounts(f, l),
         UNCHANGED <<m_fetchList, waits, m_currentParallelFetches>>,
         f \in Listed \/ l.timedwait
  PROVE  /\ Distinct' /\ CompletesOnce' /\ WaitsAreQuiet' /\ SlotsExact' /\ DeletedIsQuiet'
  <1>1. /\ f \in Created /\ Life(f).completing \in Nat /\ l \in L!Lives
        /\ TypeOK
    BY FetchersAreTyped DEF IInv, Becomes
  <1>2. CompletesOnce' /\ WaitsAreQuiet' /\ DeletedIsQuiet' /\ (NoStray' => NoStray)
    <2>1. ~l.stray => ~Life(f).stray /\ l.completing <= 1
      BY <1>1 DEF IInv, CompletesOnce, SameCounts
    <2>2. Life(f) = L!New => l.completing = 0
      BY DEF SameCounts, L!New
    <2>3. Life(f).timedwait => l.timedwait /\ l.completing <= Life(f).completing
      BY <1>1 DEF SameCounts
    <2> QED
      BY <2>1, <2>2, <2>3, OneLifeKeeps
  <1>3. SlotsExact'
    <2>1. /\ Cardinality(Active') = Cardinality(Active)
          /\ Cardinality(Completing') = Cardinality(Completing)
      BY <1>1, OneLife DEF SameCounts
    <2> QED
      BY <1>2, <2>1 DEF IInv, SlotsExact
  <1>4. Distinct'
    BY DEF IInv, Distinct
  <1> QED
    BY <1>2, <1>3, <1>4

\* The timed-wait begins.
LEMMA WaitsPreserves ==
  ASSUME IInv, NEW f \in Created, FetchWaits(f)
  PROVE  IInv'
  <1> DEFINE l == L!Waiting(Life(f))
  <1>1. TypeOK /\ Life(f) \in L!Lives
    BY FetchersAreTyped DEF IInv
  <1>2. l \in L!Lives /\ l.timedwait /\ SameCounts(f, l)
    BY <1>1, LifeSteps DEF SameCounts
  <1>3. fetcher' = [fetcher EXCEPT ![f].life = l]
    BY <1>1 DEF FetchWaits, Life
  <1> HIDE DEF l
  <1>4. /\ Becomes(f, l) /\ Created' = Created
        /\ fetcher' \in Seq(Fetchers) /\ Len(fetcher') = Len(fetcher)
    BY <1>1, <1>2, <1>3, SetLife
  <1>5. TypeOK'
    <2>1. running' \in [in : {"idle", "timeout", "finish"}, f : {0} \cup Ids]
      BY DEF FetchWaits, Idle
    <2> QED
      BY <1>1, <1>4, <2>1, TypeStays DEF FetchWaits, TypeOK
  <1>6. UNCHANGED <<m_fetchList, waits, m_currentParallelFetches>>
    BY DEF FetchWaits
  <1> QED
    BY <1>2, <1>4, <1>5, <1>6, SameCountsKeep DEF IInv

\* A stall.
LEMMA StallPreserves ==
  ASSUME IInv, NEW f \in Created, FetchStalls(f)
  PROVE  IInv'
  <1> DEFINE l == L!Stalled(Life(f))
  <1>1. TypeOK /\ Life(f) \in L!Lives
    BY FetchersAreTyped DEF IInv
  <1>2. l \in L!Lives /\ SameCounts(f, l)
    BY <1>1, LifeSteps DEF SameCounts
  <1>3. fetcher' = [fetcher EXCEPT ![f].life = l] /\ f \in Listed
    BY DEF FetchStalls, Job
  <1> HIDE DEF l
  <1>4. /\ Becomes(f, l) /\ Created' = Created
        /\ fetcher' \in Seq(Fetchers) /\ Len(fetcher') = Len(fetcher)
    BY <1>1, <1>2, <1>3, SetLife
  <1>5. TypeOK'
    BY <1>1, <1>4, TypeStays DEF FetchStalls, TypeOK
  <1>6. UNCHANGED <<m_fetchList, waits, m_currentParallelFetches>>
    BY DEF FetchStalls
  <1> QED
    BY <1>2, <1>3, <1>4, <1>5, <1>6, SameCountsKeep DEF IInv

\* The manager is told: the completion is counted no more, and what is registered
\* to delete the fetcher finds it done.
LEMMA CompletePreserves ==
  ASSUME IInv, NEW f \in Created, DidFetchComplete(f)
  PROVE  IInv'
  <1> DEFINE l == L!Notified(Life(f))
             name == fetcher[f].name
             taken == \E w \in waits : w.name = name
             r == [[fetcher[f] EXCEPT !.life = l] EXCEPT !.refused = (fetcher[f].refused \/ taken)]
  <1>1. /\ TypeOK /\ Life(f) \in L!Lives /\ f \in Ids /\ fetcher[f] \in Fetchers
        /\ Life(f).completing \in Nat
    BY FetchersAreTyped DEF IInv
  <1>2. Life(f).completing > 0 /\ Life(f).timedwait
    BY DEF DidFetchComplete, L!MayNotify
  <1>3. /\ l \in L!Lives /\ l.active = Life(f).active
        /\ l.completing = Life(f).completing - 1
        /\ l.stray = Life(f).stray /\ l.timedwait = Life(f).timedwait
    BY <1>1, <1>2, LifeSteps
  <1>4. r \in Fetchers /\ r.life = l
    <2> DEFINE q == [fetcher[f] EXCEPT !.life = l]
    <2> HIDE DEF l
    <2>1. q \in Fetchers /\ q.life = l
      BY <1>1, <1>3 DEF Fetchers
    <2> HIDE DEF q, taken
    <2>2. r = [q EXCEPT !.refused = (fetcher[f].refused \/ taken)]
      BY DEF q
    <2>3. (fetcher[f].refused \/ taken) \in BOOLEAN
      OBVIOUS
    <2> HIDE DEF r
    <2> QED
      BY <2>1, <2>2, <2>3 DEF Fetchers
  <1>5. fetcher' = [fetcher EXCEPT ![f] = r]
    <2>1. fetcher \in Seq(Fetchers) /\ f \in DOMAIN fetcher
      BY <1>1 DEF TypeOK, Created
    <2>2. fetcher' = [fetcher EXCEPT ![f].life = L!Notified(@), ![f].refused = (@ \/ taken)]
      BY DEF DidFetchComplete
    <2> QED
      BY <2>1, <2>2 DEF Life
  <1>6. /\ f \in Listed /\ m_fetchList' = m_fetchList
        /\ m_currentParallelFetches' = Decremented(m_currentParallelFetches)
        /\ UNCHANGED <<running, up>>
    BY DEF DidFetchComplete
  <1>7. /\ waits' = IF taken THEN waits ELSE waits \cup {[name |-> name, f |-> f, ran |-> FALSE]}
        /\ task' = DeleteTask(task, name)
        /\ due' = TRUE
    BY DEF DidFetchComplete
  <1>8. name \in Names
    BY <1>1 DEF Fetchers
  <1> HIDE DEF l, name, taken, r
  <1>9. /\ Becomes(f, l) /\ Created' = Created
        /\ fetcher' \in Seq(Fetchers) /\ Len(fetcher') = Len(fetcher)
    BY <1>1, <1>4, <1>5, SetFetcher
  <1>10. TypeOK'
    <2>1. m_currentParallelFetches' \in 0..(UintSize - 1)
      BY <1>1, <1>6, DecrementedIsTyped, ManagerAssumption DEF TypeOK
    <2>2. waits' \subseteq [name : Names, f : Ids, ran : BOOLEAN]
      <3> DEFINE w == [name |-> name, f |-> f, ran |-> FALSE]
      <3>1. w \in [name : Names, f : Ids, ran : BOOLEAN]
        BY <1>1, <1>8
      <3>2. waits' \subseteq waits \cup {w}
        BY <1>7
      <3> HIDE DEF w
      <3> QED
        BY <1>1, <3>1, <3>2 DEF TypeOK
    <2>3. task' \subseteq [name : Names, f : Ids]
      BY <1>1, <1>7 DEF TypeOK, DeleteTask
    <2>4. running' \in [in : {"idle", "timeout", "finish"}, f : {0} \cup Ids]
      BY <1>1, <1>6 DEF TypeOK
    <2>5. due' \in BOOLEAN
      BY <1>7
    <2> QED
      BY <1>1, <1>6, <1>9, <2>1, <2>2, <2>3, <2>4, <2>5, TypeStays
  <1>11. Distinct'
    BY <1>6 DEF IInv, Distinct
  <1>12. ~l.stray => Life(f).completing = 1 /\ l.completing = 0
    BY <1>1, <1>2, <1>3 DEF IInv, CompletesOnce
  <1>13. CompletesOnce' /\ WaitsAreQuiet' /\ DeletedIsQuiet' /\ (NoStray' => NoStray)
    <2>1. \A w \in waits' : w \in waits \/ w.f = f
      BY <1>7
    <2>2. ~l.stray => ~Life(f).stray /\ l.completing <= 1
      BY <1>3, <1>12
    <2>3. ~l.stray => l.timedwait /\ l.completing = 0 /\ l.completing <= Life(f).completing
      BY <1>2, <1>3, <1>12
    <2> QED
      BY <1>6, <1>9, <2>1, <2>2, <2>3, OneLifeKeeps
  <1>14. SlotsExact'
    <2> SUFFICES ASSUME NoStray'
                 PROVE  /\ m_currentParallelFetches' =
                              Cardinality(Active') + Cardinality(Completing')
                        /\ m_currentParallelFetches' <= m_maxParallelFetches
      BY DEF SlotsExact
    <2>1. /\ m_currentParallelFetches = Cardinality(Active) + Cardinality(Completing)
          /\ m_currentParallelFetches <= m_maxParallelFetches
      BY <1>13 DEF IInv, SlotsExact
    <2>2. ~l.stray
      BY <1>1, <1>9, OneLife
    <2>3. /\ Cardinality(Active') = Cardinality(Active)
          /\ Cardinality(Completing') = Cardinality(Completing) - 1
      BY <1>1, <1>2, <1>3, <1>9, <1>12, <2>2, OneLife
    <2>4. /\ Cardinality(Active) \in Nat /\ Cardinality(Completing) \in Nat
          /\ Cardinality(Completing) # 0
      <3>1. f \in Completing
        BY <1>2 DEF Completing
      <3> QED
        BY <1>1, <3>1, FetchersAreTyped, FS_EmptySet
    <2>5. m_currentParallelFetches \in 1..m_maxParallelFetches
      BY <2>1, <2>4, ManagerAssumption
    <2>6. m_currentParallelFetches' = m_currentParallelFetches - 1
      BY <1>6, <2>5, DecrementedIsOneLess
    <2> QED
      BY <2>1, <2>3, <2>4, <2>5, <2>6, ManagerAssumption
  <1> QED
    BY <1>10, <1>11, <1>13, <1>14 DEF IInv

\* With a stray end nothing is claimed of the counts any more.
LEMMA StraysKeep ==
  ASSUME IInv, NEW f, NEW l, Becomes(f, l), l.stray, UNCHANGED <<m_fetchList, waits>>
  PROVE  Distinct' /\ CompletesOnce' /\ WaitsAreQuiet' /\ SlotsExact' /\ DeletedIsQuiet'
  <1>1. ~NoStray'
    BY OneLife DEF IInv
  <1>2. CompletesOnce' /\ WaitsAreQuiet' /\ DeletedIsQuiet'
    BY OneLifeKeeps
  <1> QED
    BY <1>1, <1>2 DEF IInv, Distinct, SlotsExact

\* A stray give-up.
LEMMA StrayTimeoutPreserves ==
  ASSUME IInv, NEW f \in Created, StrayNoDataTimeout(f)
  PROVE  IInv'
  <1> DEFINE l == L!Failed(L!Strayed(Life(f)))
  <1>1. TypeOK /\ Life(f) \in L!Lives /\ f \in Ids
    BY FetchersAreTyped DEF IInv
  <1>2. l \in L!Lives /\ l.stray
    BY <1>1, LifeSteps
  <1>3. fetcher' = [fetcher EXCEPT ![f].life = l]
    BY DEF StrayNoDataTimeout, Job
  <1> HIDE DEF l
  <1>4. /\ Becomes(f, l) /\ Created' = Created
        /\ fetcher' \in Seq(Fetchers) /\ Len(fetcher') = Len(fetcher)
    BY <1>1, <1>2, <1>3, SetLife
  <1>5. TypeOK'
    <2>1. m_currentParallelFetches' \in 0..(UintSize - 1)
      BY <1>1, DecrementedIsTyped, ManagerAssumption DEF TypeOK, StrayNoDataTimeout
    <2>2. running' \in [in : {"idle", "timeout", "finish"}, f : {0} \cup Ids]
      BY <1>1 DEF StrayNoDataTimeout
    <2> QED
      BY <1>1, <1>4, <2>1, <2>2, TypeStays DEF StrayNoDataTimeout, TypeOK
  <1>6. UNCHANGED <<m_fetchList, waits>>
    BY DEF StrayNoDataTimeout
  <1> QED
    BY <1>2, <1>4, <1>5, <1>6, StraysKeep DEF IInv

\* A stray end.
LEMMA StrayFinishesPreserves ==
  ASSUME IInv, NEW f \in Created, StrayFinishes(f)
  PROVE  IInv'
  <1> DEFINE l == L!Completed(L!Strayed(Life(f)))
  <1>1. TypeOK /\ Life(f) \in L!Lives /\ f \in Ids
    BY FetchersAreTyped DEF IInv
  <1>2. l \in L!Lives /\ l.stray
    BY <1>1, LifeSteps
  <1>3. fetcher' = [fetcher EXCEPT ![f].life = l]
    BY DEF StrayFinishes, Job
  <1> HIDE DEF l
  <1>4. /\ Becomes(f, l) /\ Created' = Created
        /\ fetcher' \in Seq(Fetchers) /\ Len(fetcher') = Len(fetcher)
    BY <1>1, <1>2, <1>3, SetLife
  <1>5. TypeOK'
    <2>1. running' \in [in : {"idle", "timeout", "finish"}, f : {0} \cup Ids]
      BY <1>1 DEF StrayFinishes
    <2> QED
      BY <1>1, <1>4, <2>1, TypeStays DEF StrayFinishes, TypeOK
  <1>6. UNCHANGED <<m_fetchList, waits>>
    BY DEF StrayFinishes
  <1> QED
    BY <1>2, <1>4, <1>5, <1>6, StraysKeep DEF IInv

-----------------------------------------------------------------------------
(* Steps that change no life.                                               *)

\* They keep the accounts, if only fetchers that are done leave the list.
LEMMA LivesStayKeep ==
  ASSUME IInv, Created' = Created, \A f \in Created : Life(f)' = Life(f),
         m_currentParallelFetches' = m_currentParallelFetches,
         \A v \in waits' : \E w \in waits : v.f = w.f,
         \A f \in Listed \ Listed' : \E w \in waits : w.f = f
  PROVE  CompletesOnce' /\ WaitsAreQuiet' /\ SlotsExact' /\ DeletedIsQuiet'
  <1>1. NoStray' = NoStray /\ Active' = Active /\ Completing' = Completing /\ CompletesOnce'
    BY LivesStay DEF IInv
  <1>2. WaitsAreQuiet'
    BY <1>1 DEF IInv, WaitsAreQuiet
  <1>3. SlotsExact'
    BY <1>1 DEF IInv, SlotsExact
  <1>4. DeletedIsQuiet'
    <2>1. ASSUME NoStray', NEW f \in Created \ Listed', Life(f) # L!New
          PROVE  Life(f).timedwait /\ Life(f).completing = 0
      <3>1. CASE f \in Listed
        BY <1>1, <2>1, <3>1 DEF IInv, WaitsAreQuiet
      <3>2. CASE f \notin Listed
        BY <1>1, <2>1, <3>2 DEF IInv, DeletedIsQuiet
      <3> QED
        BY <3>1, <3>2
    <2>2. L!New' = L!New
      BY DEF L!New
    <2> QED
      BY <2>1, <2>2 DEF DeletedIsQuiet
  <1> QED
    BY <1>1, <1>2, <1>3, <1>4

\* The steps of a retry.
LEMMA NextHintIsTyped ==
  ASSUME NEW f, fetcher[f] \in Fetchers
  PROVE  NextHint(f) \in Hints /\ NextPause(f) \in 0..MaxPause
  <1> USE ManagerAssumption
  <1>1. fetcher[f].name \in Names /\ fetcher[f].pause \in 0..MaxPause
    BY DEF Fetchers
  <1>2. LookupLocator(fetcher[f].name) \in {"none", "located"}
    BY <1>1 DEF LookupLocator
  <1>3. NextHint(f) \in Hints
    BY <1>2 DEF NextHint, Hints
  <1>4. NextPause(f) \in 0..MaxPause
    BY <1>1 DEF NextPause
  <1> QED
    BY <1>3, <1>4

\* A fetcher whose record changes and whose life does not.
LEMMA SetDetails ==
  ASSUME TypeOK, NEW f \in Created, NEW r \in Fetchers, r.life = Life(f),
         fetcher' = [fetcher EXCEPT ![f] = r]
  PROVE  /\ Created' = Created /\ \A g \in Created : Life(g)' = Life(g)
         /\ fetcher' \in Seq(Fetchers) /\ Len(fetcher') = Len(fetcher)
  <1>1. /\ Becomes(f, r.life) /\ Created' = Created
        /\ fetcher' \in Seq(Fetchers) /\ Len(fetcher') = Len(fetcher)
    BY SetFetcher
  <1> QED
    BY <1>1 DEF Becomes

\* The second half of DidNoDataTimeout.
LEMMA RetryPreserves ==
  ASSUME IInv, NEW f \in Created, NoDataTimeoutRetry(f)
  PROVE  IInv'
  <1> DEFINE r1 == [fetcher[f] EXCEPT !.hint = NextHint(f)]
             r2 == [r1 EXCEPT !.pause = NextPause(f)]
             r == [r2 EXCEPT !.delayed = TRUE]
  <1>1. TypeOK /\ fetcher[f] \in Fetchers /\ fetcher \in Seq(Fetchers) /\ f \in DOMAIN fetcher
    BY FetchersAreTyped DEF IInv, TypeOK, Created
  <1>2. NextHint(f) \in Hints /\ NextPause(f) \in 0..MaxPause
    BY <1>1, NextHintIsTyped
  <1>3. fetcher' = [fetcher EXCEPT ![f] = r]
    BY <1>1 DEF NoDataTimeoutRetry
  <1>4. r1 \in Fetchers /\ r1.life = Life(f)
    BY <1>1, <1>2 DEF Fetchers, Life
  <1> HIDE DEF r1
  <1>5. r2 \in Fetchers /\ r2.life = Life(f)
    BY <1>2, <1>4 DEF Fetchers
  <1> HIDE DEF r2
  <1>6. r \in Fetchers /\ r.life = Life(f)
    BY <1>5 DEF Fetchers
  <1> HIDE DEF r
  <1>7. /\ Created' = Created /\ \A g \in Created : Life(g)' = Life(g)
        /\ fetcher' \in Seq(Fetchers) /\ Len(fetcher') = Len(fetcher)
    BY <1>1, <1>3, <1>6, SetDetails
  <1>8. TypeOK'
    <2>1. running' \in [in : {"idle", "timeout", "finish"}, f : {0} \cup Ids]
      BY DEF NoDataTimeoutRetry, Idle
    <2> QED
      BY <1>1, <1>7, <2>1, TypeStays DEF NoDataTimeoutRetry, TypeOK
  <1>9. Distinct' /\ Listed' = Listed
    BY DEF IInv, Distinct, Listed, NoDataTimeoutRetry
  <1>10. m_currentParallelFetches' = m_currentParallelFetches /\ waits' = waits
    BY DEF NoDataTimeoutRetry
  <1> QED
    BY <1>7, <1>8, <1>9, <1>10, LivesStayKeep DEF IInv

\* The end of a pause.
LEMMA RetryDuePreserves ==
  ASSUME IInv, NEW f \in Created, RetryDue(f)
  PROVE  IInv'
  <1> DEFINE r == [fetcher[f] EXCEPT !.delayed = FALSE]
  <1>1. TypeOK /\ fetcher[f] \in Fetchers /\ fetcher \in Seq(Fetchers) /\ f \in DOMAIN fetcher
    BY FetchersAreTyped DEF IInv, TypeOK, Created
  <1>2. r \in Fetchers /\ r.life = Life(f)
    BY <1>1 DEF Fetchers, Life
  <1>3. fetcher' = [fetcher EXCEPT ![f] = r]
    BY <1>1 DEF RetryDue
  <1> HIDE DEF r
  <1>4. /\ Created' = Created /\ \A g \in Created : Life(g)' = Life(g)
        /\ fetcher' \in Seq(Fetchers) /\ Len(fetcher') = Len(fetcher)
    BY <1>1, <1>2, <1>3, SetDetails
  <1>5. TypeOK'
    BY <1>1, <1>4, TypeStays DEF RetryDue, TypeOK
  <1>6. Distinct' /\ Listed' = Listed
    BY DEF IInv, Distinct, Listed, RetryDue
  <1>7. m_currentParallelFetches' = m_currentParallelFetches /\ waits' = waits
    BY DEF RetryDue
  <1> QED
    BY <1>4, <1>5, <1>6, <1>7, LivesStayKeep DEF IInv

\* A node that is unlinked leaves the others in their order.
LEMMA ErasedList ==
  ASSUME TypeOK, Distinct, NEW f \in Listed
  PROVE  /\ Erased(f) \in Seq(Ids)
         /\ {Erased(f)[k] : k \in DOMAIN Erased(f)} = Listed \ {f}
         /\ \A j, k \in DOMAIN Erased(f) : Erased(f)[j] = Erased(f)[k] => j = k
  <1> DEFINE n == Len(m_fetchList)
             p == Place(f)
             at(k) == IF k < p THEN k ELSE k + 1
             e == [k \in 1..(n - 1) |-> m_fetchList[at(k)]]
  <1>1. /\ n \in Nat /\ DOMAIN m_fetchList = 1..n /\ m_fetchList \in Seq(Ids)
        /\ \A k \in 1..n : m_fetchList[k] \in Ids
    BY LenProperties, ElementOfSeq DEF TypeOK
  <1>2. p \in 1..n /\ m_fetchList[p] = f
    BY <1>1 DEF Place, Listed
  <1>3. Erased(f) = e
    BY DEF Erased
  <1> HIDE DEF n, p
  <1>4. \A k \in 1..(n - 1) : at(k) \in 1..n /\ at(k) # p
    BY <1>1, <1>2
  <1>5. \A j, k \in 1..(n - 1) : at(j) = at(k) => j = k
    BY <1>1, <1>2
  <1>6. \A m \in 1..n : m # p => \E k \in 1..(n - 1) : at(k) = m
    <2> SUFFICES ASSUME NEW m \in 1..n, m # p PROVE \E k \in 1..(n - 1) : at(k) = m
      OBVIOUS
    <2>1. CASE m < p
      <3>1. m \in 1..(n - 1) /\ at(m) = m
        BY <1>1, <1>2, <2>1
      <3> QED
        BY <3>1
    <2>2. CASE m > p
      <3>1. m - 1 \in 1..(n - 1) /\ at(m - 1) = m
        BY <1>1, <1>2, <2>2
      <3> QED
        BY <3>1
    <2> QED
      BY <1>1, <1>2, <2>1, <2>2
  <1> HIDE DEF at
  <1>7. e \in [1..(n - 1) -> Ids] /\ DOMAIN e = 1..(n - 1)
    BY <1>1, <1>4
  <1>8. e \in Seq(Ids)
    <2>1. n - 1 \in Nat
      BY <1>1, <1>2
    <2> QED
      BY <1>7, <2>1
  <1>9. \A j, k \in 1..(n - 1) : e[j] = e[k] => j = k
    <2> SUFFICES ASSUME NEW j \in 1..(n - 1), NEW k \in 1..(n - 1), e[j] = e[k] PROVE j = k
      OBVIOUS
    <2>1. m_fetchList[at(j)] = m_fetchList[at(k)]
      OBVIOUS
    <2>2. at(j) = at(k)
      BY <1>1, <1>4, <2>1 DEF Distinct
    <2> QED
      BY <1>5, <2>2
  <1>10. {e[k] : k \in DOMAIN e} = Listed \ {f}
    <2>1. ASSUME NEW k \in 1..(n - 1) PROVE e[k] \in Listed \ {f}
      <3>1. e[k] = m_fetchList[at(k)] /\ at(k) \in 1..n /\ at(k) # p
        BY <1>4
      <3>2. e[k] # f
        BY <1>1, <1>2, <3>1 DEF Distinct
      <3> QED
        BY <1>1, <3>1, <3>2 DEF Listed
    <2>2. ASSUME NEW g \in Listed, g # f PROVE \E k \in 1..(n - 1) : e[k] = g
      <3>1. PICK m \in 1..n : m_fetchList[m] = g
        BY <1>1 DEF Listed
      <3>2. m # p
        BY <1>2, <2>2, <3>1
      <3>3. PICK k \in 1..(n - 1) : at(k) = m
        BY <1>6, <3>2
      <3> QED
        BY <3>1, <3>3
    <2> QED
      BY <1>7, <2>1, <2>2
  <1> HIDE DEF e
  <1> QED
    BY <1>3, <1>7, <1>8, <1>9, <1>10

\* The list with a node of f in front or at the end.
Linked(f, high) == IF high THEN <<f>> \o m_fetchList ELSE Append(m_fetchList, f)

\* A node that is linked at either end leaves the others in their order.
LEMMA LinkedList ==
  ASSUME TypeOK, Distinct, NEW f \in Ids \ Listed, NEW high \in BOOLEAN
  PROVE  /\ Linked(f, high) \in Seq(Ids)
         /\ {Linked(f, high)[k] : k \in DOMAIN Linked(f, high)} = Listed \cup {f}
         /\ \A j, k \in DOMAIN Linked(f, high) :
               Linked(f, high)[j] = Linked(f, high)[k] => j = k
  <1> DEFINE q == Linked(f, high)
             n == Len(m_fetchList)
             at(k) == IF high THEN k + 1 ELSE k
             p == IF high THEN 1 ELSE n + 1
  <1>1. /\ n \in Nat /\ DOMAIN m_fetchList = 1..n /\ m_fetchList \in Seq(Ids)
        /\ \A k \in 1..n : m_fetchList[k] \in Ids
    BY LenProperties, ElementOfSeq DEF TypeOK
  <1>2. /\ q \in Seq(Ids) /\ Len(q) = n + 1 /\ DOMAIN q = 1..(n + 1)
        /\ q[p] = f /\ \A k \in 1..n : q[at(k)] = m_fetchList[k]
    <2>1. CASE high
      <3>1. <<f>> \in Seq(Ids) /\ Len(<<f>>) = 1 /\ <<f>>[1] = f
        OBVIOUS
      <3>4. q = <<f>> \o m_fetchList
        BY <2>1 DEF Linked
      <3> HIDE DEF q
      <3>2. /\ q \in Seq(Ids) /\ Len(q) = n + 1
            /\ \A k \in 1..(n + 1) : q[k] = IF k <= 1 THEN <<f>>[k] ELSE m_fetchList[k - 1]
        BY <1>1, <3>1, <3>4, ConcatProperties
      <3>3. DOMAIN q = 1..(n + 1)
        BY <3>2, LenProperties
      <3> QED
        BY <1>1, <2>1, <3>1, <3>2, <3>3
    <2>2. CASE ~high
      <3>1. q = Append(m_fetchList, f)
        BY <2>2 DEF Linked
      <3> HIDE DEF q
      <3> QED
        BY <1>1, <2>2, <3>1, AppendProperties
    <2> QED
      BY <2>1, <2>2
  <1>3. /\ p \in 1..(n + 1)
        /\ \A k \in 1..n : at(k) \in 1..(n + 1) /\ at(k) # p
        /\ \A m \in 1..(n + 1) : m # p => \E k \in 1..n : at(k) = m
    <2>1. CASE high
      <3>1. \A m \in 1..(n + 1) : m # 1 => m - 1 \in 1..n /\ m = (m - 1) + 1
        BY <1>1
      <3> QED
        BY <1>1, <2>1, <3>1
    <2>2. CASE ~high
      BY <1>1, <2>2
    <2> QED
      BY <2>1, <2>2
  <1> HIDE DEF at, p, n, q
  <1>4. {q[k] : k \in DOMAIN q} = Listed \cup {f}
    <2>1. ASSUME NEW m \in 1..(n + 1) PROVE q[m] \in Listed \cup {f}
      <3>1. CASE m = p
        BY <1>2, <3>1
      <3>2. CASE m # p
        <4>1. PICK k \in 1..n : at(k) = m
          BY <1>3, <3>2
        <4> QED
          BY <1>1, <1>2, <4>1 DEF Listed
      <3> QED
        BY <3>1, <3>2
    <2>2. ASSUME NEW g \in Listed PROVE \E m \in 1..(n + 1) : q[m] = g
      <3>1. PICK k \in 1..n : m_fetchList[k] = g
        BY <1>1 DEF Listed
      <3> QED
        BY <1>2, <1>3, <3>1
    <2>3. \E m \in 1..(n + 1) : q[m] = f
      BY <1>2, <1>3
    <2>4. {q[k] : k \in DOMAIN q} = {q[k] : k \in 1..(n + 1)}
      BY <1>2
    <2> QED
      BY <2>1, <2>2, <2>3, <2>4
  <1>5. ASSUME NEW j \in 1..(n + 1), NEW k \in 1..(n + 1), q[j] = q[k] PROVE j = k
    <2>1. ASSUME NEW m \in 1..(n + 1), q[m] = f PROVE m = p
      <3> SUFFICES ASSUME m # p PROVE FALSE
        OBVIOUS
      <3>1. PICK i \in 1..n : at(i) = m
        BY <1>3
      <3> QED
        BY <1>1, <1>2, <2>1, <3>1 DEF Listed
    <2>2. CASE j = p \/ k = p
      BY <1>2, <1>5, <2>1, <2>2
    <2>3. CASE j # p /\ k # p
      <3>1. PICK a \in 1..n : at(a) = j
        BY <1>3, <2>3
      <3>2. PICK b \in 1..n : at(b) = k
        BY <1>3, <2>3
      <3>3. m_fetchList[a] = m_fetchList[b]
        BY <1>2, <1>5, <3>1, <3>2
      <3>4. a = b
        BY <1>1, <3>3 DEF Distinct
      <3> QED
        BY <3>1, <3>2, <3>4
    <2> QED
      BY <2>2, <2>3
  <1>6. q = Linked(f, high)
    BY DEF q
  <1> QED
    BY <1>2, <1>4, <1>5, <1>6

\* The second half of Enqueue.
LEMMA EnqueuePreserves ==
  ASSUME IInv, NEW f \in Created, NEW high \in BOOLEAN, Enqueue(f, high)
  PROVE  IInv'
  <1>1. TypeOK /\ Distinct /\ f \in Ids \ Listed
    BY FetchersAreTyped DEF IInv, Enqueue
  <1>2. m_fetchList' = Linked(f, high)
    BY DEF Enqueue, Linked
  <1>3. /\ m_fetchList' \in Seq(Ids) /\ Listed' = Listed \cup {f}
        /\ \A j, k \in DOMAIN m_fetchList' : m_fetchList'[j] = m_fetchList'[k] => j = k
    <2>1. /\ Linked(f, high) \in Seq(Ids)
          /\ {Linked(f, high)[k] : k \in DOMAIN Linked(f, high)} = Listed \cup {f}
          /\ \A j, k \in DOMAIN Linked(f, high) :
                Linked(f, high)[j] = Linked(f, high)[k] => j = k
      BY <1>1, LinkedList
    <2>2. Listed' = {m_fetchList'[k] : k \in DOMAIN m_fetchList'}
      BY DEF Listed
    <2> QED
      BY <1>2, <2>1, <2>2
  <1>4. Created' = Created /\ \A g \in Created : Life(g)' = Life(g)
    BY DEF Enqueue, Created, Life
  <1>5. TypeOK'
    <2>1. Listed' \subseteq Created'
      BY <1>1, <1>3, <1>4 DEF TypeOK
    <2>2. /\ fetcher' \in Seq(Fetchers) /\ Len(fetcher') <= MaxEnqueue
          /\ m_currentParallelFetches' \in 0..(UintSize - 1)
          /\ running' \in [in : {"idle", "timeout", "finish"}, f : {0} \cup Ids]
          /\ waits' \subseteq [name : Names, f : Ids, ran : BOOLEAN]
          /\ task' \subseteq [name : Names, f : Ids]
      BY <1>1 DEF Enqueue, TypeOK
    <2>3. due' \in BOOLEAN /\ up' \in BOOLEAN
      BY <1>1 DEF Enqueue, TypeOK
    <2> QED
      BY <1>3, <2>1, <2>2, <2>3 DEF TypeOK
  <1>6. Distinct'
    BY <1>3 DEF Distinct
  <1>7. /\ m_currentParallelFetches' = m_currentParallelFetches /\ waits' = waits
        /\ Listed \ Listed' = {}
    BY <1>3 DEF Enqueue
  <1> QED
    BY <1>4, <1>5, <1>6, <1>7, LivesStayKeep DEF IInv

\* The deletion of a fetcher, which is done and told.
LEMMA TimedWaitPreserves ==
  ASSUME IInv, NEW w \in waits, TimedWait(w)
  PROVE  IInv'
  <1> DEFINE f == w.f
             r0 == NewFetcher(fetcher[f].name)
             r == [r0 EXCEPT !.life = fetcher[f].life]
             v == [w EXCEPT !.ran = TRUE]
  <1>1. /\ TypeOK /\ Distinct /\ f \in Created /\ f \in Ids
        /\ fetcher[f] \in Fetchers /\ Life(f) \in L!Lives
    BY FetchersAreTyped DEF IInv, WaitsAreQuiet
  <1>2. w \in [name : Names, f : Ids, ran : BOOLEAN]
    BY <1>1 DEF TypeOK
  <1>3. v \in [name : Names, f : Ids, ran : BOOLEAN] /\ v.f = f
    BY <1>2
  <1>4. r0 \in Fetchers
    <2>1. fetcher[f].name \in Names
      BY <1>1 DEF Fetchers
    <2>2. LookupLocator(fetcher[f].name) \in Hints
      BY <2>1, ManagerAssumption DEF LookupLocator, Hints
    <2>3. L!New \in L!Lives /\ 0 \in 0..MaxPause /\ FALSE \in BOOLEAN
      BY LifeSteps, ManagerAssumption
    <2> QED
      BY <2>1, <2>2, <2>3 DEF NewFetcher, Fetchers
  <1>5. fetcher' = [fetcher EXCEPT ![f] = r]
    BY <1>1 DEF TimedWait, TypeOK, Created
  <1> HIDE DEF r0
  <1>6. r \in Fetchers /\ r.life = Life(f)
    BY <1>1, <1>4 DEF Fetchers, Life
  <1> HIDE DEF r
  <1>7. /\ Created' = Created /\ \A g \in Created : Life(g)' = Life(g)
        /\ fetcher' \in Seq(Fetchers) /\ Len(fetcher') = Len(fetcher)
    BY <1>1, <1>5, <1>6, SetDetails
  <1>8. waits' = (waits \ {w}) \cup {v}
    BY DEF TimedWait
  <1>9. m_fetchList' = IF f \in Listed THEN Erased(f) ELSE m_fetchList
    BY DEF TimedWait
  <1> HIDE DEF v, f
  <1>10. /\ m_fetchList' \in Seq(Ids) /\ Listed' = Listed \ {f} /\ Distinct'
    <2>1. CASE f \in Listed
      <3>1. /\ Erased(f) \in Seq(Ids)
            /\ {Erased(f)[k] : k \in DOMAIN Erased(f)} = Listed \ {f}
            /\ \A j, k \in DOMAIN Erased(f) : Erased(f)[j] = Erased(f)[k] => j = k
        BY <1>1, <2>1, ErasedList
      <3>2. m_fetchList' = Erased(f)
        BY <1>9, <2>1
      <3> QED
        BY <3>1, <3>2 DEF Listed, Distinct
    <2>2. CASE f \notin Listed
      <3>1. m_fetchList' = m_fetchList /\ Listed \ {f} = Listed
        BY <1>9, <2>2
      <3> QED
        BY <1>1, <3>1 DEF Listed, Distinct, TypeOK
    <2> QED
      BY <2>1, <2>2
  <1>11. TypeOK'
    <2>1. Listed' \subseteq Created'
      BY <1>1, <1>7, <1>10 DEF TypeOK
    <2>2. Len(fetcher') <= MaxEnqueue
      BY <1>1, <1>7 DEF TypeOK
    <2>3. waits' \subseteq [name : Names, f : Ids, ran : BOOLEAN]
      BY <1>1, <1>3, <1>8 DEF TypeOK
    <2>4. /\ m_currentParallelFetches' \in 0..(UintSize - 1)
          /\ running' \in [in : {"idle", "timeout", "finish"}, f : {0} \cup Ids]
          /\ task' \subseteq [name : Names, f : Ids]
      BY <1>1 DEF TimedWait, TypeOK
    <2>5. due' \in BOOLEAN /\ up' \in BOOLEAN
      BY <1>1 DEF TimedWait, TypeOK
    <2> QED
      BY <1>7, <1>10, <2>1, <2>2, <2>3, <2>4, <2>5 DEF TypeOK
  <1>12. m_currentParallelFetches' = m_currentParallelFetches
    BY DEF TimedWait
  <1>13. \A u \in waits' : \E x \in waits : u.f = x.f
    BY <1>3, <1>8 DEF f
  <1>14. \A g \in Listed \ Listed' : \E x \in waits : x.f = g
    BY <1>10 DEF f
  <1> QED
    BY <1>7, <1>10, <1>11, <1>12, <1>13, <1>14, LivesStayKeep DEF IInv

\* The end of a one-time task.
LEMMA TimedWaitReturnPreserves ==
  ASSUME IInv, NEW w \in waits, TimedWaitReturn(w)
  PROVE  IInv'
  <1>1. Created' = Created /\ \A g \in Created : Life(g)' = Life(g)
    BY DEF TimedWaitReturn, Created, Life
  <1>2. TypeOK'
    <2>1. /\ fetcher' \in Seq(Fetchers) /\ Len(fetcher') = Len(fetcher)
          /\ m_currentParallelFetches' \in 0..(UintSize - 1)
          /\ running' \in [in : {"idle", "timeout", "finish"}, f : {0} \cup Ids]
          /\ waits' \subseteq [name : Names, f : Ids, ran : BOOLEAN]
          /\ task' \subseteq [name : Names, f : Ids]
          /\ UNCHANGED <<m_fetchList, up>>
      BY DEF IInv, TypeOK, TimedWaitReturn
    <2>2. due' \in BOOLEAN
      BY DEF IInv, TypeOK, TimedWaitReturn
    <2> QED
      BY <1>1, <2>1, <2>2, TypeStays DEF IInv
  <1>3. /\ Distinct' /\ Listed' = Listed /\ waits' \subseteq waits
        /\ m_currentParallelFetches' = m_currentParallelFetches
    BY DEF IInv, Distinct, Listed, TimedWaitReturn
  <1> QED
    BY <1>1, <1>2, <1>3, LivesStayKeep DEF IInv

-----------------------------------------------------------------------------
(* ScheduleFetches.                                                         *)

\* Of the fetchers in the list that are given one is the last: among what follows
\* each of them, one part is contained in all the others.
LEMMA LastInList ==
  ASSUME TypeOK, NEW S, S \subseteq Listed, S # {}
  PROVE  \E f \in S : \A g \in S : Place(g) <= Place(f)
  <1> DEFINE From(f) == {g \in S : Place(f) <= Place(g)}
             F == {From(f) : f \in S}
             R == StrictSubsetOrdering(S)
  <1>1. IsFiniteSet(S)
    <2>1. IsFiniteSet(Created) /\ S \subseteq Created
      BY FetchersAreTyped, FS_Interval DEF TypeOK
    <2> QED
      BY <2>1, FS_Subset
  <1>2. \A f \in S : Place(f) \in Nat
    <2>1. DOMAIN m_fetchList \subseteq Nat
      BY LenProperties DEF TypeOK
    <2> QED
      BY <2>1 DEF Place, Listed
  <1>3. F \subseteq FiniteSubsetsOf(S)
    BY <1>1, FS_Subset DEF FiniteSubsetsOf
  <1>4. IsWellFoundedOn(R, FiniteSubsetsOf(S))
    BY FS_StrictSubsetOrderingWellFounded
  <1>5. F # {}
    OBVIOUS
  <1>6. PICK B \in F : \A C \in F : <<C, B>> \notin R
    <2> HIDE DEF F, R
    <2> QED
      BY <1>3, <1>4, <1>5, WFMin
  <1>7. PICK f \in S : B = From(f)
    OBVIOUS
  <1>8. ASSUME NEW g \in S, Place(f) < Place(g) PROVE FALSE
    <2>1. Place(f) \in Nat /\ Place(g) \in Nat
      BY <1>2
    <2>2. From(g) \subseteq From(f) /\ f \in From(f) /\ f \notin From(g)
      BY <1>2, <1>8, <2>1
    <2>3. <<From(g), From(f)>> \in R
      BY <2>2 DEF StrictSubsetOrdering
    <2> QED
      BY <1>6, <1>7, <2>3
  <1> QED
    BY <1>2, <1>8

\* The loop stops when every slot is taken: all that it starts but the last one are
\* counted before the last one.
LEMMA StartedFit ==
  ASSUME TypeOK
  PROVE  /\ StartedBy \subseteq Listed /\ IsFiniteSet(StartedBy)
         /\ Cardinality(StartedBy) \in Nat
         /\ \/ Cardinality(StartedBy) = 0
            \/ m_currentParallelFetches + Cardinality(StartedBy) <= m_maxParallelFetches
  <1>1. IsFiniteSet(Listed) /\ StartedBy \subseteq Listed
    <2>1. IsFiniteSet(Created)
      BY FetchersAreTyped, FS_Interval
    <2> QED
      BY <2>1, FS_Subset DEF TypeOK, StartedBy
  <1>2. IsFiniteSet(StartedBy) /\ Cardinality(StartedBy) \in Nat
    BY <1>1, FS_Subset, FS_CardinalityType
  <1>3. CASE StartedBy = {}
    BY <1>1, <1>2, <1>3, FS_EmptySet
  <1>4. CASE StartedBy # {}
    <2>1. PICK f \in StartedBy : \A g \in StartedBy : Place(g) <= Place(f)
      BY <1>1, <1>4, LastInList
    <2>2. m_currentParallelFetches + Cardinality(Before(f)) < m_maxParallelFetches
      BY DEF StartedBy
    <2>3. StartedBy \ {f} \subseteq Before(f)
      <3> SUFFICES ASSUME NEW g \in StartedBy, g # f PROVE g \in Before(f)
        OBVIOUS
      <3>1. g \in Listed /\ f \in Listed /\ Startable(g)
        BY DEF StartedBy
      <3>2. m_fetchList[Place(g)] = g /\ m_fetchList[Place(f)] = f
        BY <3>1 DEF Listed, Place
      <3>3. Place(g) \in Nat /\ Place(f) \in Nat
        <4>1. DOMAIN m_fetchList \subseteq Nat
          BY LenProperties DEF TypeOK
        <4> QED
          BY <3>1, <4>1 DEF Listed, Place
      <3>4. Place(g) < Place(f)
        BY <2>1, <3>2, <3>3
      <3> QED
        BY <3>1, <3>4 DEF Before
    <2>4. IsFiniteSet(Before(f)) /\ Cardinality(Before(f)) \in Nat
      BY <1>1, FS_Subset, FS_CardinalityType DEF Before
    <2>5. Cardinality(StartedBy) - 1 <= Cardinality(Before(f))
      <3>1. Cardinality(StartedBy \ {f}) = Cardinality(StartedBy) - 1
        BY <1>2, FS_RemoveElement
      <3>2. Cardinality(StartedBy \ {f}) <= Cardinality(Before(f))
        BY <2>3, <2>4, FS_Subset
      <3> QED
        BY <3>1, <3>2
    <2>6. m_currentParallelFetches \in Int /\ m_maxParallelFetches \in Int
      BY ManagerAssumption DEF TypeOK
    <2> QED
      BY <1>1, <1>2, <2>2, <2>4, <2>5, <2>6
  <1> QED
    BY <1>3, <1>4

\* What the loop starts becomes active and takes a slot.
LEMMA SchedulePreserves ==
  ASSUME IInv, ScheduleFetches
  PROVE  IInv'
  <1>1. /\ TypeOK /\ Len(fetcher) \in Nat /\ Created = 1..Len(fetcher)
        /\ \A f \in Created : fetcher[f] \in Fetchers /\ Life(f) \in L!Lives
        /\ IsFiniteSet(Active) /\ Cardinality(Active) \in Nat /\ Cardinality(Completing) \in Nat
    BY FetchersAreTyped DEF IInv
  <1>2. /\ StartedBy \subseteq Listed /\ StartedBy \subseteq Created /\ IsFiniteSet(StartedBy)
        /\ Cardinality(StartedBy) \in Nat
        /\ \/ Cardinality(StartedBy) = 0
           \/ m_currentParallelFetches + Cardinality(StartedBy) <= m_maxParallelFetches
    BY <1>1, StartedFit DEF TypeOK
  <1>3. \A f \in StartedBy : ~Life(f).active /\ ~Life(f).timedwait
    BY DEF StartedBy, Startable, L!MayStart
  <1> DEFINE Restarted(f) == [fetcher[f] EXCEPT !.life = L!Started(Life(f))]
  <1>4. \A f \in Created : Restarted(f) \in Fetchers /\ Restarted(f).life = L!Started(Life(f))
    <2> SUFFICES ASSUME NEW f \in Created
                 PROVE  Restarted(f) \in Fetchers /\ Restarted(f).life = L!Started(Life(f))
      OBVIOUS
    <2>1. L!Started(Life(f)) \in L!Lives
      BY <1>1, LifeSteps
    <2> QED
      BY <1>1, <2>1 DEF Fetchers
  <1>5. fetcher' = [f \in Created |-> IF f \in StartedBy THEN Restarted(f) ELSE fetcher[f]]
    BY DEF ScheduleFetches, Life
  <1> HIDE DEF Restarted
  <1>6. /\ Created' = Created /\ fetcher' \in Seq(Fetchers) /\ Len(fetcher') = Len(fetcher)
    <2>1. fetcher' \in [1..Len(fetcher) -> Fetchers]
      BY <1>1, <1>4, <1>5
    <2> QED
      BY <1>1, <2>1 DEF Created
  <1>7. \A f \in Created : Life(f)' = IF f \in StartedBy THEN L!Started(Life(f)) ELSE Life(f)
    BY <1>4, <1>5 DEF Life
  <1>8. \A f \in Created :
            /\ Life(f)'.active = (Life(f).active \/ f \in StartedBy)
            /\ Life(f)'.completing = Life(f).completing /\ Life(f)'.stray = Life(f).stray
            /\ Life(f)'.timedwait = Life(f).timedwait
    <2> SUFFICES ASSUME NEW f \in Created
                 PROVE  /\ Life(f)'.active = (Life(f).active \/ f \in StartedBy)
                        /\ Life(f)'.completing = Life(f).completing
                        /\ Life(f)'.stray = Life(f).stray
                        /\ Life(f)'.timedwait = Life(f).timedwait
      OBVIOUS
    <2>1. CASE f \in StartedBy
      <3>1. /\ L!Started(Life(f)).active
            /\ L!Started(Life(f)).completing = Life(f).completing
            /\ L!Started(Life(f)).stray = Life(f).stray
            /\ L!Started(Life(f)).timedwait = Life(f).timedwait
            /\ L!Started(Life(f)) \in L!Lives
        BY <1>1, LifeSteps
      <3>2. L!Started(Life(f)).active = TRUE
        BY <3>1 DEF L!Lives
      <3>3. Life(f)' = L!Started(Life(f))
        BY <1>7, <2>1
      <3> HIDE DEF Life
      <3> QED
        BY <2>1, <3>1, <3>2, <3>3
    <2>2. CASE f \notin StartedBy
      <3>1. Life(f).active \in BOOLEAN
        BY <1>1 DEF L!Lives
      <3> QED
        BY <1>7, <2>2, <3>1
    <2> QED
      BY <2>1, <2>2
  <1>9. m_currentParallelFetches' = m_currentParallelFetches + Cardinality(StartedBy)
    BY DEF ScheduleFetches
  <1>10. TypeOK'
    <2>1. m_currentParallelFetches' \in 0..(UintSize - 1)
      BY <1>1, <1>2, <1>9, ManagerAssumption DEF TypeOK
    <2>2. /\ running' \in [in : {"idle", "timeout", "finish"}, f : {0} \cup Ids]
          /\ waits' \subseteq [name : Names, f : Ids, ran : BOOLEAN]
          /\ task' \subseteq [name : Names, f : Ids]
          /\ UNCHANGED <<m_fetchList, up>>
      BY <1>1 DEF ScheduleFetches, TypeOK
    <2>3. due' \in BOOLEAN
      BY DEF ScheduleFetches
    <2> QED
      BY <1>1, <1>6, <2>1, <2>2, <2>3, TypeStays
  <1>11. Distinct' /\ Listed' = Listed /\ waits' = waits
    BY DEF IInv, Distinct, Listed, ScheduleFetches
  <1>12. NoStray' = NoStray /\ Completing' = Completing /\ Active' = Active \cup StartedBy
    BY <1>2, <1>6, <1>8 DEF NoStray, Completing, Active
  <1>13. CompletesOnce'
    BY <1>6, <1>8 DEF IInv, CompletesOnce
  <1>14. WaitsAreQuiet'
    BY <1>6, <1>8, <1>11, <1>12 DEF IInv, WaitsAreQuiet
  <1>15. DeletedIsQuiet'
    <2>1. L!New' = L!New
      BY DEF L!New
    <2>2. \A f \in Created \ Listed : Life(f)' = Life(f)
      BY <1>2, <1>7
    <2> QED
      BY <1>6, <1>11, <1>12, <2>1, <2>2 DEF IInv, DeletedIsQuiet
  <1>16. SlotsExact'
    <2>1. StartedBy \cap Active = {}
      BY <1>3 DEF Active
    <2>2. Cardinality(Active \cup StartedBy) = Cardinality(Active) + Cardinality(StartedBy)
      <3>1. Cardinality(Active \cup StartedBy) =
               Cardinality(Active) + Cardinality(StartedBy) - Cardinality(Active \cap StartedBy)
        BY <1>1, <1>2, FS_Union
      <3>2. Cardinality(Active \cap StartedBy) = 0
        BY <2>1, FS_EmptySet
      <3> QED
        BY <1>1, <1>2, <3>1, <3>2
    <2> QED
      BY <1>1, <1>2, <1>9, <1>12, <2>2, ManagerAssumption DEF IInv, SlotsExact
  <1> QED
    BY <1>10, <1>11, <1>13, <1>14, <1>15, <1>16 DEF IInv

-----------------------------------------------------------------------------
(* New fetchers, and the process.                                           *)

\* What AddTask gives.
LEMMA AddTaskIsTyped ==
  ASSUME NEW rows, rows \subseteq [name : Names, f : Ids], NEW name \in Names, NEW f \in Ids
  PROVE  /\ AddTask(rows, name, f) \subseteq [name : Names, f : Ids]
         /\ rows \subseteq AddTask(rows, name, f)
         /\ \E r \in AddTask(rows, name, f) : r.name = name
  <1>1. [name |-> name, f |-> f] \in [name : Names, f : Ids] /\ [name |-> name, f |-> f].name = name
    OBVIOUS
  <1> QED
    BY <1>1 DEF AddTask

\* A new fetcher has the next number.
LEMMA EnqueueRecordIsTyped ==
  ASSUME TypeOK, NEW name \in Names, EnqueueRecord(name)
  PROVE  /\ TypeOK'
         /\ Created' = Created \cup {Len(fetcher) + 1} /\ Len(fetcher) + 1 \notin Created
         /\ \A f \in Created : fetcher'[f] = fetcher[f]
         /\ fetcher'[Len(fetcher) + 1] = NewFetcher(name)
         /\ task' = AddTask(task, name, Len(fetcher) + 1)
         /\ Len(fetcher) + 1 \in Ids
  <1> DEFINE n == Len(fetcher) + 1
             r == NewFetcher(name)
  <1>1. Len(fetcher) \in Nat /\ Created = 1..Len(fetcher) /\ fetcher \in Seq(Fetchers)
    BY FetchersAreTyped DEF TypeOK
  <1>2. r \in Fetchers
    <2>1. LookupLocator(name) \in Hints
      BY ManagerAssumption DEF LookupLocator, Hints
    <2>2. L!New \in L!Lives /\ 0 \in 0..MaxPause /\ FALSE \in BOOLEAN
      BY LifeSteps, ManagerAssumption
    <2> QED
      BY <2>1, <2>2 DEF NewFetcher, Fetchers
  <1>3. fetcher' = Append(fetcher, r) /\ Len(fetcher) < MaxEnqueue /\ task' = AddTask(task, name, n)
    BY DEF EnqueueRecord
  <1> HIDE DEF r
  <1>4. /\ fetcher' \in Seq(Fetchers) /\ Len(fetcher') = n /\ fetcher'[n] = r
        /\ \A f \in 1..Len(fetcher) : fetcher'[f] = fetcher[f]
    BY <1>1, <1>2, <1>3, AppendProperties
  <1>5. Created' = 1..n
    BY <1>4, LenProperties DEF Created
  <1>6. n \in Ids /\ n <= MaxEnqueue
    BY <1>1, <1>3, ManagerAssumption DEF Ids
  <1>7. TypeOK'
    <2>1. Listed' \subseteq Created'
      BY <1>1, <1>5 DEF EnqueueRecord, TypeOK, Listed
    <2>2. task' \subseteq [name : Names, f : Ids]
      BY <1>3, <1>6, AddTaskIsTyped DEF TypeOK
    <2>3. /\ m_fetchList' \in Seq(Ids)
          /\ m_currentParallelFetches' \in 0..(UintSize - 1)
          /\ running' \in [in : {"idle", "timeout", "finish"}, f : {0} \cup Ids]
          /\ waits' \subseteq [name : Names, f : Ids, ran : BOOLEAN]
      BY DEF EnqueueRecord, TypeOK
    <2>4. due' \in BOOLEAN /\ up' \in BOOLEAN
      BY DEF EnqueueRecord, TypeOK
    <2> QED
      BY <1>4, <1>6, <2>1, <2>2, <2>3, <2>4 DEF TypeOK
  <1> QED
    BY <1>1, <1>3, <1>4, <1>5, <1>6, <1>7 DEF r

\* The first half of Enqueue: a new fetcher is neither active nor done.
LEMMA EnqueueRecordPreserves ==
  ASSUME IInv, NEW name \in Names, EnqueueRecord(name)
  PROVE  IInv'
  <1>1. PICK n \in Ids :
           /\ TypeOK' /\ Created' = Created \cup {n} /\ n \notin Created
           /\ \A f \in Created : fetcher'[f] = fetcher[f]
           /\ fetcher'[n] = NewFetcher(name)
    BY EnqueueRecordIsTyped DEF IInv
  <1>2. /\ \A f \in Created : Life(f)' = Life(f)
        /\ Life(n)' = L!New
    BY <1>1 DEF Life, NewFetcher
  <1>3. ~L!New.active /\ ~L!New.stray /\ L!New.completing = 0 /\ L!New' = L!New
    BY LifeSteps DEF L!New
  <1>4. /\ Listed' = Listed /\ waits' = waits /\ Distinct'
        /\ m_currentParallelFetches' = m_currentParallelFetches
    BY DEF EnqueueRecord, IInv, Listed, Distinct
  <1>5. NoStray' = NoStray /\ Active' = Active /\ Completing' = Completing
    BY <1>1, <1>2, <1>3 DEF NoStray, Active, Completing
  <1>6. CompletesOnce'
    BY <1>1, <1>2, <1>3 DEF IInv, CompletesOnce
  <1>7. WaitsAreQuiet'
    BY <1>1, <1>2, <1>4, <1>5 DEF IInv, WaitsAreQuiet
  <1>8. SlotsExact'
    BY <1>4, <1>5 DEF IInv, SlotsExact
  <1>9. DeletedIsQuiet'
    BY <1>1, <1>2, <1>3, <1>4, <1>5 DEF IInv, DeletedIsQuiet
  <1> QED
    BY <1>1, <1>4, <1>6, <1>7, <1>8, <1>9 DEF IInv

\* A manager without fetchers, as the constructor leaves it.
Empty ==
    /\ fetcher = <<>> /\ m_fetchList = <<>> /\ m_currentParallelFetches = 0
    /\ running = Idle /\ waits = {} /\ due = FALSE
    /\ up \in BOOLEAN
    /\ task \subseteq [name : Names, f : Ids]

\* Its accounts are in order.
LEMMA EmptyIsAccounted == Empty => IInv
  <1> SUFFICES ASSUME Empty PROVE IInv
    OBVIOUS
  <1>1. Created = {} /\ Listed = {} /\ waits = {}
    BY DEF Empty, Created, Listed
  <1>2. TypeOK
    <2>1. /\ fetcher \in Seq(Fetchers) /\ Len(fetcher) = 0 /\ m_fetchList \in Seq(Ids)
          /\ running \in [in : {"idle", "timeout", "finish"}, f : {0} \cup Ids]
          /\ task \subseteq [name : Names, f : Ids]
      BY DEF Empty, Idle
    <2>2. due \in BOOLEAN /\ up \in BOOLEAN
      BY DEF Empty
    <2>3. m_currentParallelFetches \in 0..(UintSize - 1) /\ 0 <= MaxEnqueue
      BY ManagerAssumption DEF Empty
    <2> QED
      BY <1>1, <2>1, <2>2, <2>3 DEF TypeOK
  <1>3. Active = {} /\ Completing = {} /\ Cardinality({}) = 0
    BY <1>1, FS_EmptySet DEF Active, Completing
  <1>4. SlotsExact
    BY <1>3, ManagerAssumption DEF Empty, SlotsExact
  <1>5. Distinct /\ CompletesOnce /\ WaitsAreQuiet /\ DeletedIsQuiet
    BY <1>1 DEF Empty, Distinct, CompletesOnce, WaitsAreQuiet, DeletedIsQuiet
  <1> QED
    BY <1>2, <1>4, <1>5 DEF IInv

\* The destructor or a crash leaves an empty manager.
LEMMA StopPreserves ==
  ASSUME IInv, Stop
  PROVE  IInv'
  <1>1. task \subseteq [name : Names, f : Ids]
    BY DEF IInv, TypeOK
  <1>2. Empty'
    BY <1>1 DEF Stop, Empty, Idle
  <1> QED
    BY <1>2, EmptyIsAccounted, PTL

\* The constructor may end the process.
LEMMA RestartPreserves ==
  ASSUME IInv, Restart
  PROVE  IInv'
  <1> USE DEF Restart
  <1>1. /\ Created' = Created /\ Listed' = Listed /\ \A f \in Created : Life(f)' = Life(f)
    BY DEF Created, Listed, Life
  <1>2. TypeOK'
    <2>1. up' \in BOOLEAN
      OBVIOUS
    <2>2. due' \in BOOLEAN
      BY DEF IInv, TypeOK
    <2> QED
      BY <1>1, <2>1, <2>2 DEF IInv, TypeOK
  <1>3. Distinct' /\ m_currentParallelFetches' = m_currentParallelFetches /\ waits' = waits
    BY DEF IInv, Distinct
  <1> QED
    BY <1>1, <1>2, <1>3, LivesStayKeep DEF IInv

-----------------------------------------------------------------------------
(* The specification.                                                       *)

\* Every step keeps the accounts.
LEMMA StepPreserves ==
  ASSUME IInv, [Next]_vars
  PROVE  IInv'
  <1>1. CASE Next
    <2>1. ASSUME NEW name \in Names, EnqueueRecord(name) PROVE IInv'
      BY <2>1, EnqueueRecordPreserves
    <2>2. ASSUME NEW f \in Created, NEW high \in BOOLEAN, Enqueue(f, high) PROVE IInv'
      BY <2>2, EnqueuePreserves
    <2>3. ASSUME NEW f \in Created, RetryDue(f) PROVE IInv'
      BY <2>3, RetryDuePreserves
    <2>4. ASSUME NEW f \in Created, FetchEndsOrStalls(f) PROVE IInv'
      BY <2>4, NoDataTimeoutPreserves, FinishesPreserves, StallPreserves DEF FetchEndsOrStalls
    <2>5. ASSUME NEW f \in Created, NoDataTimeoutRetry(f) PROVE IInv'
      BY <2>5, RetryPreserves
    <2>6. ASSUME NEW f \in Created, FetchWaits(f) PROVE IInv'
      BY <2>6, WaitsPreserves
    <2>7. ASSUME NEW f \in Created, DidFetchComplete(f) PROVE IInv'
      BY <2>7, CompletePreserves
    <2>8. ASSUME NEW f \in Created, StrayNoDataTimeout(f) PROVE IInv'
      BY <2>8, StrayTimeoutPreserves
    <2>9. ASSUME NEW f \in Created, StrayFinishes(f) PROVE IInv'
      BY <2>9, StrayFinishesPreserves
    <2>10. CASE ScheduleFetches
      BY <2>10, SchedulePreserves
    <2>11. ASSUME NEW w \in waits, TimedWait(w) PROVE IInv'
      BY <2>11, TimedWaitPreserves
    <2>12. ASSUME NEW w \in waits, TimedWaitReturn(w) PROVE IInv'
      BY <2>12, TimedWaitReturnPreserves
    <2>13. CASE Stop
      BY <2>13, StopPreserves
    <2>14. CASE Restart
      BY <2>14, RestartPreserves
    <2> QED
      BY <1>1, <2>1, <2>2, <2>3, <2>4, <2>5, <2>6, <2>7, <2>8, <2>9, <2>10, <2>11, <2>12,
         <2>13, <2>14 DEF Next
  <1>2. CASE UNCHANGED vars
    <2> USE <1>2 DEF vars
    <2>1. /\ Created' = Created /\ Listed' = Listed /\ \A f \in Created : Life(f)' = Life(f)
      BY DEF Created, Listed, Life
    <2>2. TypeOK'
      <3>1. due' \in BOOLEAN /\ up' \in BOOLEAN
        BY DEF IInv, TypeOK
      <3> QED
        BY <2>1, <3>1 DEF IInv, TypeOK
    <2>3. Distinct' /\ m_currentParallelFetches' = m_currentParallelFetches /\ waits' = waits
      BY DEF IInv, Distinct
    <2> QED
      BY <2>1, <2>2, <2>3, LivesStayKeep DEF IInv
  <1> QED
    BY <1>1, <1>2

\* The accounts are an invariant.
THEOREM Invariance == Spec => []IInv
  <1>1. Init => IInv
    <2>1. Init => Empty
      BY DEF Init, Empty, NoTasks
    <2> QED
      BY <2>1, EmptyIsAccounted
  <1>2. IInv /\ [Next]_vars => IInv'
    BY StepPreserves
  <1> QED
    BY <1>1, <1>2, PTL DEF Spec

\* For any number of slots: as long as no fetcher sends Interests that no attempt
\* needs, m_currentParallelFetches counts the fetches under way and stays within
\* m_maxParallelFetches, although ScheduleFetches, DidNoDataTimeout and
\* DidFetchComplete run in two threads and a fetcher may be restarted between the
\* halves of its end; and what TimedWait deletes is done and told.
THEOREM AccountsAreKept == Spec => []Accounting
  <1>1. IInv => Accounting
    BY DEF IInv, Accounting
  <1> QED
    BY <1>1, Invariance, PTL

=============================================================================
