--------------------------- MODULE Fetcher_proofs ---------------------------
(***************************************************************************)
(* The safety properties of Fetcher and its implementation of FetcherLife, *)
(* for any range of segments, any pipeline and any bound on timeouts and   *)
(* restarts.                                                               *)
(***************************************************************************)
EXTENDS Fetcher, FiniteSetTheorems, SequenceTheorems, TLAPS

Segments == m_minSeqNo..m_maxSeqNo

Jobs == [do : {"fill", "finish", "complete"}]
            \cup [do : {"data", "timeout"}, i : Interests]

\* The numbers of what is on its way, outstanding in B or with its answer in q.
Numbers(B, q) == {i.seqno : i \in BagToSet(B)} \cup {q[k].i.seqno : k \in Answers(q)}

\* Number s is on its way at most once.
Once(B, q, s) ==
    /\ \A i, j \in BagToSet(B) : i.seqno = s /\ j.seqno = s => i = j /\ B[i] = 1
    /\ \A k, l \in Answers(q) : q[k].i.seqno = s /\ q[l].i.seqno = s => k = l
    /\ \A i \in BagToSet(B), k \in Answers(q) : ~(i.seqno = s /\ q[k].i.seqno = s)

\* OnData and OnTimeout of what is on its way are bound to the same number.
Even(B, q) ==
    /\ \A i \in BagToSet(B) : i.seqno = i.timeout
    /\ \A k \in Answers(q) : q[k].i.seqno = q[k].i.timeout

\* Bag B and queue q are well formed.
OnTheWay(B, q) ==
    /\ IsABag(B) /\ BagToSet(B) \subseteq Interests /\ IsFiniteSet(Copies(B))
    /\ q \in Seq(Jobs)

Numerals ==
    /\ m_minSendSeqNo \in Number \cup {m_minSeqNo - 1}
    /\ m_maxInOrderRecvSeqNo \in Number \cup {m_minSeqNo - 1}
    /\ m_outOfOrderRecvSeqNo \subseteq Number /\ IsFiniteSet(m_outOfOrderRecvSeqNo)
    /\ m_inActivePipeline \subseteq Number
    /\ m_activePipeline \in 0..m_pipeline

Flags ==
    /\ m_active \in BOOLEAN /\ m_timedwait \in BOOLEAN
    /\ reexpressed \in 0..MaxReexpress /\ restarts \in 0..MaxRestart
    /\ noActivity \in BOOLEAN /\ lost \in BOOLEAN /\ stray \in BOOLEAN
    /\ owed \in Int /\ delivered \subseteq Number /\ finished \in Nat

\* Where FillPipeline is: its job stays at the front, and it is past its
\* condition only when the pipeline has room.
FillAt ==
    /\ fill.pc \in {"test", "find", "insert", "express", "advance"}
    /\ fill.n \in Number \cup {m_minSeqNo - 1} /\ torn \in BOOLEAN
    /\ fill.pc # "test" => Job("fill")
    /\ fill.pc \in {"find", "insert", "express"} => m_activePipeline < m_pipeline

\* A turn of the loop that is not torn is about one segment, which is neither
\* received nor requested when it is taken.
OneTurn ==
    /\ m_inActivePipeline \subseteq Segments
    /\ fill.pc # "test" => fill.n + 1 \in Segments
    /\ fill.pc \in {"insert", "express"} => fill.n + 1 \notin m_outOfOrderRecvSeqNo
    /\ fill.pc = "insert" => fill.n + 1 \notin m_inActivePipeline
    /\ fill.pc = "express" => fill.n + 1 \in m_inActivePipeline

\* As long as nothing has been re-expressed, every number on its way is in
\* m_inActivePipeline, once, and nothing else is but the number that is taken.
ExactOnTheWay ==
    reexpressed = 0 =>
        /\ m_inActivePipeline = Numbers(pending, jobs) \cup Taken
        /\ Numbers(pending, jobs) \cap Taken = {}
        /\ Cardinality(m_inActivePipeline) = m_activePipeline + Cardinality(Taken)
        /\ \A s \in Segments : Once(pending, jobs, s)

\* What holds as long as RestartPipeline has not torn FillPipeline.
Untorn == ~torn => Even(pending, jobs) /\ OneTurn /\ ExactOnTheWay

\* The first number whose answer cannot come any more, because its Interest is
\* answered under the next number, or the end of the range when there is none.
\* What is on its way below it is needed, and requested once.
FirstLost(b) ==
    /\ \/ reexpressed = 0 /\ b = m_maxSeqNo + 1
       \/ /\ b \in m_inActivePipeline /\ b > m_maxInOrderRecvSeqNo
          /\ b \notin m_outOfOrderRecvSeqNo /\ b \notin Numbers(pending, jobs)
    /\ \A s \in Numbers(pending, jobs) :
          s < b => /\ Once(pending, jobs, s) /\ s \in m_inActivePipeline
                   /\ s \notin m_outOfOrderRecvSeqNo /\ s > m_maxInOrderRecvSeqNo

\* The number that FillPipeline has taken is another one, and below it not on its
\* way.
TakenFits(b) ==
    \A s \in Taken : s # b /\ (s < b => s \notin Numbers(pending, jobs))

NothingOnTheWay == Numbers(pending, jobs) = {}

\* Without needless Interests, nothing is on its way for a fetcher that is not
\* active or has received all, and it finishes once.
OneAttempt ==
    /\ \E b \in Number \cup {m_maxSeqNo + 1} : FirstLost(b) /\ TakenFits(b)
    /\ ~m_active \/ m_maxInOrderRecvSeqNo = m_maxSeqNo => NothingOnTheWay
    /\ finished + Queued("finish") <= 1
    /\ m_maxInOrderRecvSeqNo # m_maxSeqNo => finished + Queued("finish") = 0

Needed == ~stray /\ ~torn => OneAttempt

\* The job that tells the manager is queued after m_timedwait is set, and that
\* after the finish callback.
CompleteWaits ==
    /\ Queued("complete") > 0 => m_timedwait
    /\ m_timedwait => finished > 0

IInv == /\ Flags /\ Numerals /\ OnTheWay(pending, jobs) /\ FillAt
        /\ PipelineAccounting /\ Untorn
        /\ NothingSkipped /\ Needed /\ CompleteWaits

-----------------------------------------------------------------------------
(* Finite sets of numbers. *)

\* A set of naturals that is not empty has a least element: among its finite
\* initial parts one is contained in all the others.
LEMMA LeastNatural ==
  ASSUME NEW T \in SUBSET Nat, T # {}
  PROVE  \E x \in T : \A y \in T : x <= y
  <1> DEFINE Below(x) == T \cap (0..x)
             F == {Below(x) : x \in T}
             R == StrictSubsetOrdering(Nat)
  <1>1. F \subseteq FiniteSubsetsOf(Nat)
    <2>1. ASSUME NEW x \in T PROVE Below(x) \in FiniteSubsetsOf(Nat)
      <3>1. IsFiniteSet(0..x)
        BY FS_Interval
      <3>2. IsFiniteSet(Below(x))
        BY <3>1, FS_Subset
      <3> QED
        BY <3>2 DEF FiniteSubsetsOf
    <2> QED
      BY <2>1
  <1>2. IsWellFoundedOn(R, FiniteSubsetsOf(Nat))
    BY FS_StrictSubsetOrderingWellFounded
  <1>3. F # {}
    OBVIOUS
  <1>4. PICK B \in F : \A C \in F : <<C, B>> \notin R
    <2> HIDE DEF F, R
    <2> QED
      BY <1>1, <1>2, <1>3, WFMin
  <1>5. PICK x \in T : B = Below(x)
    OBVIOUS
  <1>6. ASSUME NEW y \in T, y < x PROVE FALSE
    <2>1. x \in Nat /\ y \in Nat
      OBVIOUS
    <2>2. Below(y) \subseteq Below(x) /\ x \in Below(x) /\ x \notin Below(y)
      BY <1>6, <2>1
    <2>3. <<Below(y), Below(x)>> \in R
      BY <2>2 DEF StrictSubsetOrdering
    <2> QED
      BY <1>4, <1>5, <2>3
  <1> QED
    BY <1>6

\* So has a set of integers above a bound.
LEMMA LeastInteger ==
  ASSUME NEW a \in Int, NEW T, \A x \in T : x \in Int /\ x >= a, T # {}
  PROVE  \E x \in T : \A y \in T : x <= y
  <1> DEFINE U == {x - a : x \in T}
  <1>1. U \in SUBSET Nat /\ U # {}
    OBVIOUS
  <1>2. PICK u \in U : \A v \in U : u <= v
    BY <1>1, LeastNatural
  <1>3. PICK x \in T : u = x - a
    OBVIOUS
  <1>4. ASSUME NEW y \in T PROVE x <= y
    <2>1. y - a \in U
      OBVIOUS
    <2>2. u <= y - a
      BY <1>2, <2>1
    <2> QED
      BY <1>3, <2>2
  <1> QED
    BY <1>4

\* A set of integers between two bounds is finite.
LEMMA BoundedIsFinite ==
  ASSUME NEW a \in Int, NEW b \in Int, NEW T, T \subseteq a..b
  PROVE  IsFiniteSet(T) /\ Cardinality(T) \in Nat
  <1>1. IsFiniteSet(a..b)
    BY FS_Interval
  <1>2. IsFiniteSet(T)
    BY <1>1, FS_Subset
  <1> QED
    BY <1>2, FS_CardinalityType

\* Two finite sets without a common element.
LEMMA DisjointUnion ==
  ASSUME NEW S, NEW T, IsFiniteSet(S), IsFiniteSet(T), S \cap T = {}
  PROVE  IsFiniteSet(S \cup T) /\ Cardinality(S \cup T) = Cardinality(S) + Cardinality(T)
  <1>1. /\ IsFiniteSet(S \cup T)
        /\ Cardinality(S \cup T) = Cardinality(S) + Cardinality(T) - Cardinality(S \cap T)
    BY FS_Union
  <1>2. Cardinality(S \cap T) = 0
    BY FS_EmptySet
  <1>3. Cardinality(S) \in Nat /\ Cardinality(T) \in Nat
    BY FS_CardinalityType
  <1> QED
    BY <1>1, <1>2, <1>3

-----------------------------------------------------------------------------
(* Queues. *)

\* The positions of the jobs of a kind in W.
Positions(q, W) == {k \in DOMAIN q : q[k].do \in W}

\* There are finitely many of them.
LEMMA PositionsFinite ==
  ASSUME NEW S, NEW q \in Seq(S), NEW W
  PROVE  IsFiniteSet(Positions(q, W)) /\ Cardinality(Positions(q, W)) \in Nat
  <1>1. Len(q) \in Nat /\ DOMAIN q = 1..Len(q)
    BY LenProperties
  <1>2. Positions(q, W) \subseteq 1..Len(q)
    BY <1>1 DEF Positions
  <1> QED
    BY <1>1, <1>2, BoundedIsFinite

\* A job that is appended is counted when its kind is ...
LEMMA AppendCounts ==
  ASSUME NEW S, NEW q \in Seq(S), NEW e \in S, NEW W
  PROVE  /\ Positions(Append(q, e), W) =
              Positions(q, W) \cup (IF e.do \in W THEN {Len(q) + 1} ELSE {})
         /\ Cardinality(Positions(Append(q, e), W)) =
              Cardinality(Positions(q, W)) + (IF e.do \in W THEN 1 ELSE 0)
  <1>1. /\ Len(q) \in Nat /\ DOMAIN q = 1..Len(q)
        /\ DOMAIN Append(q, e) = 1..(Len(q) + 1)
        /\ \A k \in 1..Len(q) : Append(q, e)[k] = q[k]
        /\ Append(q, e)[Len(q) + 1] = e
    BY LenProperties, AppendProperties
  <1>2. Positions(Append(q, e), W) =
           Positions(q, W) \cup (IF e.do \in W THEN {Len(q) + 1} ELSE {})
    BY <1>1 DEF Positions
  <1>3. Len(q) + 1 \notin Positions(q, W)
    BY <1>1 DEF Positions
  <1>4. IsFiniteSet(Positions(q, W)) /\ Cardinality(Positions(q, W)) \in Nat
    BY PositionsFinite
  <1>5. Cardinality(Positions(q, W) \cup {Len(q) + 1}) = Cardinality(Positions(q, W)) + 1
    BY <1>3, <1>4, FS_AddElement
  <1>6. CASE e.do \in W
    BY <1>2, <1>5, <1>6
  <1>7. CASE e.do \notin W
    <2>1. Positions(Append(q, e), W) = Positions(q, W)
      BY <1>2, <1>7
    <2> QED
      BY <1>2, <1>4, <1>7, <2>1
  <1> QED
    BY <1>6, <1>7

\* ... and so is the one that is taken from the front.
LEMMA TailCounts ==
  ASSUME NEW S, NEW q \in Seq(S), q # <<>>, NEW W
  PROVE  /\ Positions(q, W) = {k + 1 : k \in Positions(Tail(q), W)}
                                  \cup (IF Head(q).do \in W THEN {1} ELSE {})
         /\ Cardinality(Positions(q, W)) =
              Cardinality(Positions(Tail(q), W)) + (IF Head(q).do \in W THEN 1 ELSE 0)
  <1> DEFINE P == Positions(Tail(q), W)
             P1 == {k + 1 : k \in P}
  <1>1. /\ Len(q) \in Nat /\ Len(q) > 0 /\ DOMAIN q = 1..Len(q)
        /\ Tail(q) \in Seq(S) /\ DOMAIN Tail(q) = 1..(Len(q) - 1)
        /\ \A k \in 1..(Len(q) - 1) : Tail(q)[k] = q[k + 1]
        /\ Head(q) = q[1]
    BY LenProperties, HeadTailProperties, EmptySeq
  <1>2. Positions(q, W) = P1 \cup (IF Head(q).do \in W THEN {1} ELSE {})
    <2>1. ASSUME NEW k \in Positions(q, W), k # 1 PROVE k \in P1
      <3>1. k - 1 \in 1..(Len(q) - 1) /\ q[k].do \in W /\ (k - 1) + 1 = k
        BY <1>1, <2>1 DEF Positions
      <3>2. k - 1 \in P
        BY <1>1, <3>1 DEF Positions
      <3> QED
        BY <3>1, <3>2
    <2>2. ASSUME NEW k \in P PROVE k + 1 \in Positions(q, W)
      BY <1>1, <2>2 DEF Positions
    <2>3. 1 \in Positions(q, W) <=> Head(q).do \in W
      BY <1>1 DEF Positions
    <2> HIDE DEF P
    <2> QED
      BY <2>1, <2>2, <2>3
  <1>3. IsFiniteSet(P) /\ Cardinality(P) \in Nat
    BY <1>1, PositionsFinite
  <1>10. \A k \in P : k \in Nat /\ k > 0
    BY <1>1 DEF Positions
  <1> HIDE DEF P
  <1>4. IsFiniteSet(P1) /\ Cardinality(P1) = Cardinality(P)
    <2> DEFINE f == [k \in P |-> k + 1]
    <2>1. f \in Bijection(P, P1)
      BY <1>10 DEF Bijection, Injection, Surjection, IsInjective
    <2> QED
      BY <1>3, <2>1, FS_Bijection DEF ExistsBijection
  <1>5. 1 \notin P1
    BY <1>10
  <1>6. Cardinality(P1 \cup {1}) = Cardinality(P1) + 1
    BY <1>4, <1>5, FS_AddElement
  <1>7. CASE Head(q).do \in W
    BY <1>2, <1>4, <1>6, <1>7 DEF P
  <1>8. CASE Head(q).do \notin W
    <2>1. Positions(q, W) = P1
      BY <1>2, <1>8
    <2> QED
      BY <1>2, <1>3, <1>4, <1>8, <2>1 DEF P
  <1> QED
    BY <1>7, <1>8

\* Replacing the job at the front.
FirstReplaced(q, e) == [q EXCEPT ![1] = e]

\* It changes the count of a kind by what leaves and what comes.
LEMMA ReplaceCounts ==
  ASSUME NEW S, NEW q \in Seq(S), q # <<>>, NEW e \in S, NEW W
  PROVE  /\ FirstReplaced(q, e) \in Seq(S)
         /\ Positions(FirstReplaced(q, e), W) =
              (Positions(q, W) \ {1}) \cup (IF e.do \in W THEN {1} ELSE {})
         /\ Cardinality(Positions(FirstReplaced(q, e), W)) =
              Cardinality(Positions(q, W)) - (IF Head(q).do \in W THEN 1 ELSE 0)
                                           + (IF e.do \in W THEN 1 ELSE 0)
  <1> DEFINE r == FirstReplaced(q, e)
  <1>1. /\ Len(q) \in Nat /\ Len(q) > 0 /\ DOMAIN q = 1..Len(q) /\ Head(q) = q[1]
    BY LenProperties, HeadTailProperties, EmptySeq
  <1>2. /\ r \in Seq(S) /\ DOMAIN r = DOMAIN q /\ r[1] = e
        /\ \A k \in DOMAIN q \ {1} : r[k] = q[k]
    BY <1>1, ExceptSeq DEF FirstReplaced
  <1> HIDE DEF r
  <1>3. Positions(r, W) = (Positions(q, W) \ {1}) \cup (IF e.do \in W THEN {1} ELSE {})
    BY <1>1, <1>2 DEF Positions
  <1>4. 1 \in Positions(q, W) <=> Head(q).do \in W
    BY <1>1 DEF Positions
  <1> DEFINE P == Positions(q, W)
  <1>5. IsFiniteSet(P) /\ Cardinality(P) \in Nat
    BY PositionsFinite
  <1> HIDE DEF P
  <1>6. /\ IsFiniteSet(P \ {1})
        /\ Cardinality(P \ {1}) = IF 1 \in P THEN Cardinality(P) - 1 ELSE Cardinality(P)
    BY <1>5, FS_RemoveElement
  <1>7. Cardinality((P \ {1}) \cup {1}) = Cardinality(P \ {1}) + 1
    BY <1>6, FS_AddElement
  <1>8. Cardinality(P \ {1}) \in Nat
    BY <1>6, FS_CardinalityType
  <1>9. Cardinality(Positions(r, W)) =
                  Cardinality(P) - (IF Head(q).do \in W THEN 1 ELSE 0)
                                 + (IF e.do \in W THEN 1 ELSE 0)
    <2>1. Cardinality(P \ {1}) = Cardinality(P) - (IF Head(q).do \in W THEN 1 ELSE 0)
      BY <1>4, <1>5, <1>6 DEF P
    <2>2. CASE e.do \in W
      BY <1>3, <1>5, <1>7, <2>1, <2>2 DEF P
    <2>3. CASE e.do \notin W
      <3>1. Positions(r, W) = P \ {1}
        BY <1>3, <2>3 DEF P
      <3> QED
        BY <1>5, <1>8, <2>1, <2>3, <3>1
    <2> QED
      BY <2>2, <2>3
  <1> QED
    BY <1>2, <1>3, <1>9 DEF P, r

-----------------------------------------------------------------------------
(* Bags. *)

\* Taking one copy out of a bag.
LEMMA TakeCopy ==
  ASSUME NEW B, IsABag(B), IsFiniteSet(Copies(B)), NEW i \in BagToSet(B)
  PROVE  LET C == B (-) SetToBag({i})
         IN  /\ IsABag(C)
             /\ BagToSet(C) = IF B[i] = 1 THEN BagToSet(B) \ {i} ELSE BagToSet(B)
             /\ \A j \in BagToSet(C) : C[j] = IF j = i THEN B[i] - 1 ELSE B[j]
             /\ IsFiniteSet(Copies(C))
             /\ Cardinality(Copies(B)) \in Nat
             /\ Cardinality(Copies(C)) = Cardinality(Copies(B)) - 1
  <1> DEFINE C == B (-) SetToBag({i})
  <1>1. \A j \in DOMAIN B : B[j] \in Nat /\ B[j] > 0
    BY DEF IsABag
  <1>2. /\ IsABag(C)
        /\ BagToSet(C) = IF B[i] = 1 THEN BagToSet(B) \ {i} ELSE BagToSet(B)
        /\ \A j \in BagToSet(C) : C[j] = IF j = i THEN B[i] - 1 ELSE B[j]
    BY <1>1 DEF IsABag, BagToSet, SetToBag, (-)
  <1> HIDE DEF C
  <1>3. Copies(C) = Copies(B) \ {<<i, B[i]>>} /\ <<i, B[i]>> \in Copies(B)
    BY <1>1, <1>2 DEF Copies, BagToSet
  <1>4. /\ IsFiniteSet(Copies(C))
        /\ Cardinality(Copies(C)) = Cardinality(Copies(B)) - 1
    BY <1>3, FS_RemoveElement
  <1>5. Cardinality(Copies(B)) \in Nat
    BY FS_CardinalityType
  <1> QED
    BY <1>2, <1>4, <1>5 DEF C

\* Putting one copy of each element of a finite set into a bag.
LEMMA PutCopies ==
  ASSUME NEW B, IsABag(B), IsFiniteSet(Copies(B)), NEW S, IsFiniteSet(S)
  PROVE  LET C == B (+) SetToBag(S)
         IN  /\ IsABag(C)
             /\ BagToSet(C) = BagToSet(B) \cup S
             /\ \A j \in BagToSet(B) \ S : C[j] = B[j]
             /\ \A j \in S \ BagToSet(B) : C[j] = 1
             /\ IsFiniteSet(Copies(C))
             /\ Cardinality(Copies(C)) = Cardinality(Copies(B)) + Cardinality(S)
  <1> DEFINE C == B (+) SetToBag(S)
             last == [j \in S |-> <<j, C[j]>>]
             New == {last[j] : j \in S}
  <1>1. \A j \in DOMAIN B : B[j] \in Nat /\ B[j] > 0
    BY DEF IsABag
  <1>2. /\ IsABag(C)
        /\ BagToSet(C) = BagToSet(B) \cup S
        /\ \A j \in BagToSet(B) \ S : C[j] = B[j]
        /\ \A j \in S \ BagToSet(B) : C[j] = 1
        /\ \A j \in S \cap BagToSet(B) : C[j] = B[j] + 1
    BY <1>1 DEF IsABag, BagToSet, SetToBag, (+)
  <1> HIDE DEF C
  <1>3. Copies(C) = Copies(B) \cup New
    <2>1. ASSUME NEW j \in DOMAIN C, NEW k \in 1..C[j]
          PROVE  <<j, k>> \in Copies(B) \cup New
      <3>1. CASE j \in DOMAIN B /\ k \in 1..B[j]
        BY <3>1 DEF Copies, BagToSet
      <3>2. CASE ~(j \in DOMAIN B /\ k \in 1..B[j])
        <4>1. j \in S /\ k = C[j]
          BY <1>1, <1>2, <2>1, <3>2 DEF BagToSet
        <4> QED
          BY <4>1
      <3> QED
        BY <3>1, <3>2
    <2>2. ASSUME NEW j \in DOMAIN B, NEW k \in 1..B[j] PROVE <<j, k>> \in Copies(C)
      <3>1. j \in DOMAIN C /\ k \in 1..C[j]
        BY <1>1, <1>2, <2>2 DEF BagToSet
      <3> QED
        BY <3>1 DEF Copies, BagToSet
    <2>3. ASSUME NEW j \in S PROVE <<j, C[j]>> \in Copies(C)
      <3>1. j \in DOMAIN C /\ C[j] \in 1..C[j]
        BY <1>1, <1>2, <2>3 DEF BagToSet
      <3> QED
        BY <3>1 DEF Copies, BagToSet
    <2> QED
      BY <2>1, <2>2, <2>3 DEF Copies, BagToSet
  <1>4. Copies(B) \cap New = {}
    BY <1>1, <1>2 DEF Copies, BagToSet
  <1>5. IsFiniteSet(New) /\ Cardinality(New) = Cardinality(S)
    <2>1. last \in Bijection(S, New)
      BY DEF Bijection, Injection, Surjection, IsInjective
    <2> QED
      BY <2>1, FS_Bijection DEF ExistsBijection
  <1>6. /\ IsFiniteSet(Copies(C))
        /\ Cardinality(Copies(C)) = Cardinality(Copies(B)) + Cardinality(S)
    <2> HIDE DEF New
    <2> QED
      BY <1>3, <1>4, <1>5, DisjointUnion
  <1> QED
    BY <1>2, <1>6 DEF C

-----------------------------------------------------------------------------
(* What is on its way, and how the handlers change it. *)

Unprocessed(B, q) == Cardinality(Copies(B)) + Cardinality(Answers(q))

\* From B and q to C and p the same numbers are on their way.
Keeps(B, q, C, p) ==
    /\ Numbers(C, p) = Numbers(B, q)
    /\ \A s : Once(B, q, s) => Once(C, p, s)
    /\ Even(B, q) => Even(C, p)
    /\ Unprocessed(C, p) = Unprocessed(B, q)

\* From B and q to C and p an answer for number t is processed.
Processes(B, q, C, p, t) ==
    /\ Numbers(C, p) \subseteq Numbers(B, q)
    /\ Numbers(B, q) \subseteq Numbers(C, p) \cup {t}
    /\ \A s : Once(B, q, s) => Once(C, p, s)
    /\ Once(B, q, t) => t \notin Numbers(C, p)
    /\ Even(B, q) => Even(C, p)
    /\ Unprocessed(C, p) = Unprocessed(B, q) - 1

\* The counts are natural numbers, and an answer has an Interest.
LEMMA OnTheWayFacts ==
  ASSUME NEW B, NEW q, OnTheWay(B, q)
  PROVE  /\ Cardinality(Copies(B)) \in Nat /\ Cardinality(Answers(q)) \in Nat
         /\ Unprocessed(B, q) \in Nat
         /\ Answers(q) = Positions(q, {"data", "timeout"})
         /\ DOMAIN q = 1..Len(q) /\ Len(q) \in Nat
         /\ \A k \in Answers(q) : k \in 1..Len(q) /\ q[k].i \in Interests
         /\ Numbers(B, q) \subseteq Number
  <1>1. Answers(q) = Positions(q, {"data", "timeout"})
    BY DEF Answers, Positions
  <1>2. Cardinality(Answers(q)) \in Nat
    BY <1>1, PositionsFinite DEF OnTheWay
  <1>3. Cardinality(Copies(B)) \in Nat
    BY FS_CardinalityType DEF OnTheWay
  <1>4. DOMAIN q = 1..Len(q) /\ Len(q) \in Nat
    BY LenProperties DEF OnTheWay
  <1>5. \A k \in Answers(q) : k \in 1..Len(q) /\ q[k].i \in Interests
    BY <1>4 DEF Answers, OnTheWay, Jobs
  <1>6. Numbers(B, q) \subseteq Number
    BY <1>5 DEF Numbers, OnTheWay, Interests
  <1> QED
    BY <1>1, <1>2, <1>3, <1>4, <1>5, <1>6 DEF Unprocessed

\* A job without an answer is appended.
LEMMA AppendOther ==
  ASSUME NEW B, NEW q, OnTheWay(B, q),
         NEW e \in Jobs, e.do \notin {"data", "timeout"}
  PROVE  OnTheWay(B, Append(q, e)) /\ Keeps(B, q, B, Append(q, e))
  <1> DEFINE p == Append(q, e)
  <1>1. /\ p \in Seq(Jobs)
        /\ \A k \in 1..Len(q) : p[k] = q[k]
    BY AppendProperties DEF OnTheWay
  <1>2. Answers(p) = Answers(q) /\ Cardinality(Answers(p)) = Cardinality(Answers(q))
    <2>1. /\ Answers(p) = Positions(p, {"data", "timeout"})
          /\ Answers(q) = Positions(q, {"data", "timeout"})
      BY DEF Answers, Positions
    <2>2. Cardinality(Answers(q)) \in Nat /\ q \in Seq(Jobs)
      BY OnTheWayFacts DEF OnTheWay
    <2>3. Positions(p, {"data", "timeout"}) =
            Positions(q, {"data", "timeout"}) \cup {}
      BY <2>2, AppendCounts
    <2> QED
      BY <2>1, <2>3
  <1>3. \A k \in Answers(q) : p[k] = q[k]
    BY <1>1, OnTheWayFacts
  <1> HIDE DEF p
  <1>4. OnTheWay(B, p)
    BY <1>1, <1>2, <1>3 DEF OnTheWay
  <1>5. Numbers(B, p) = Numbers(B, q)
    BY <1>2, <1>3 DEF Numbers
  <1>6. \A s : Once(B, q, s) => Once(B, p, s)
    BY <1>2, <1>3 DEF Once
  <1>7. Even(B, q) => Even(B, p)
    BY <1>2, <1>3 DEF Even
  <1> QED
    BY <1>2, <1>4, <1>5, <1>6, <1>7 DEF Keeps, Unprocessed, p

\* The first job is taken from the queue, and its Interest, if it has one, is
\* processed.
LEMMA TakeFirst ==
  ASSUME NEW B, NEW q, OnTheWay(B, q), q # <<>>
  PROVE  /\ OnTheWay(B, Tail(q))
         /\ Head(q).do \notin {"data", "timeout"} => Keeps(B, q, B, Tail(q))
         /\ Head(q).do \in {"data", "timeout"}
               => Processes(B, q, B, Tail(q), Head(q).i.seqno)
  <1> DEFINE p == Tail(q)
             W == {"data", "timeout"}
  <1>1. /\ p \in Seq(Jobs) /\ Len(q) \in Nat /\ Len(q) > 0 /\ DOMAIN q = 1..Len(q)
        /\ DOMAIN p = 1..(Len(q) - 1)
        /\ \A k \in 1..(Len(q) - 1) : p[k] = q[k + 1]
        /\ Head(q) = q[1]
    BY LenProperties, HeadTailProperties, EmptySeq DEF OnTheWay
  <1>2. /\ Answers(q) = {k + 1 : k \in Answers(p)} \cup (IF Head(q).do \in W THEN {1} ELSE {})
        /\ Cardinality(Answers(q)) = Cardinality(Answers(p)) + (IF Head(q).do \in W THEN 1 ELSE 0)
    <2>1. Answers(p) = Positions(p, W) /\ Answers(q) = Positions(q, W)
      BY DEF Answers, Positions
    <2> QED
      BY <2>1, TailCounts DEF OnTheWay
  <1>3. \A k \in Answers(p) : /\ k \in Int /\ k > 0 /\ k + 1 \in Answers(q)
                              /\ p[k] = q[k + 1]
    <2>1. Answers(p) \subseteq 1..(Len(q) - 1)
      BY <1>1 DEF Answers
    <2> QED
      BY <1>1, <1>2, <2>1
  <1> HIDE DEF p
  <1>4. OnTheWay(B, p)
    BY <1>1, <1>3 DEF OnTheWay
  <1>5. Cardinality(Answers(p)) \in Nat /\ Cardinality(Copies(B)) \in Nat
    BY <1>4, OnTheWayFacts
  <1>6. \A s : Once(B, q, s) => Once(B, p, s)
    BY <1>3 DEF Once
  <1>9. Even(B, q) => Even(B, p)
    BY <1>3 DEF Even
  <1>7. ASSUME Head(q).do \notin W PROVE Keeps(B, q, B, p)
    <2>1. Answers(q) = {k + 1 : k \in Answers(p)}
      BY <1>2, <1>7
    <2>2. {q[k].i.seqno : k \in Answers(q)} = {p[k].i.seqno : k \in Answers(p)}
      BY <2>1, <1>3
    <2>3. Unprocessed(B, p) = Unprocessed(B, q)
      BY <1>2, <1>5, <1>7 DEF Unprocessed
    <2> QED
      BY <1>6, <1>9, <2>2, <2>3 DEF Keeps, Numbers
  <1>8. ASSUME Head(q).do \in W PROVE Processes(B, q, B, p, Head(q).i.seqno)
    <2> DEFINE t == Head(q).i.seqno
    <2>1. Answers(q) = {k + 1 : k \in Answers(p)} \cup {1}
      BY <1>2, <1>8
    <2>2. {q[k].i.seqno : k \in Answers(q)} = {p[k].i.seqno : k \in Answers(p)} \cup {t}
      BY <1>1, <1>3, <2>1
    <2>3. Unprocessed(B, p) = Unprocessed(B, q) - 1
      BY <1>2, <1>5, <1>8 DEF Unprocessed
    <2>4. ASSUME Once(B, q, t) PROVE t \notin Numbers(B, p)
      <3>1. 1 \in Answers(q) /\ q[1].i.seqno = t
        BY <1>1, <2>1
      <3>2. \A i \in BagToSet(B) : i.seqno # t
        BY <2>4, <3>1 DEF Once
      <3>3. \A k \in Answers(p) : p[k].i.seqno # t
        <4>1. SUFFICES ASSUME NEW k \in Answers(p), p[k].i.seqno = t PROVE FALSE
          OBVIOUS
        <4>2. k + 1 \in Answers(q) /\ q[k + 1].i.seqno = t /\ k + 1 # 1
          BY <1>3, <4>1
        <4> QED
          BY <2>4, <3>1, <4>2 DEF Once
      <3> QED
        BY <3>2, <3>3 DEF Numbers
    <2> QED
      BY <1>6, <1>9, <2>2, <2>3, <2>4 DEF Processes, Numbers
  <1> QED
    BY <1>4, <1>7, <1>8 DEF p

\* The first job, an answer, is replaced by what is left to do.
LEMMA ReplaceFirst ==
  ASSUME NEW B, NEW q, OnTheWay(B, q), q # <<>>,
         Head(q).do \in {"data", "timeout"},
         NEW e \in Jobs, e.do \notin {"data", "timeout"}
  PROVE  LET p == FirstReplaced(q, e)
         IN  OnTheWay(B, p) /\ Processes(B, q, B, p, Head(q).i.seqno)
  <1> DEFINE p == FirstReplaced(q, e)
             W == {"data", "timeout"}
             t == Head(q).i.seqno
  <1>1. /\ q \in Seq(Jobs) /\ Len(q) \in Nat /\ Len(q) > 0 /\ DOMAIN q = 1..Len(q)
        /\ Head(q) = q[1] /\ p \in Seq(Jobs)
        /\ \A k \in DOMAIN q \ {1} : p[k] = q[k]
    BY LenProperties, HeadTailProperties, EmptySeq, ExceptSeq DEF OnTheWay, FirstReplaced
  <1>2. /\ Answers(p) = Answers(q) \ {1}
        /\ Cardinality(Answers(p)) = Cardinality(Answers(q)) - 1
    <2>1. Answers(p) = Positions(p, W) /\ Answers(q) = Positions(q, W)
      BY DEF Answers, Positions
    <2>2. /\ Positions(p, W) = (Positions(q, W) \ {1}) \cup (IF e.do \in W THEN {1} ELSE {})
          /\ Cardinality(Positions(p, W)) =
                Cardinality(Positions(q, W)) - (IF Head(q).do \in W THEN 1 ELSE 0)
                                             + (IF e.do \in W THEN 1 ELSE 0)
      <3>1. q \in Seq(Jobs)
        BY <1>1
      <3>2. e \in Jobs /\ q # <<>>
        OBVIOUS
      <3> HIDE DEF W, p
      <3>3. /\ Positions(FirstReplaced(q, e), W) =
                  (Positions(q, W) \ {1}) \cup (IF e.do \in W THEN {1} ELSE {})
            /\ Cardinality(Positions(FirstReplaced(q, e), W)) =
                  Cardinality(Positions(q, W)) - (IF Head(q).do \in W THEN 1 ELSE 0)
                                               + (IF e.do \in W THEN 1 ELSE 0)
        BY ONLY <3>1, <3>2, ReplaceCounts
      <3> QED
        BY <3>3 DEF p
    <2>3. Cardinality(Positions(q, W)) \in Nat
      BY <1>1, PositionsFinite
    <2>4. Positions(p, W) = Positions(q, W) \ {1}
      BY <2>2
    <2>5. Cardinality(Positions(p, W)) = Cardinality(Positions(q, W)) - 1
      <3> HIDE DEF p
      <3> QED
        BY <2>2, <2>3
    <2> QED
      BY <2>1, <2>4, <2>5
  <1>3. 1 \in Answers(q) /\ \A k \in Answers(q) : k \in DOMAIN q
    BY <1>1 DEF Answers
  <1>4. \A k \in Answers(p) : k \in Answers(q) /\ k # 1 /\ p[k] = q[k]
    BY <1>1, <1>2, <1>3
  <1> HIDE DEF p
  <1>5. OnTheWay(B, p)
    BY <1>1, <1>4 DEF OnTheWay
  <1>6. Cardinality(Answers(p)) \in Nat /\ Cardinality(Copies(B)) \in Nat
        /\ Cardinality(Answers(q)) \in Nat
    BY <1>5, OnTheWayFacts
  <1>7. \A s : Once(B, q, s) => Once(B, p, s)
    BY <1>4 DEF Once
  <1>8. {q[k].i.seqno : k \in Answers(q)} = {p[k].i.seqno : k \in Answers(p)} \cup {t}
    BY <1>1, <1>2, <1>3, <1>4
  <1>9. Unprocessed(B, p) = Unprocessed(B, q) - 1
    BY <1>2, <1>6 DEF Unprocessed
  <1>10. ASSUME Once(B, q, t) PROVE t \notin Numbers(B, p)
    BY <1>1, <1>3, <1>4, <1>10 DEF Once, Numbers
  <1>11. Even(B, q) => Even(B, p)
    BY <1>4 DEF Even
  <1> QED
    BY <1>5, <1>7, <1>8, <1>9, <1>10, <1>11 DEF Processes, Numbers, p

\* An outstanding Interest is answered or times out: its answer waits now.
LEMMA AnswerWaits ==
  ASSUME NEW B, NEW q, OnTheWay(B, q), NEW i \in BagToSet(B),
         NEW e \in Jobs, e.do \in {"data", "timeout"}, e.i = i
  PROVE  LET C == B (-) SetToBag({i})
         IN  OnTheWay(C, Append(q, e)) /\ Keeps(B, q, C, Append(q, e))
  <1> DEFINE C == B (-) SetToBag({i})
             p == Append(q, e)
             W == {"data", "timeout"}
  <1>1. /\ IsABag(C)
        /\ BagToSet(C) = IF B[i] = 1 THEN BagToSet(B) \ {i} ELSE BagToSet(B)
        /\ \A j \in BagToSet(C) : C[j] = IF j = i THEN B[i] - 1 ELSE B[j]
        /\ IsFiniteSet(Copies(C))
        /\ Cardinality(Copies(B)) \in Nat
        /\ Cardinality(Copies(C)) = Cardinality(Copies(B)) - 1
    BY TakeCopy DEF OnTheWay
  <1>2. /\ q \in Seq(Jobs) /\ p \in Seq(Jobs) /\ Len(q) \in Nat /\ DOMAIN q = 1..Len(q)
        /\ \A k \in 1..Len(q) : p[k] = q[k]
        /\ p[Len(q) + 1] = e
    BY LenProperties, AppendProperties DEF OnTheWay
  <1>3. /\ Answers(p) = Answers(q) \cup {Len(q) + 1}
        /\ Cardinality(Answers(p)) = Cardinality(Answers(q)) + 1
    <2>1. Answers(p) = Positions(p, W) /\ Answers(q) = Positions(q, W)
      BY DEF Answers, Positions
    <2> QED
      BY <1>2, <2>1, AppendCounts
  <1>4. \A k \in Answers(q) : k \in 1..Len(q) /\ p[k] = q[k] /\ k # Len(q) + 1
    BY <1>2 DEF Answers
  <1>5. \A j \in BagToSet(B) : B[j] \in Nat /\ B[j] > 0
    BY DEF OnTheWay, IsABag, BagToSet
  <1>6. Cardinality(Answers(q)) \in Nat
    BY OnTheWayFacts
  <1> HIDE DEF C, p
  <1>7. OnTheWay(C, p)
    BY <1>1, <1>2, <1>3, <1>4 DEF OnTheWay
  <1>8. Unprocessed(C, p) = Unprocessed(B, q)
    BY <1>1, <1>3, <1>6 DEF Unprocessed
  <1>9. Numbers(C, p) = Numbers(B, q)
    <2>1. {p[k].i.seqno : k \in Answers(p)} = {q[k].i.seqno : k \in Answers(q)} \cup {i.seqno}
      BY <1>2, <1>3, <1>4
    <2>2. {j.seqno : j \in BagToSet(B)} = {j.seqno : j \in BagToSet(C)} \cup {i.seqno}
      BY <1>1
    <2> QED
      BY <2>1, <2>2 DEF Numbers
  <1>10. ASSUME NEW s, Once(B, q, s) PROVE Once(C, p, s)
    <2>1. \A j \in BagToSet(C) : j.seqno = s => j # i
      BY <1>1, <1>10 DEF Once
    <2>2. \A j, l \in BagToSet(C) : j.seqno = s /\ l.seqno = s => j = l /\ C[j] = 1
      BY <1>1, <1>10, <2>1 DEF Once
    <2>3. \A k \in Answers(q) : ~(i.seqno = s /\ p[k].i.seqno = s)
      BY <1>4, <1>10 DEF Once
    <2>4. \A k, l \in Answers(p) : p[k].i.seqno = s /\ p[l].i.seqno = s => k = l
      BY <1>2, <1>3, <1>4, <1>10, <2>3 DEF Once
    <2>5. \A j \in BagToSet(C), k \in Answers(q) : ~(j.seqno = s /\ p[k].i.seqno = s)
      BY <1>1, <1>4, <1>10 DEF Once
    <2>6. \A j \in BagToSet(C) : ~(j.seqno = s /\ i.seqno = s)
      BY <1>1, <1>10, <2>1 DEF Once
    <2> QED
      BY <1>2, <1>3, <2>2, <2>4, <2>5, <2>6 DEF Once
  <1>11. ASSUME Even(B, q) PROVE Even(C, p)
    <2>1. \A k \in Answers(p) : p[k].i.seqno = p[k].i.timeout
      BY <1>2, <1>3, <1>4, <1>11 DEF Even
    <2>2. \A j \in BagToSet(C) : j.seqno = j.timeout
      BY <1>1, <1>11 DEF Even
    <2> QED
      BY <2>1, <2>2 DEF Even
  <1> QED
    BY <1>7, <1>8, <1>9, <1>10, <1>11 DEF Keeps, C, p

\* An Interest is sent.
Sent(B, j) == B (+) SetToBag({j})

\* It is one more on its way, and the others stay what they are.
LEMMA Sends ==
  ASSUME NEW B, NEW q, OnTheWay(B, q), NEW j \in Interests
  PROVE  LET C == Sent(B, j)
         IN  /\ OnTheWay(C, q)
             /\ Numbers(C, q) = Numbers(B, q) \cup {j.seqno}
             /\ Unprocessed(C, q) = Unprocessed(B, q) + 1
             /\ \A s : Once(B, q, s) /\ j.seqno # s => Once(C, q, s)
             /\ \A s : s \notin Numbers(B, q) => Once(C, q, s)
             /\ Even(B, q) /\ j.seqno = j.timeout => Even(C, q)
             /\ C # EmptyBag
  <1> DEFINE C == Sent(B, j)
  <1>0. IsFiniteSet({j}) /\ Cardinality({j}) = 1
    BY FS_Singleton
  <1>1. /\ IsABag(C)
        /\ BagToSet(C) = BagToSet(B) \cup {j}
        /\ \A i \in BagToSet(B) \ {j} : C[i] = B[i]
        /\ \A i \in {j} \ BagToSet(B) : C[i] = 1
        /\ IsFiniteSet(Copies(C))
        /\ Cardinality(Copies(C)) = Cardinality(Copies(B)) + 1
    <2> DEFINE S == {j}
    <2>1. IsABag(B) /\ IsFiniteSet(Copies(B)) /\ IsFiniteSet(S) /\ Cardinality(S) = 1
      BY <1>0 DEF OnTheWay
    <2>2. C = B (+) SetToBag(S)
      BY DEF Sent
    <2> HIDE DEF S, C
    <2>3. /\ IsABag(C)
          /\ BagToSet(C) = BagToSet(B) \cup S
          /\ \A i \in BagToSet(B) \ S : C[i] = B[i]
          /\ \A i \in S \ BagToSet(B) : C[i] = 1
          /\ IsFiniteSet(Copies(C))
          /\ Cardinality(Copies(C)) = Cardinality(Copies(B)) + Cardinality(S)
      BY <2>1, <2>2, PutCopies
    <2> QED
      BY <2>1, <2>3 DEF S
  <1> HIDE DEF C
  <1>2. Cardinality(Copies(B)) \in Nat /\ Cardinality(Answers(q)) \in Nat
    BY OnTheWayFacts
  <1>3. OnTheWay(C, q)
    BY <1>1 DEF OnTheWay
  <1>4. Numbers(C, q) = Numbers(B, q) \cup {j.seqno}
    BY <1>1 DEF Numbers
  <1>5. Unprocessed(C, q) = Unprocessed(B, q) + 1
    BY <1>1, <1>2 DEF Unprocessed
  <1>6. ASSUME NEW s, Once(B, q, s), j.seqno # s PROVE Once(C, q, s)
    BY <1>1, <1>6 DEF Once
  <1>7. ASSUME NEW s, s \notin Numbers(B, q) PROVE Once(C, q, s)
    <2>1. /\ \A i \in BagToSet(B) : i.seqno # s
          /\ \A k \in Answers(q) : q[k].i.seqno # s
      BY <1>7 DEF Numbers
    <2> QED
      BY <1>1, <2>1 DEF Once
  <1>8. Even(B, q) /\ j.seqno = j.timeout => Even(C, q)
    BY <1>1 DEF Even
  <1>9. C # EmptyBag
    BY <1>1 DEF EmptyBag, SetToBag, BagToSet
  <1> QED
    BY <1>3, <1>4, <1>5, <1>6, <1>7, <1>8, <1>9 DEF C

\* Nothing is on its way when nothing is unprocessed.
LEMMA NothingUnprocessed ==
  ASSUME NEW B, NEW q, OnTheWay(B, q)
  PROVE  /\ Unprocessed(B, q) = 0 => Numbers(B, q) = {}
         /\ Numbers(B, q) = {} => B = EmptyBag /\ Answers(q) = {}
  <1>1. ASSUME Unprocessed(B, q) = 0 PROVE Numbers(B, q) = {}
    <2>1. Cardinality(Copies(B)) = 0 /\ Cardinality(Answers(q)) = 0
      BY <1>1, OnTheWayFacts DEF Unprocessed
    <2>2. IsFiniteSet(Answers(q))
      BY OnTheWayFacts, PositionsFinite DEF OnTheWay
    <2>3. Copies(B) = {} /\ Answers(q) = {}
      BY <2>1, <2>2, FS_EmptySet DEF OnTheWay
    <2>4. \A i \in BagToSet(B) : <<i, B[i]>> \in Copies(B)
      BY DEF OnTheWay, IsABag, BagToSet, Copies
    <2> QED
      BY <2>3, <2>4 DEF Numbers
  <1>2. ASSUME Numbers(B, q) = {} PROVE B = EmptyBag /\ Answers(q) = {}
    <2>1. BagToSet(B) = {} /\ Answers(q) = {}
      BY <1>2 DEF Numbers
    <2>2. B = [e \in DOMAIN B |-> B[e]]
      BY DEF OnTheWay, IsABag
    <2> QED
      BY <2>1, <2>2 DEF EmptyBag, SetToBag, BagToSet
  <1> QED
    BY <1>1, <1>2

-----------------------------------------------------------------------------
(* The loops of the handlers. *)

\* The loop of OnData_Execute ends behind the last number that follows in order.
LEMMA InOrderEnds ==
  ASSUME m_maxInOrderRecvSeqNo \in Int, NEW T \in SUBSET Int, IsFiniteSet(T)
  PROVE  LET last == InOrder(T)
         IN  /\ last \in Int /\ last >= m_maxInOrderRecvSeqNo
             /\ (m_maxInOrderRecvSeqNo + 1)..last \subseteq T
             /\ last + 1 \notin T
  <1> DEFINE m == m_maxInOrderRecvSeqNo
             c == Cardinality(T)
             Missing == {k \in Int : k >= m + 1 /\ k \notin T}
  <1>1. c \in Nat
    BY FS_CardinalityType
  <1>2. Missing # {}
    <2> SUFFICES ASSUME Missing = {} PROVE FALSE
      OBVIOUS
    <2>1. (m + 1)..(m + 1 + c) \subseteq T
      OBVIOUS
    <2>2. Cardinality((m + 1)..(m + 1 + c)) = c + 1
      <3>1. m + 1 \in Int /\ m + 1 + c \in Int /\ m + 1 <= m + 1 + c
        BY <1>1
      <3> QED
        BY <1>1, <3>1, FS_Interval
    <2>3. Cardinality((m + 1)..(m + 1 + c)) <= c
      BY <2>1, FS_Subset
    <2> HIDE DEF c
    <2> QED
      BY <1>1, <2>2, <2>3
  <1>3. PICK f \in Missing : \A k \in Missing : f <= k
    <2>1. m + 1 \in Int /\ \A k \in Missing : k \in Int /\ k >= m + 1
      OBVIOUS
    <2> HIDE DEF Missing
    <2> QED
      BY <1>2, <2>1, LeastInteger
  <1>4. (m + 1)..(f - 1) \subseteq T
    BY <1>3
  <1>5. f - 1 \in m..(m + c)
    <2>1. Cardinality((m + 1)..(f - 1)) <= c
      BY <1>4, FS_Subset
    <2>2. CASE f - 1 > m
      <3>1. Cardinality((m + 1)..(f - 1)) = (f - 1) - (m + 1) + 1
        BY <2>2, FS_Interval
      <3> HIDE DEF c
      <3> QED
        BY <1>1, <2>1, <2>2, <3>1
    <2>3. CASE f - 1 <= m
      BY <1>1, <2>3
    <2> QED
      BY <2>2, <2>3
  <1>6. \E n \in m..(m + c) : (m + 1)..n \subseteq T /\ n + 1 \notin T
    <2> WITNESS f - 1 \in m..(m + c)
    <2> QED
      BY <1>4
  <1>7. InOrder(T) \in m..(m + c) /\ (m + 1)..InOrder(T) \subseteq T /\ InOrder(T) + 1 \notin T
    BY <1>6 DEF InOrder
  <1> HIDE DEF c
  <1> QED
    BY <1>1, <1>7

\* The jobs of a kind in a queue, and how the handlers change their number.
Count(q, what) == Cardinality(Positions(q, {what}))

\* The number of queued jobs of a kind, before and after a step.
LEMMA QueuedCounts ==
  ASSUME NEW what
  PROVE  Queued(what) = Count(jobs, what) /\ Queued(what)' = Count(jobs', what)
  <1>1. Positions(jobs, {what}) = {k \in DOMAIN jobs : jobs[k].do = what}
    BY DEF Positions
  <1>2. Positions(jobs', {what}) = {k \in DOMAIN jobs' : jobs'[k].do = what}
    BY DEF Positions
  <1> QED
    BY <1>1, <1>2 DEF Queued, Count

\* Of a job that is appended, ...
LEMMA CountAppend ==
  ASSUME NEW q \in Seq(Jobs), NEW e \in Jobs, NEW what
  PROVE  /\ Append(q, e) \in Seq(Jobs) /\ Count(q, what) \in Nat
         /\ Count(Append(q, e), what) = Count(q, what) + (IF e.do = what THEN 1 ELSE 0)
  <1>1. Cardinality(Positions(Append(q, e), {what})) =
          Cardinality(Positions(q, {what})) + (IF e.do \in {what} THEN 1 ELSE 0)
    BY AppendCounts
  <1>2. Append(q, e) \in Seq(Jobs) /\ Cardinality(Positions(q, {what})) \in Nat
    BY AppendProperties, PositionsFinite
  <1> QED
    BY <1>1, <1>2 DEF Count

\* ... of one that is taken from the front ...
LEMMA CountTail ==
  ASSUME NEW q \in Seq(Jobs), q # <<>>, NEW what
  PROVE  /\ Tail(q) \in Seq(Jobs) /\ Count(q, what) \in Nat
         /\ Count(Tail(q), what) = Count(q, what) - (IF Head(q).do = what THEN 1 ELSE 0)
  <1>1. Cardinality(Positions(q, {what})) =
          Cardinality(Positions(Tail(q), {what})) + (IF Head(q).do \in {what} THEN 1 ELSE 0)
    BY TailCounts
  <1>2. Tail(q) \in Seq(Jobs)
    BY HeadTailProperties
  <1>3. Cardinality(Positions(q, {what})) \in Nat /\ Cardinality(Positions(Tail(q), {what})) \in Nat
    BY <1>2, PositionsFinite
  <1> QED
    BY <1>1, <1>2, <1>3 DEF Count

\* ... and of one that is replaced.
LEMMA CountReplace ==
  ASSUME NEW q \in Seq(Jobs), q # <<>>, NEW e \in Jobs, NEW what
  PROVE  Count(FirstReplaced(q, e), what) = Count(q, what)
            - (IF Head(q).do = what THEN 1 ELSE 0) + (IF e.do = what THEN 1 ELSE 0)
  <1>1. Cardinality(Positions(FirstReplaced(q, e), {what})) =
          Cardinality(Positions(q, {what})) - (IF Head(q).do \in {what} THEN 1 ELSE 0)
                                            + (IF e.do \in {what} THEN 1 ELSE 0)
    BY ReplaceCounts
  <1> QED
    BY <1>1 DEF Count

\* Nothing is on its way at first.
LEMMA InitIInv == Init => IInv
  <1> USE RangeAssumption, PipelineAssumption, BoundsAssumption
  <1> SUFFICES ASSUME Init PROVE IInv
    OBVIOUS
  <1>1. Flags /\ Numerals
    <2>1. /\ reexpressed \in 0..MaxReexpress /\ restarts \in 0..MaxRestart
          /\ owed \in Int /\ finished \in Nat
      BY DEF Init
    <2>2. Flags
      BY <2>1, Zenon DEF Init, Flags
    <2>4. 0 \in 0..m_pipeline /\ IsFiniteSet({})
      BY FS_EmptySet
    <2>5. Numerals
      BY <2>4 DEF Init, Numerals
    <2> QED
      BY <2>2, <2>5
  <1>2. /\ BagToSet(pending) = {} /\ Copies(pending) = {} /\ IsABag(pending)
        /\ Answers(jobs) = {} /\ jobs \in Seq(Jobs) /\ Numbers(pending, jobs) = {}
    BY DEF Init, EmptyBag, SetToBag, BagToSet, IsABag, Copies, Answers, Numbers
  <1>3. OnTheWay(pending, jobs)
    BY <1>2, FS_EmptySet DEF OnTheWay
  <1>4. PipelineAccounting /\ Cardinality(m_inActivePipeline) = 0
    BY <1>2, FS_EmptySet DEF Init, PipelineAccounting
  <1>11. FillAt /\ Taken = {}
    BY DEF Init, FillAt, AtTest, Taken
  <1>5. Untorn
    <2>1. ExactOnTheWay
      BY <1>2, <1>4, <1>11, FS_EmptySet DEF Init, ExactOnTheWay, Once
    <2>2. Even(pending, jobs) /\ OneTurn
      BY <1>2 DEF Init, Even, OneTurn, AtTest
    <2> QED
      BY <2>1, <2>2 DEF Untorn
  <1>6. NothingSkipped
    BY DEF Init, NothingSkipped
  <1>7. \A w : Queued(w) = 0
    BY FS_EmptySet DEF Init, Queued
  <1>8. FirstLost(m_maxSeqNo + 1) /\ TakenFits(m_maxSeqNo + 1)
    BY <1>2, <1>11 DEF Init, FirstLost, TakenFits
  <1>9. Needed
    BY <1>2, <1>7, <1>8 DEF Init, Needed, OneAttempt, NothingOnTheWay
  <1>10. CompleteWaits
    BY <1>7 DEF Init, CompleteWaits
  <1> QED
    BY <1>1, <1>3, <1>4, <1>5, <1>6, <1>9, <1>10, <1>11 DEF IInv

\* The job at the front stays there when others are appended.
LEMMA FrontStays ==
  ASSUME NEW S, NEW q \in Seq(S), q # <<>>, NEW e \in S
  PROVE  Append(q, e) # <<>> /\ Head(Append(q, e)) = Head(q)
  <1>1. /\ Len(q) \in Nat /\ Len(q) > 0 /\ Append(q, e) \in Seq(S)
        /\ Len(Append(q, e)) = Len(q) + 1 /\ Append(q, e)[1] = q[1]
    BY LenProperties, AppendProperties, EmptySeq
  <1> QED
    BY <1>1, LenProperties, HeadTailProperties, EmptySeq

\* A step that processes no answer and sends nothing.
LEMMA QuietStep ==
  ASSUME IInv, OnTheWay(pending', jobs'), Keeps(pending, jobs, pending', jobs'),
         UNCHANGED <<m_maxInOrderRecvSeqNo, m_outOfOrderRecvSeqNo, m_inActivePipeline,
                     m_activePipeline, reexpressed, stray, delivered, fill, torn>>,
         fill.pc # "test" => Job("fill")',
         m_active => m_active',
         m_minSendSeqNo' \in {m_minSendSeqNo, m_maxInOrderRecvSeqNo},
         finished' + Queued("finish")' = finished + Queued("finish")
  PROVE  /\ Numerals' /\ FillAt' /\ PipelineAccounting' /\ Untorn'
         /\ NothingSkipped' /\ Needed'
  <1>1. Numerals' /\ FillAt'
    BY DEF IInv, Numerals, FillAt
  <1>2. PipelineAccounting'
    BY DEF IInv, PipelineAccounting, Keeps, Unprocessed
  <1>8. Taken' = Taken
    BY DEF Taken
  <1>3. Untorn'
    <2> SUFFICES ASSUME ~torn PROVE (Even(pending, jobs) /\ OneTurn /\ ExactOnTheWay)'
      BY DEF Untorn
    <2>1. Even(pending, jobs) /\ OneTurn /\ ExactOnTheWay
      BY DEF IInv, Untorn
    <2>2. ExactOnTheWay'
      BY <1>8, <2>1 DEF ExactOnTheWay, Keeps
    <2>3. OneTurn'
      BY <2>1 DEF OneTurn
    <2> QED
      BY <2>1, <2>2, <2>3 DEF Keeps
  <1>4. NothingSkipped'
    BY DEF IInv, NothingSkipped
  <1>5. \A b : FirstLost(b) /\ TakenFits(b) => FirstLost(b)' /\ TakenFits(b)'
    BY <1>8 DEF FirstLost, TakenFits, Keeps
  <1>6. NothingOnTheWay => NothingOnTheWay'
    BY DEF NothingOnTheWay, Keeps
  <1>7. Needed'
    <2>1. Needed
      BY DEF IInv
    <2> QED
      BY <1>5, <1>6, <2>1 DEF Needed, OneAttempt
  <1> QED
    BY <1>1, <1>2, <1>3, <1>4, <1>7

\* RestartPipeline keeps the inductive invariant.
LEMMA RestartPreserves == IInv /\ RestartPipeline => IInv'
  <1> USE BoundsAssumption
  <1> SUFFICES ASSUME IInv, RestartPipeline PROVE IInv'
    OBVIOUS
  <1>1. OnTheWay(pending, jobs)
    BY DEF IInv
  <1>2. FillJob \in Jobs /\ FillJob.do = "fill"
    BY DEF FillJob, Jobs
  <1>3. /\ OnTheWay(pending', jobs')
        /\ Keeps(pending, jobs, pending', jobs')
    BY <1>1, <1>2, AppendOther DEF RestartPipeline
  <1>4. \A w \in {"finish", "complete"} : Queued(w)' = Queued(w)
    <2>1. jobs \in Seq(Jobs) /\ jobs' = Append(jobs, FillJob)
      BY <1>1 DEF OnTheWay, RestartPipeline
    <2> QED
      BY <1>2, <2>1, CountAppend, QueuedCounts
  <1>5. Flags'
    <2>1. Flags
      BY DEF IInv
    <2>2. restarts' \in 0..MaxRestart /\ owed' \in Int
      BY <2>1 DEF Flags, RestartPipeline
    <2> QED
      BY <2>1, <2>2 DEF Flags, RestartPipeline
  <1>8. fill.pc # "test" => Job("fill")'
    <2>1. jobs \in Seq(Jobs) /\ jobs' = Append(jobs, FillJob) /\ FillAt
      BY <1>1 DEF IInv, OnTheWay, RestartPipeline
    <2> QED
      BY <1>2, <2>1, FrontStays DEF FillAt, Job
  <1>6. /\ Numerals' /\ FillAt' /\ PipelineAccounting' /\ Untorn'
        /\ NothingSkipped' /\ Needed'
    BY <1>3, <1>4, <1>8, QuietStep DEF RestartPipeline, fillVars
  <1>7. CompleteWaits'
    BY <1>4 DEF IInv, CompleteWaits, RestartPipeline
  <1> QED
    BY <1>3, <1>5, <1>6, <1>7 DEF IInv

\* OnData and OnTimeout queue the answer of an outstanding Interest.
LEMMA NetworkPreserves ==
  IInv /\ (\E i \in BagToSet(pending) : OnData(i) \/ OnTimeout(i)) => IInv'
  <1> SUFFICES ASSUME IInv, NEW i \in BagToSet(pending), OnData(i) \/ OnTimeout(i)
               PROVE  IInv'
    OBVIOUS
  <1> DEFINE e == IF OnData(i) THEN DataJob(i) ELSE TimeoutJob(i)
  <1>1. OnTheWay(pending, jobs) /\ jobs \in Seq(Jobs)
    BY DEF IInv, OnTheWay
  <1>2. e \in Jobs /\ e.do \in {"data", "timeout"} /\ e.i = i
    <2>1. i \in Interests
      BY <1>1 DEF OnTheWay
    <2> QED
      BY <2>1 DEF DataJob, TimeoutJob, Jobs
  <1>3. /\ pending' = pending (-) SetToBag({i}) /\ jobs' = Append(jobs, e)
        /\ UNCHANGED <<m_active, m_timedwait, seqVars, reexpressed, restarts,
                       noActivity, delivered, finished, owed, stray, fill, torn>>
        /\ lost' \in {lost, TRUE}
    BY DEF OnData, OnTimeout, fillVars
  <1> HIDE DEF e
  <1>4. /\ OnTheWay(pending', jobs')
        /\ Keeps(pending, jobs, pending', jobs')
    BY <1>1, <1>2, <1>3, AnswerWaits
  <1>5. \A w \in {"finish", "complete"} : Queued(w)' = Queued(w)
    BY <1>1, <1>2, <1>3, CountAppend, QueuedCounts
  <1>6. Flags'
    BY <1>3 DEF IInv, Flags
  <1>7. /\ Numerals' /\ FillAt' /\ PipelineAccounting' /\ Untorn'
        /\ NothingSkipped' /\ Needed'
    <2>1. fill.pc # "test" => Job("fill")'
      BY <1>1, <1>2, <1>3, FrontStays DEF IInv, FillAt, Job
    <2> QED
      BY <1>3, <1>4, <1>5, <2>1, QuietStep DEF seqVars
  <1>8. CompleteWaits'
    BY <1>3, <1>5 DEF IInv, CompleteWaits
  <1> QED
    BY <1>4, <1>6, <1>7, <1>8 DEF IInv

\* The clock.
LEMMA PeriodPreserves == IInv /\ PeriodPasses => IInv'
  <1> SUFFICES ASSUME IInv, PeriodPasses PROVE IInv'
    OBVIOUS
  <1>1. /\ OnTheWay(pending', jobs')
        /\ Keeps(pending, jobs, pending', jobs')
    BY DEF IInv, PeriodPasses, Keeps
  <1>2. \A w : Queued(w)' = Queued(w)
    BY QueuedCounts DEF PeriodPasses
  <1>3. Flags'
    BY DEF IInv, Flags, PeriodPasses
  <1>4. /\ Numerals' /\ FillAt' /\ PipelineAccounting' /\ Untorn'
        /\ NothingSkipped' /\ Needed'
    <2>1. fill.pc # "test" => Job("fill")'
      BY DEF IInv, FillAt, Job, PeriodPasses
    <2> QED
      BY <1>1, <1>2, <2>1, QuietStep DEF PeriodPasses, seqVars, fillVars
  <1>5. CompleteWaits'
    BY <1>2 DEF IInv, CompleteWaits, PeriodPasses
  <1> QED
    BY <1>1, <1>3, <1>4, <1>5 DEF IInv

\* The finish callback; what tells the manager waits behind it.
LEMMA FinishPreserves == IInv /\ FinishFetch => IInv'
  <1> SUFFICES ASSUME IInv, FinishFetch PROVE IInv'
    OBVIOUS
  <1>1. OnTheWay(pending, jobs) /\ jobs \in Seq(Jobs)
    BY DEF IInv, OnTheWay
  <1>2. /\ jobs # <<>> /\ Head(jobs).do = "finish"
        /\ jobs' = Append(Tail(jobs), CompleteJob)
        /\ CompleteJob \in Jobs /\ CompleteJob.do = "complete"
    BY DEF FinishFetch, Job, CompleteJob, Jobs
  <1>3. /\ OnTheWay(pending, Tail(jobs))
        /\ Keeps(pending, jobs, pending, Tail(jobs))
    BY <1>1, <1>2, TakeFirst
  <1>4. /\ OnTheWay(pending, jobs')
        /\ Keeps(pending, Tail(jobs), pending, jobs')
    BY <1>2, <1>3, AppendOther
  <1>5. /\ OnTheWay(pending', jobs')
        /\ Keeps(pending, jobs, pending', jobs')
    BY <1>3, <1>4 DEF FinishFetch, Keeps
  <1>6. Queued("finish")' = Queued("finish") - 1 /\ Queued("finish") \in Nat
    <2>1. /\ Tail(jobs) \in Seq(Jobs) /\ Count(jobs, "finish") \in Nat
          /\ Count(Tail(jobs), "finish") = Count(jobs, "finish") - 1
      BY <1>1, <1>2, CountTail
    <2>2. Count(jobs', "finish") = Count(Tail(jobs), "finish") + 0
      BY <1>2, <2>1, CountAppend
    <2> QED
      BY <2>1, <2>2, QueuedCounts
  <1>7. Flags'
    <2>1. finished \in Nat /\ finished' = finished + 1 /\ m_timedwait' = TRUE
      BY DEF IInv, Flags, FinishFetch
    <2>2. finished' \in Nat
      BY <2>1
    <2> QED
      BY <2>1, <2>2 DEF IInv, Flags, FinishFetch
  <1>8. finished' + Queued("finish")' = finished + Queued("finish")
    <2>1. finished \in Nat /\ finished' = finished + 1
      BY DEF IInv, Flags, FinishFetch
    <2> QED
      BY <1>6, <2>1
  <1>9. /\ Numerals' /\ FillAt' /\ PipelineAccounting' /\ Untorn'
        /\ NothingSkipped' /\ Needed'
    <2>1. fill.pc = "test"
      BY <1>2 DEF IInv, FillAt, Job
    <2> QED
      BY <1>5, <1>8, <2>1, QuietStep DEF FinishFetch, seqVars, fillVars
  <1>10. CompleteWaits'
    <2>1. finished \in Nat /\ finished' = finished + 1 /\ m_timedwait' = TRUE
      BY DEF IInv, Flags, FinishFetch
    <2>2. finished' > 0
      BY <2>1
    <2> QED
      BY <2>1, <2>2 DEF CompleteWaits
  <1> QED
    BY <1>5, <1>7, <1>9, <1>10 DEF IInv

\* The manager is told.
LEMMA CompletePreserves == IInv /\ OnFetchComplete => IInv'
  <1> SUFFICES ASSUME IInv, OnFetchComplete PROVE IInv'
    OBVIOUS
  <1>1. OnTheWay(pending, jobs) /\ jobs \in Seq(Jobs)
    BY DEF IInv, OnTheWay
  <1>2. jobs # <<>> /\ Head(jobs).do = "complete" /\ jobs' = Tail(jobs)
    BY DEF OnFetchComplete, Job
  <1>3. /\ OnTheWay(pending', jobs')
        /\ Keeps(pending, jobs, pending', jobs')
    BY <1>1, <1>2, TakeFirst DEF OnFetchComplete
  <1>4. /\ Queued("finish")' = Queued("finish")
        /\ Queued("complete")' = Queued("complete") - 1 /\ Queued("complete") \in Nat
    BY <1>1, <1>2, CountTail, QueuedCounts
  <1>5. Flags'
    <2>1. owed' \in Int
      BY DEF IInv, Flags, OnFetchComplete
    <2> QED
      BY <2>1 DEF IInv, Flags, OnFetchComplete
  <1>6. /\ Numerals' /\ FillAt' /\ PipelineAccounting' /\ Untorn'
        /\ NothingSkipped' /\ Needed'
    <2>1. fill.pc = "test"
      BY <1>2 DEF IInv, FillAt, Job
    <2> QED
      BY <1>3, <1>4, <2>1, QuietStep DEF OnFetchComplete, seqVars, fillVars
  <1>7. CompleteWaits'
    BY <1>4 DEF IInv, CompleteWaits, OnFetchComplete
  <1> QED
    BY <1>3, <1>5, <1>6, <1>7 DEF IInv

\* The answer at the front of the queue, whose number is on its way.
LEMMA AnswerAtFront ==
  ASSUME IInv, jobs # <<>>, Head(jobs).do \in {"data", "timeout"}
  PROVE  LET i == Head(jobs).i
         IN  /\ i \in Interests /\ fill.pc = "test"
             /\ i.seqno \in Numbers(pending, jobs)
             /\ ~torn => /\ i.timeout = i.seqno
                         /\ reexpressed = 0 => /\ i.seqno \in m_inActivePipeline
                                               /\ Once(pending, jobs, i.seqno)
                         /\ \A b : FirstLost(b) => i.seqno # b
             /\ ~stray /\ ~torn => /\ m_active /\ m_maxInOrderRecvSeqNo # m_maxSeqNo
                                   /\ finished + Queued("finish") = 0
  <1> USE RangeAssumption, BoundsAssumption
  <1> DEFINE i == Head(jobs).i
  <1>1. OnTheWay(pending, jobs) /\ jobs \in Seq(Jobs)
    BY DEF IInv, OnTheWay
  <1>2. 1 \in DOMAIN jobs /\ Head(jobs) = jobs[1]
    BY <1>1, LenProperties, HeadTailProperties, EmptySeq
  <1>3. 1 \in Answers(jobs)
    BY <1>2 DEF Answers
  <1>4. i \in Interests /\ fill.pc = "test"
    <2>1. i \in Interests
      BY <1>1, <1>2, <1>3, OnTheWayFacts
    <2>2. fill.pc = "test"
      BY DEF IInv, FillAt, Job
    <2> QED
      BY <2>1, <2>2
  <1>5. i.seqno \in Numbers(pending, jobs)
    BY <1>2, <1>3 DEF Numbers
  <1>6. ASSUME ~torn, reexpressed = 0
        PROVE  i.seqno \in m_inActivePipeline /\ Once(pending, jobs, i.seqno)
    <2>0. ExactOnTheWay /\ OneTurn
      BY <1>6 DEF IInv, Untorn
    <2>1. i.seqno \in m_inActivePipeline
      BY <1>5, <1>6, <2>0 DEF ExactOnTheWay
    <2>2. i.seqno \in Segments
      BY <2>0, <2>1 DEF OneTurn
    <2> QED
      BY <1>6, <2>0, <2>1, <2>2 DEF ExactOnTheWay
  <1>7. ASSUME ~stray, ~torn
        PROVE  /\ m_active /\ m_maxInOrderRecvSeqNo # m_maxSeqNo
               /\ finished + Queued("finish") = 0
    BY <1>5, <1>7 DEF IInv, Needed, OneAttempt, NothingOnTheWay
  <1>8. ASSUME ~torn, NEW b, FirstLost(b) PROVE i.seqno # b
    <2>1. CASE reexpressed = 0 /\ b = m_maxSeqNo + 1
      <3>1. i.seqno \in Segments
        BY <1>6, <1>8, <2>1 DEF IInv, Untorn, OneTurn
      <3> QED
        BY <2>1, <3>1 DEF Segments
    <2>2. CASE b \notin Numbers(pending, jobs)
      BY <1>5, <2>2
    <2> QED
      BY <1>8, <2>1, <2>2 DEF FirstLost
  <1>10. ~torn => i.timeout = i.seqno
    BY <1>2, <1>3 DEF IInv, Untorn, Even
  <1> HIDE DEF i
  <1>9. QED
    BY <1>4, <1>5, <1>6, <1>7, <1>8, <1>10 DEF i

\* The answer at the front is processed.
LEMMA ProcessStep ==
  ASSUME IInv, jobs # <<>>, Head(jobs).do \in {"data", "timeout"},
         Processes(pending, jobs, pending', jobs', Head(jobs).i.seqno),
         OnTheWay(pending', jobs'),
         NEW x, ~torn => x = Head(jobs).i.seqno,
         m_inActivePipeline' = m_inActivePipeline \ {x},
         m_activePipeline' = m_activePipeline - 1,
         UNCHANGED <<reexpressed, stray, torn, fill>>,
         m_maxInOrderRecvSeqNo' \in Int, m_maxInOrderRecvSeqNo' >= m_maxInOrderRecvSeqNo,
         (m_maxInOrderRecvSeqNo + 1)..m_maxInOrderRecvSeqNo'
            \subseteq m_outOfOrderRecvSeqNo \cup {Head(jobs).i.seqno},
         m_outOfOrderRecvSeqNo' \subseteq m_outOfOrderRecvSeqNo \cup {Head(jobs).i.seqno}
  PROVE  /\ PipelineAccounting' /\ Untorn' /\ FillAt'
         /\ m_activePipeline' \in 0..m_pipeline /\ m_inActivePipeline' \subseteq Number
         /\ ~stray /\ ~torn =>
               \E b \in Number \cup {m_maxSeqNo + 1} : FirstLost(b)' /\ TakenFits(b)'
         /\ ~stray /\ ~torn /\ m_maxInOrderRecvSeqNo' = m_maxSeqNo => NothingOnTheWay'
         /\ m_activePipeline' = 0 => NothingOnTheWay'
  <1> USE RangeAssumption, BoundsAssumption, PipelineAssumption
  <1> DEFINE t == Head(jobs).i.seqno
             m == m_maxInOrderRecvSeqNo
             received == m_outOfOrderRecvSeqNo \cup {t}
  <1>1. /\ OnTheWay(pending, jobs)
        /\ m_inActivePipeline \subseteq Number
        /\ m_activePipeline \in 0..m_pipeline /\ m_pipeline \in Nat
        /\ m \in Int /\ m_maxSeqNo \in Int
    BY DEF IInv, Numerals, Number
  <1>2. /\ Head(jobs).i \in Interests /\ t \in Int /\ t \in Numbers(pending, jobs)
        /\ fill.pc = "test" /\ fill'.pc = "test"
    <2>1. Head(jobs).i \in Interests /\ t \in Numbers(pending, jobs) /\ fill.pc = "test"
      BY AnswerAtFront
    <2> QED
      BY <2>1 DEF Interests, Number
  <1>11. Taken = {} /\ Taken' = {}
    BY <1>2 DEF Taken
  <1>12. FillAt'
    BY <1>2 DEF IInv, FillAt
  <1>3. PipelineAccounting'
    BY DEF IInv, PipelineAccounting, Processes, Unprocessed
  <1>4. m_activePipeline' = Unprocessed(pending', jobs') /\ Unprocessed(pending', jobs') \in Nat
    BY <1>3, OnTheWayFacts DEF PipelineAccounting, Unprocessed
  <1>5. m_activePipeline' \in 0..m_pipeline
    BY <1>1, <1>4
  <1>6. m_activePipeline' = 0 => NothingOnTheWay'
    BY <1>4, NothingUnprocessed DEF NothingOnTheWay
  <1>13. ASSUME ~torn PROVE /\ m_inActivePipeline \subseteq Segments /\ x = t
                            /\ m_inActivePipeline' = m_inActivePipeline \ {t}
                            /\ Even(pending, jobs) /\ ExactOnTheWay
    BY <1>13 DEF IInv, Untorn, OneTurn
  <1>7. ASSUME ~torn PROVE ExactOnTheWay'
    <2> SUFFICES ASSUME reexpressed = 0
                 PROVE  /\ m_inActivePipeline' = Numbers(pending', jobs')
                        /\ Cardinality(m_inActivePipeline') = m_activePipeline'
                        /\ \A s \in Segments : Once(pending', jobs', s)
      <3>1. Cardinality({}) = 0
        BY FS_EmptySet
      <3>2. m_activePipeline' \in Int
        BY <1>5
      <3> QED
        BY <1>11, <3>1, <3>2 DEF ExactOnTheWay
    <2>1. /\ m_inActivePipeline = Numbers(pending, jobs)
          /\ Cardinality(m_inActivePipeline) = m_activePipeline
          /\ \A s \in Segments : Once(pending, jobs, s)
      BY <1>1, <1>7, <1>11, <1>13, FS_EmptySet DEF ExactOnTheWay
    <2>2. t \notin Numbers(pending', jobs')
      BY <1>7, AnswerAtFront DEF Processes
    <2>3. m_inActivePipeline' = Numbers(pending', jobs')
      BY <1>7, <1>13, <2>1, <2>2 DEF Processes
    <2>4. IsFiniteSet(m_inActivePipeline)
      <3>1. m_inActivePipeline \subseteq m_minSeqNo..m_maxSeqNo
        BY <1>7, <1>13 DEF Segments
      <3>2. m_minSeqNo \in Int /\ m_maxSeqNo \in Int
        OBVIOUS
      <3> QED
        BY ONLY <3>1, <3>2, BoundedIsFinite
    <2>5. Cardinality(m_inActivePipeline') = m_activePipeline'
      <3>1. t \in m_inActivePipeline
        BY <1>2, <2>1
      <3> HIDE DEF t
      <3>2. Cardinality(m_inActivePipeline \ {t}) = Cardinality(m_inActivePipeline) - 1
        BY ONLY <2>4, <3>1, FS_RemoveElement
      <3> QED
        BY <1>7, <1>13, <2>1, <3>2
    <2> QED
      BY <2>1, <2>3, <2>5 DEF Processes
  <1>14. Untorn'
    <2> SUFFICES ASSUME ~torn PROVE (Even(pending, jobs) /\ OneTurn /\ ExactOnTheWay)'
      BY DEF Untorn
    <2>1. OneTurn'
      BY <1>2, <1>13 DEF OneTurn
    <2> QED
      BY <1>7, <1>13, <2>1 DEF Processes
  <1>8. ASSUME ~torn, NEW b \in Int, FirstLost(b) PROVE FirstLost(b)'
    <2>1. t # b
      BY <1>8, AnswerAtFront
    <2>2. \/ reexpressed' = 0 /\ b = m_maxSeqNo + 1
          \/ /\ b \in m_inActivePipeline' /\ b > m_maxInOrderRecvSeqNo'
             /\ b \notin m_outOfOrderRecvSeqNo' /\ b \notin Numbers(pending', jobs')
      <3>1. CASE reexpressed = 0 /\ b = m_maxSeqNo + 1
        BY <3>1
      <3>2. CASE /\ b \in m_inActivePipeline /\ b > m
                 /\ b \notin m_outOfOrderRecvSeqNo /\ b \notin Numbers(pending, jobs)
        <4>1. b \notin received
          BY <2>1, <3>2
        <4>2. b > m_maxInOrderRecvSeqNo'
          BY <1>1, <3>2, <4>1
        <4>3. b \notin Numbers(pending', jobs')
          BY <3>2 DEF Processes
        <4>4. b \in m_inActivePipeline'
          BY <1>8, <1>13, <2>1, <3>2
        <4> QED
          BY <4>1, <4>2, <4>3, <4>4
      <3> QED
        BY <1>8, <3>1, <3>2 DEF FirstLost
    <2>3. ASSUME NEW s \in Numbers(pending', jobs'), s < b
          PROVE  /\ Once(pending', jobs', s) /\ s \in m_inActivePipeline'
                 /\ s \notin m_outOfOrderRecvSeqNo' /\ s > m_maxInOrderRecvSeqNo'
      <3>1. s \in Numbers(pending, jobs)
        BY DEF Processes
      <3>2. /\ Once(pending, jobs, s) /\ s \in m_inActivePipeline
            /\ s \notin m_outOfOrderRecvSeqNo /\ s > m
        BY <1>8, <2>3, <3>1 DEF FirstLost
      <3>3. s # t
        BY <2>3, <3>2 DEF Processes
      <3>4. s \notin received /\ s \in Int
        BY <1>1, <3>2, <3>3 DEF Number
      <3>5. s > m_maxInOrderRecvSeqNo'
        BY <1>1, <3>2, <3>4
      <3>6. s \in m_inActivePipeline'
        BY <1>8, <1>13, <3>2, <3>3
      <3> QED
        BY <3>2, <3>4, <3>5, <3>6 DEF Processes
    <2> QED
      BY <2>2, <2>3 DEF FirstLost
  <1>9. ASSUME ~stray, ~torn
        PROVE  \E b \in Number \cup {m_maxSeqNo + 1} : FirstLost(b)' /\ TakenFits(b)'
    <2>1. PICK b \in Number \cup {m_maxSeqNo + 1} : FirstLost(b)
      BY <1>9 DEF IInv, Needed, OneAttempt
    <2>2. b \in Int
      BY DEF Number
    <2>3. TakenFits(b)'
      BY <1>11 DEF TakenFits
    <2> QED
      BY <1>8, <1>9, <2>1, <2>2, <2>3
  <1>10. ASSUME ~stray, ~torn, m_maxInOrderRecvSeqNo' = m_maxSeqNo PROVE NothingOnTheWay'
    <2>1. PICK b \in Number \cup {m_maxSeqNo + 1} : FirstLost(b)'
      BY <1>9, <1>10
    <2>2. reexpressed' = 0 /\ b = m_maxSeqNo + 1
      <3>0. m_inActivePipeline' \subseteq Segments
        BY <1>10, <1>13
      <3>1. \A k \in m_inActivePipeline' : k \in Int /\ k <= m_maxSeqNo
        BY <3>0 DEF Segments
      <3>2. b \in Int
        BY DEF Number
      <3> QED
        BY <1>1, <1>10, <2>1, <3>1, <3>2 DEF FirstLost
    <2>3. ASSUME NEW s \in Numbers(pending', jobs') PROVE FALSE
      <3>1. s \in m_inActivePipeline'
        BY <1>7, <1>10, <2>2, <2>3 DEF ExactOnTheWay
      <3>2. s \in Int /\ s <= m_maxSeqNo
        BY <1>10, <1>13, <3>1 DEF Segments
      <3>3. s < b
        BY <1>1, <2>2, <3>2
      <3>4. s > m_maxInOrderRecvSeqNo'
        BY <2>1, <2>3, <3>3 DEF FirstLost
      <3> QED
        BY <1>1, <1>10, <3>2, <3>4
    <2> QED
      BY <2>3 DEF NothingOnTheWay
  <1> QED
    BY <1>1, <1>3, <1>5, <1>6, <1>9, <1>10, <1>12, <1>14

\* OnData_Execute, to the end of the fetch or to another FillPipeline.
LEMMA DataPreserves == IInv /\ OnDataExecute => IInv'
  <1> USE RangeAssumption, BoundsAssumption
  <1> SUFFICES ASSUME IInv, OnDataExecute PROVE IInv'
    OBVIOUS
  <1> DEFINE i == Head(jobs).i
             received == m_outOfOrderRecvSeqNo \cup {i.seqno}
             last == InOrder(received)
             m == m_maxInOrderRecvSeqNo
  <1>1. /\ jobs # <<>> /\ Head(jobs).do = "data"
        /\ delivered' = delivered \cup {i.seqno}
        /\ m_activePipeline' = m_activePipeline - 1
        /\ m_inActivePipeline' = m_inActivePipeline \ {i.seqno}
        /\ m_maxInOrderRecvSeqNo' = last
        /\ m_outOfOrderRecvSeqNo' = {n \in received : n > last}
        /\ noActivity' = FALSE
        /\ UNCHANGED <<m_timedwait, m_minSendSeqNo, pending, reexpressed, restarts,
                       finished, lost, owed, stray, fill, torn>>
    BY DEF OnDataExecute, Job, fillVars
  <1>2. \/ last = m_maxSeqNo /\ m_active' = FALSE /\ jobs' = FirstReplaced(jobs, FinishJob)
        \/ last # m_maxSeqNo /\ m_active' = m_active /\ jobs' = Append(Tail(jobs), FillJob)
    BY DEF OnDataExecute, FirstReplaced
  <1>3. /\ i \in Interests /\ i.seqno \in Number
        /\ ~stray /\ ~torn => /\ m_active /\ m # m_maxSeqNo
                     /\ finished + Queued("finish") = 0
    <2>1. /\ i \in Interests
          /\ ~stray /\ ~torn => /\ m_active /\ m # m_maxSeqNo
                       /\ finished + Queued("finish") = 0
      BY <1>1, AnswerAtFront
    <2> QED
      BY <2>1 DEF Interests
  <1>4. /\ m \in Number \cup {m_minSeqNo - 1} /\ m \in Int
        /\ m_outOfOrderRecvSeqNo \subseteq Number /\ IsFiniteSet(m_outOfOrderRecvSeqNo)
    BY DEF IInv, Numerals, Number
  <1>5. /\ last \in Int /\ last >= m
        /\ (m + 1)..last \subseteq received
        /\ last + 1 \notin received
    <2>1. m_maxInOrderRecvSeqNo \in Int
      BY <1>4
    <2>2. i.seqno \in Int
      BY <1>3 DEF Number
    <2>3. received \in SUBSET Int
      <3>1. m_outOfOrderRecvSeqNo \subseteq Int
        BY <1>4 DEF Number
      <3> QED
        BY <2>2, <3>1
    <2>4. IsFiniteSet(received)
      BY <1>4, FS_AddElement
    <2> HIDE DEF received
    <2> QED
      BY <2>1, <2>3, <2>4, InOrderEnds
  <1> HIDE DEF last
  <1>6. jobs \in Seq(Jobs) /\ OnTheWay(pending, jobs)
    BY DEF IInv, OnTheWay
  <1>7. /\ FinishJob \in Jobs /\ FinishJob.do = "finish"
        /\ FillJob \in Jobs /\ FillJob.do = "fill"
    BY DEF FinishJob, FillJob, Jobs
  <1>8. /\ OnTheWay(pending, jobs')
        /\ Processes(pending, jobs, pending, jobs', i.seqno)
    <2>1. CASE jobs' = FirstReplaced(jobs, FinishJob)
      BY <1>1, <1>6, <1>7, <2>1, ReplaceFirst
    <2>2. CASE jobs' = Append(Tail(jobs), FillJob)
      <3>1. /\ OnTheWay(pending, Tail(jobs))
            /\ Processes(pending, jobs, pending, Tail(jobs), i.seqno)
        BY <1>1, <1>6, TakeFirst
      <3>2. /\ OnTheWay(pending, jobs')
            /\ Keeps(pending, Tail(jobs), pending, jobs')
        BY <1>7, <2>2, <3>1, AppendOther
      <3> QED
        BY <3>1, <3>2 DEF Keeps, Processes
    <2> QED
      BY <1>2, <2>1, <2>2
  <1>9. /\ PipelineAccounting' /\ Untorn' /\ FillAt'
        /\ m_activePipeline' \in 0..m_pipeline /\ m_inActivePipeline' \subseteq Number
        /\ ~stray /\ ~torn =>
              \E b \in Number \cup {m_maxSeqNo + 1} : FirstLost(b)' /\ TakenFits(b)'
        /\ ~stray /\ ~torn /\ m_maxInOrderRecvSeqNo' = m_maxSeqNo => NothingOnTheWay'
    <2>1. /\ OnTheWay(pending', jobs')
          /\ Processes(pending, jobs, pending', jobs', Head(jobs).i.seqno)
      BY <1>1, <1>8
    <2>2. /\ m_maxInOrderRecvSeqNo' \in Int
          /\ m_maxInOrderRecvSeqNo' >= m_maxInOrderRecvSeqNo
          /\ (m_maxInOrderRecvSeqNo + 1)..m_maxInOrderRecvSeqNo'
                \subseteq m_outOfOrderRecvSeqNo \cup {Head(jobs).i.seqno}
          /\ m_outOfOrderRecvSeqNo' \subseteq m_outOfOrderRecvSeqNo \cup {Head(jobs).i.seqno}
      BY <1>1, <1>5
    <2> QED
      BY <1>1, <2>1, <2>2, ProcessStep
  <1>10. Flags'
    BY <1>1, <1>2, <1>3 DEF IInv, Flags
  <1>11. Numerals'
    <2>1. last \in Number \cup {m_minSeqNo - 1}
      <3>1. CASE last = m
        BY <1>4, <3>1
      <3>2. CASE last # m
        <4>1. last \in received
          BY <1>4, <1>5, <3>2
        <4> QED
          BY <1>3, <1>4, <4>1
      <3> QED
        BY <3>1, <3>2
    <2>2. m_outOfOrderRecvSeqNo' \subseteq Number /\ IsFiniteSet(m_outOfOrderRecvSeqNo')
      <3>1. IsFiniteSet(received)
        BY <1>4, FS_AddElement
      <3>2. m_outOfOrderRecvSeqNo' \subseteq received
        BY <1>1
      <3> QED
        BY <1>3, <1>4, <3>1, <3>2, FS_Subset
    <2> QED
      BY <1>1, <1>9, <2>1, <2>2 DEF IInv, Numerals
  <1>12. NothingSkipped'
    <2> DEFINE numbers == delivered
               numbersAfter == delivered'
    <2>1. numbersAfter = numbers \cup {i.seqno}
      BY <1>1
    <2>2. /\ m_minSeqNo..m \subseteq numbers
          /\ m_outOfOrderRecvSeqNo \subseteq numbers
      BY DEF IInv, NothingSkipped
    <2>3. received \subseteq numbersAfter
      BY <2>1, <2>2
    <2> HIDE DEF numbers, numbersAfter
    <2>4. m_minSeqNo..last \subseteq numbersAfter
      <3> SUFFICES ASSUME NEW n \in m_minSeqNo..last PROVE n \in numbersAfter
        OBVIOUS
      <3>1. CASE n <= m
        BY <1>4, <2>1, <2>2, <3>1
      <3>2. CASE n > m
        <4>1. n \in (m + 1)..last
          BY <1>4, <1>5, <3>2
        <4> QED
          BY <1>5, <2>3, <4>1
      <3> QED
        BY <1>4, <3>1, <3>2
    <2>5. \A n \in m_outOfOrderRecvSeqNo' : n \in numbersAfter /\ n > last + 1
      <3> SUFFICES ASSUME NEW n \in m_outOfOrderRecvSeqNo'
                   PROVE  n \in numbersAfter /\ n > last + 1
        OBVIOUS
      <3>1. n \in received /\ n > last /\ n # last + 1
        BY <1>1, <1>5
      <3>2. n \in Number
        BY <1>3, <1>4, <3>1
      <3>3. n \in Int
        BY <3>2 DEF Number
      <3> QED
        BY <1>5, <2>3, <3>1, <3>3
    <2> QED
      BY <1>1, <2>4, <2>5 DEF NothingSkipped, numbersAfter
  <1>13. /\ Queued("complete")' = Queued("complete")
         /\ Queued("finish")' = Queued("finish") + (IF last = m_maxSeqNo THEN 1 ELSE 0)
         /\ Queued("finish") \in Nat
    <2>1. \A w : Count(jobs, w) \in Nat
      BY <1>6, <1>7, CountAppend
    <2>2. CASE last = m_maxSeqNo
      BY <1>1, <1>2, <1>6, <1>7, <2>1, <2>2, CountReplace, QueuedCounts
    <2>3. CASE last # m_maxSeqNo
      <3>1. \A w \in {"finish", "complete"} :
               Tail(jobs) \in Seq(Jobs) /\ Count(Tail(jobs), w) = Count(jobs, w) - 0
        BY <1>1, <1>6, CountTail
      <3>2. \A w \in {"finish", "complete"} : Count(jobs', w) = Count(Tail(jobs), w) + 0
        <4>1. jobs' = Append(Tail(jobs), FillJob) /\ Tail(jobs) \in Seq(Jobs)
          BY <1>2, <2>3, <3>1
        <4> QED
          BY ONLY <1>7, <4>1, CountAppend
      <3> QED
        BY <2>1, <2>3, <3>1, <3>2, QueuedCounts
    <2> QED
      BY <2>2, <2>3
  <1>14. Needed'
    <2> SUFFICES ASSUME ~stray', ~torn' PROVE OneAttempt'
      BY DEF Needed
    <2>1. ~stray /\ ~torn /\ m_active /\ finished + Queued("finish") = 0
      BY <1>1, <1>3
    <2>2. \E b \in Number \cup {m_maxSeqNo + 1} : FirstLost(b)' /\ TakenFits(b)'
      BY <1>9, <2>1
    <2>3. ~m_active' \/ last = m_maxSeqNo => NothingOnTheWay'
      BY <1>1, <1>2, <1>9, <2>1
    <2>4. finished' + Queued("finish")' = IF last = m_maxSeqNo THEN 1 ELSE 0
      <3>1. finished \in Nat
        BY DEF IInv, Flags
      <3> QED
        BY <1>1, <1>13, <2>1, <3>1
    <2> QED
      BY <1>1, <2>2, <2>3, <2>4 DEF OneAttempt
  <1>15. CompleteWaits'
    BY <1>1, <1>13 DEF IInv, CompleteWaits
  <1> QED
    BY <1>1, <1>8, <1>9, <1>10, <1>11, <1>12, <1>14, <1>15 DEF IInv

\* OnTimeout_Execute gives up.
LEMMA GiveUpPreserves == IInv /\ OnTimeoutGiveUp => IInv'
  <1> SUFFICES ASSUME IInv, OnTimeoutGiveUp PROVE IInv'
    OBVIOUS
  <1> DEFINE t == Head(jobs).i.seqno
             x == Head(jobs).i.timeout
  <1>1. /\ jobs # <<>> /\ Head(jobs).do = "timeout"
        /\ jobs' = Tail(jobs)
        /\ m_inActivePipeline' = m_inActivePipeline \ {x}
        /\ m_activePipeline' = m_activePipeline - 1
        /\ UNCHANGED <<m_timedwait, m_minSendSeqNo, m_maxInOrderRecvSeqNo,
                   m_outOfOrderRecvSeqNo, pending, reexpressed, restarts,
                   noActivity, delivered, finished, lost, stray, fill, torn>>
    BY DEF OnTimeoutGiveUp, Job, fillVars
  <1>2. m_active' = (m_active /\ m_activePipeline' # 0)
    BY DEF OnTimeoutGiveUp
  <1>3. jobs \in Seq(Jobs) /\ OnTheWay(pending, jobs)
    BY DEF IInv, OnTheWay
  <1>4. /\ OnTheWay(pending', jobs')
        /\ Processes(pending, jobs, pending', jobs', t)
    BY <1>1, <1>3, TakeFirst
  <1>5. m_maxInOrderRecvSeqNo \in Int /\ m_maxInOrderRecvSeqNo' = m_maxInOrderRecvSeqNo
    BY <1>1, RangeAssumption DEF IInv, Numerals, Number
  <1>6. /\ PipelineAccounting' /\ Untorn' /\ FillAt'
        /\ m_activePipeline' \in 0..m_pipeline /\ m_inActivePipeline' \subseteq Number
        /\ ~stray /\ ~torn =>
              \E b \in Number \cup {m_maxSeqNo + 1} : FirstLost(b)' /\ TakenFits(b)'
        /\ m_activePipeline' = 0 => NothingOnTheWay'
    <2>1. (m_maxInOrderRecvSeqNo + 1)..m_maxInOrderRecvSeqNo' = {}
      BY <1>5
    <2>2. m_outOfOrderRecvSeqNo' \subseteq m_outOfOrderRecvSeqNo \cup {Head(jobs).i.seqno}
      BY <1>1
    <2> QED
      <3>1. ~torn => x = Head(jobs).i.seqno
        BY <1>1, AnswerAtFront
      <3> HIDE DEF x
      <3> QED
        <4>1. /\ jobs # <<>> /\ Head(jobs).do \in {"data", "timeout"}
              /\ Processes(pending, jobs, pending', jobs', Head(jobs).i.seqno)
              /\ OnTheWay(pending', jobs')
              /\ m_inActivePipeline' = m_inActivePipeline \ {x}
              /\ m_activePipeline' = m_activePipeline - 1
              /\ UNCHANGED <<reexpressed, stray, torn, fill>>
          BY <1>1, <1>4
        <4>2. /\ m_maxInOrderRecvSeqNo' \in Int
              /\ m_maxInOrderRecvSeqNo' >= m_maxInOrderRecvSeqNo
              /\ (m_maxInOrderRecvSeqNo + 1)..m_maxInOrderRecvSeqNo'
                   \subseteq m_outOfOrderRecvSeqNo \cup {Head(jobs).i.seqno}
          BY <1>5, <2>1
        <4> QED
          BY <2>2, <3>1, <4>1, <4>2, ProcessStep
  <1>7. Flags'
    <2>1. m_active' \in BOOLEAN
      BY <1>2
    <2>2. owed' \in Int
      BY DEF IInv, Flags, OnTimeoutGiveUp
    <2> QED
      BY <1>1, <2>1, <2>2 DEF IInv, Flags
  <1>8. Numerals'
    BY <1>1, <1>6 DEF IInv, Numerals
  <1>9. NothingSkipped'
    BY <1>1 DEF IInv, NothingSkipped
  <1>10. \A w \in {"finish", "complete"} : Queued(w)' = Queued(w)
    <2>1. \A w \in {"finish", "complete"} :
             Count(jobs, w) \in Nat /\ Count(Tail(jobs), w) = Count(jobs, w) - 0
      BY <1>1, <1>3, CountTail
    <2> QED
      BY <1>1, <2>1, QueuedCounts
  <1>11. Needed'
    <2> SUFFICES ASSUME ~stray', ~torn' PROVE OneAttempt'
      BY DEF Needed
    <2>1. /\ ~stray /\ ~torn /\ m_active /\ m_maxInOrderRecvSeqNo # m_maxSeqNo
          /\ finished + Queued("finish") = 0
      BY <1>1, AnswerAtFront
    <2>2. ~m_active' => m_activePipeline' = 0
      BY <1>2, <2>1
    <2>3. finished' + Queued("finish")' = 0
      BY <1>1, <1>10, <2>1
    <2> QED
      BY <1>1, <1>6, <2>1, <2>2, <2>3 DEF OneAttempt
  <1>12. CompleteWaits'
    BY <1>1, <1>10 DEF IInv, CompleteWaits
  <1> QED
    BY <1>4, <1>6, <1>7, <1>8, <1>9, <1>11, <1>12 DEF IInv

\* OnTimeout_Execute sends the Interest again, and its answer will count as that
\* of the next number.
LEMMA ReexpressPreserves == IInv /\ OnTimeoutReexpress => IInv'
  <1> USE RangeAssumption, BoundsAssumption
  <1> SUFFICES ASSUME IInv, OnTimeoutReexpress PROVE IInv'
    OBVIOUS
  <1> DEFINE i == Head(jobs).i
             n == i.timeout + 1
             j == Interest(n, n, i.name)
  <1>1. /\ jobs # <<>> /\ Head(jobs).do = "timeout"
        /\ reexpressed < MaxReexpress
        /\ jobs' = Tail(jobs)
        /\ pending' = Sent(pending, j)
        /\ reexpressed' = reexpressed + 1
        /\ UNCHANGED <<m_active, m_timedwait, seqVars, restarts, noActivity,
                       delivered, finished, lost, owed, stray, fill, torn>>
    BY DEF OnTimeoutReexpress, Job, Sent, fillVars
  <1>2. jobs \in Seq(Jobs) /\ OnTheWay(pending, jobs) /\ reexpressed \in Nat
    BY DEF IInv, OnTheWay, Flags
  <1>3. /\ i \in Interests /\ fill.pc = "test"
        /\ ~torn => /\ i.timeout = i.seqno
                    /\ \A b : FirstLost(b) => i.seqno # b
                    /\ reexpressed = 0 => i.seqno \in m_inActivePipeline
        /\ ~stray /\ ~torn => /\ m_active /\ m_maxInOrderRecvSeqNo # m_maxSeqNo
                              /\ finished + Queued("finish") = 0
    BY <1>1, AnswerAtFront
  <1>4. /\ i.seqno \in Number /\ i.name \in Number /\ i.timeout \in Number
        /\ i.seqno \in Int /\ i.timeout \in Int
        /\ n \in Number /\ n \in Int
    BY <1>3 DEF Interests, Number
  <1>5. j \in Interests /\ j.seqno = n /\ j.timeout = n
    BY <1>4 DEF Interests, Interest
  <1> HIDE DEF j
  <1>6. /\ OnTheWay(pending, jobs')
        /\ Processes(pending, jobs, pending, jobs', i.seqno)
    BY <1>1, <1>2, TakeFirst
  <1>7. /\ OnTheWay(pending', jobs')
        /\ Numbers(pending', jobs') = Numbers(pending, jobs') \cup {n}
        /\ Unprocessed(pending', jobs') = Unprocessed(pending, jobs') + 1
        /\ \A s : Once(pending, jobs', s) /\ s # n => Once(pending', jobs', s)
        /\ Even(pending, jobs') => Even(pending', jobs')
    <2> HIDE DEF n
    <2>1. /\ OnTheWay(Sent(pending, j), jobs')
          /\ Numbers(Sent(pending, j), jobs') = Numbers(pending, jobs') \cup {j.seqno}
          /\ Unprocessed(Sent(pending, j), jobs') = Unprocessed(pending, jobs') + 1
          /\ \A s : Once(pending, jobs', s) /\ j.seqno # s => Once(Sent(pending, j), jobs', s)
          /\ Even(pending, jobs') /\ j.seqno = j.timeout => Even(Sent(pending, j), jobs')
      BY <1>5, <1>6, Sends
    <2> QED
      BY <1>1, <1>5, <2>1
  <1>8. PipelineAccounting'
    <2>1. m_activePipeline = Unprocessed(pending, jobs)
      BY DEF IInv, PipelineAccounting, Unprocessed
    <2>2. Unprocessed(pending, jobs') = Unprocessed(pending, jobs) - 1
      BY <1>6 DEF Processes
    <2>3. Unprocessed(pending, jobs) \in Nat
      BY <1>2, OnTheWayFacts
    <2>4. m_activePipeline' = Unprocessed(pending', jobs')
      BY <1>1, <1>7, <2>1, <2>2, <2>3 DEF seqVars
    <2> QED
      BY <2>4 DEF PipelineAccounting, Unprocessed
  <1>9. Untorn'
    <2> SUFFICES ASSUME ~torn PROVE (Even(pending, jobs) /\ OneTurn /\ ExactOnTheWay)'
      BY <1>1 DEF Untorn
    <2>1. Even(pending, jobs) /\ OneTurn
      BY DEF IInv, Untorn
    <2>2. Even(pending', jobs')
      BY <1>6, <1>7, <2>1 DEF Processes
    <2>3. OneTurn'
      BY <1>1, <2>1 DEF OneTurn, seqVars
    <2>4. ExactOnTheWay'
      BY <1>1, <1>2 DEF ExactOnTheWay
    <2> QED
      BY <2>2, <2>3, <2>4
  <1>17. FillAt'
    BY <1>1, <1>3 DEF IInv, FillAt, seqVars
  <1>10. Flags'
    <2>1. reexpressed' \in 0..MaxReexpress
      BY <1>1, <1>2
    <2> QED
      BY <1>1, <2>1 DEF IInv, Flags
  <1>11. Numerals'
    BY <1>1 DEF IInv, Numerals, seqVars
  <1>12. NothingSkipped'
    BY <1>1 DEF IInv, NothingSkipped, seqVars
  <1>13. \A w \in {"finish", "complete"} : Queued(w)' = Queued(w)
    <2>1. \A w \in {"finish", "complete"} :
             Count(jobs, w) \in Nat /\ Count(Tail(jobs), w) = Count(jobs, w) - 0
      BY <1>1, <1>2, CountTail
    <2> QED
      BY <1>1, <2>1, QueuedCounts
  <1>14. ASSUME ~stray, ~torn
         PROVE  \E b \in Number \cup {m_maxSeqNo + 1} : FirstLost(b)' /\ TakenFits(b)'
    <2>0. \A b : TakenFits(b)'
      BY <1>1, <1>3 DEF TakenFits, Taken
    <2>1. PICK b \in Number \cup {m_maxSeqNo + 1} : FirstLost(b)
      BY <1>14 DEF IInv, Needed, OneAttempt
    <2>7. n = i.seqno + 1
      BY <1>3, <1>14
    <2>2. b \in Int /\ b # i.seqno
      BY <1>3, <1>14, <2>1 DEF Number
    <2>3. /\ i.seqno \in Numbers(pending, jobs)
          /\ Numbers(pending, jobs') \subseteq Numbers(pending, jobs)
          /\ \A s : Once(pending, jobs, s) => Once(pending, jobs', s)
          /\ Once(pending, jobs, i.seqno) => i.seqno \notin Numbers(pending, jobs')
      BY <1>1, <1>6, AnswerAtFront DEF Processes
    <2>4. UNCHANGED <<m_inActivePipeline, m_outOfOrderRecvSeqNo, m_maxInOrderRecvSeqNo>>
      BY <1>1 DEF seqVars
    <2>5. CASE i.seqno < b
      <3>1. /\ Once(pending, jobs, i.seqno) /\ i.seqno \in m_inActivePipeline
            /\ i.seqno \notin m_outOfOrderRecvSeqNo /\ i.seqno > m_maxInOrderRecvSeqNo
        BY <2>1, <2>3, <2>5 DEF FirstLost
      <3>2. i.seqno \notin Numbers(pending', jobs')
        BY <1>4, <1>7, <2>3, <2>7, <3>1
      <3>3. ASSUME NEW s \in Numbers(pending', jobs'), s < i.seqno
            PROVE  /\ Once(pending', jobs', s) /\ s \in m_inActivePipeline
                   /\ s \notin m_outOfOrderRecvSeqNo /\ s > m_maxInOrderRecvSeqNo
        <4>1. s # i.seqno + 1
          BY <1>4, <3>3
        <4>2. s \in Numbers(pending, jobs)
          BY <1>7, <2>3, <2>7, <4>1
        <4>3. s \in Int
          BY <1>2, <4>2, OnTheWayFacts DEF Number
        <4>4. s < b
          BY <1>4, <2>2, <2>5, <3>3, <4>3
        <4> QED
          BY <1>7, <2>1, <2>3, <2>7, <4>1, <4>2, <4>4 DEF FirstLost
      <3>4. PICK t \in Number : t = i.seqno
        BY <1>4
      <3>5. FirstLost(t)'
        BY <2>4, <3>1, <3>2, <3>3, <3>4 DEF FirstLost
      <3> QED
        BY <2>0, <3>5
    <2>6. CASE b < i.seqno
      <3>1. ~(reexpressed = 0 /\ b = m_maxSeqNo + 1)
        <4> SUFFICES ASSUME reexpressed = 0, b = m_maxSeqNo + 1 PROVE FALSE
          OBVIOUS
        <4>1. i.seqno \in Segments
          BY <1>3, <1>14 DEF IInv, Untorn, OneTurn
        <4> QED
          BY <2>6, <4>1 DEF Segments
      <3>2. /\ b \in m_inActivePipeline /\ b > m_maxInOrderRecvSeqNo
            /\ b \notin m_outOfOrderRecvSeqNo /\ b \notin Numbers(pending, jobs)
        BY <2>1, <3>1 DEF FirstLost
      <3>3. b \notin Numbers(pending', jobs')
        BY <1>4, <1>7, <2>2, <2>3, <2>6, <2>7, <3>2
      <3>4. ASSUME NEW s \in Numbers(pending', jobs'), s < b
            PROVE  /\ Once(pending', jobs', s) /\ s \in m_inActivePipeline
                   /\ s \notin m_outOfOrderRecvSeqNo /\ s > m_maxInOrderRecvSeqNo
        <4>1. s # i.seqno + 1
          BY <1>4, <2>2, <2>6, <3>4
        <4>2. s \in Numbers(pending, jobs)
          BY <1>7, <2>3, <2>7, <4>1
        <4> QED
          BY <1>7, <2>1, <2>3, <2>7, <3>4, <4>1, <4>2 DEF FirstLost
      <3>5. FirstLost(b)'
        BY <2>4, <3>2, <3>3, <3>4 DEF FirstLost
      <3> QED
        BY <2>0, <3>5
    <2> QED
      BY <1>4, <2>2, <2>5, <2>6
  <1>15. Needed'
    <2> SUFFICES ASSUME ~stray', ~torn' PROVE OneAttempt'
      BY DEF Needed
    <2>1. /\ ~stray /\ ~torn /\ m_active /\ m_maxInOrderRecvSeqNo # m_maxSeqNo
          /\ finished + Queued("finish") = 0
      BY <1>1, <1>3
    <2>2. m_active' /\ m_maxInOrderRecvSeqNo' = m_maxInOrderRecvSeqNo
      BY <1>1, <2>1 DEF seqVars
    <2>3. finished' + Queued("finish")' = 0
      BY <1>1, <1>13, <2>1
    <2> QED
      BY <1>14, <2>1, <2>2, <2>3 DEF OneAttempt
  <1>16. CompleteWaits'
    BY <1>1, <1>13 DEF IInv, CompleteWaits
  <1> QED
    BY <1>7, <1>8, <1>9, <1>10, <1>11, <1>12, <1>15, <1>16, <1>17 DEF IInv

\* Only a number that is taken is in Taken.
LEMMA TakenAt ==
  /\ fill.pc # "express" => Taken = {}
  /\ fill.pc = "express" => Taken = {fill.n + 1}
  /\ fill'.pc # "express" => Taken' = {}
  /\ fill'.pc = "express" => Taken' = {fill'.n + 1}
  BY DEF Taken

\* A step of the loop of FillPipeline that sends nothing.
LEMMA FillMoves ==
  ASSUME IInv,
         UNCHANGED <<m_activePipeline, pending, jobs, stray, notFill>>,
         m_minSendSeqNo' \in Number \cup {m_minSeqNo - 1},
         FillAt', torn => torn',
         m_inActivePipeline \subseteq m_inActivePipeline', m_inActivePipeline' \subseteq Number,
         ~torn' => OneTurn' /\ ExactOnTheWay',
         ~torn' => \A b \in Number \cup {m_maxSeqNo + 1} :
                      FirstLost(b) /\ TakenFits(b) => TakenFits(b)'
  PROVE  IInv'
  <1>1. Flags' /\ CompleteWaits' /\ NothingSkipped'
    <2>1. \A w : Queued(w)' = Queued(w)
      BY QueuedCounts
    <2> QED
      BY <2>1 DEF IInv, Flags, CompleteWaits, NothingSkipped, notFill
  <1>2. Numerals' /\ OnTheWay(pending', jobs')
    BY DEF IInv, Numerals, notFill
  <1>3. PipelineAccounting'
    BY DEF IInv, PipelineAccounting
  <1>4. Untorn'
    BY DEF IInv, Untorn
  <1>5. Needed'
    <2> SUFFICES ASSUME ~stray, ~torn' PROVE OneAttempt'
      BY DEF Needed
    <2>1. OneAttempt
      BY DEF IInv, Needed
    <2>2. PICK b \in Number \cup {m_maxSeqNo + 1} : FirstLost(b) /\ TakenFits(b)
      BY <2>1 DEF OneAttempt
    <2>3. FirstLost(b)'
      BY <2>2 DEF FirstLost, notFill
    <2>4. TakenFits(b)'
      BY <2>2
    <2>5. Queued("finish")' = Queued("finish")
      BY QueuedCounts
    <2>6. NothingOnTheWay => NothingOnTheWay'
      BY DEF NothingOnTheWay
    <2> QED
      BY <2>1, <2>3, <2>4, <2>5, <2>6 DEF OneAttempt, notFill
  <1> QED
    BY <1>1, <1>2, <1>3, <1>4, <1>5 DEF IInv

\* Between its turns, and when a number is skipped, the loop takes nothing.
LEMMA FillTakesNothing ==
  ASSUME IInv,
         UNCHANGED <<m_activePipeline, pending, jobs, stray, m_inActivePipeline, notFill>>,
         m_minSendSeqNo' \in Number \cup {m_minSeqNo - 1},
         FillAt', torn => torn', fill.pc # "express", fill'.pc # "express",
         ~torn' => OneTurn'
  PROVE  IInv'
  <1>1. Taken = {} /\ Taken' = {}
    BY TakenAt
  <1>2. ~torn' => ExactOnTheWay'
    BY <1>1 DEF IInv, Untorn, ExactOnTheWay, notFill
  <1>3. \A b : TakenFits(b)'
    BY <1>1 DEF TakenFits
  <1>4. m_inActivePipeline' \subseteq Number
    BY DEF IInv, Numerals
  <1> QED
    BY <1>2, <1>3, <1>4, FillMoves

\* The condition of the loop.
LEMMA FillTestPreserves == IInv /\ FillTest => IInv'
  <1> USE RangeAssumption, PipelineAssumption
  <1> SUFFICES ASSUME IInv, FillTest PROVE IInv'
    OBVIOUS
  <1>1. /\ jobs # <<>> /\ Head(jobs).do = "fill" /\ fill.pc = "test"
        /\ UNCHANGED <<m_minSendSeqNo, m_inActivePipeline, m_activePipeline, pending,
                       stray, torn, notFill>>
    BY DEF FillTest, Filling, Job
  <1>2. CASE /\ m_minSendSeqNo < m_maxSeqNo /\ m_activePipeline < m_pipeline
             /\ fill' = [pc |-> "find", n |-> m_minSendSeqNo] /\ UNCHANGED jobs
    <2>1. fill'.pc = "find" /\ fill'.n = m_minSendSeqNo
      BY <1>2
    <2>2. m_minSendSeqNo \in Number \cup {m_minSeqNo - 1}
      BY DEF IInv, Numerals
    <2>3. FillAt'
      BY <1>1, <1>2, <2>1, <2>2 DEF IInv, FillAt, Job
    <2>4. m_minSendSeqNo + 1 \in Segments
      BY <1>2, <2>2 DEF Number, Segments
    <2>5. ~torn' => OneTurn'
      BY <1>1, <2>1, <2>4 DEF IInv, Untorn, OneTurn
    <2> QED
      BY <1>1, <1>2, <2>1, <2>2, <2>3, <2>5, FillTakesNothing
  <1>3. CASE jobs' = Tail(jobs) /\ UNCHANGED fill
    <2>1. jobs \in Seq(Jobs) /\ OnTheWay(pending, jobs)
      BY DEF IInv, OnTheWay
    <2>2. /\ OnTheWay(pending', jobs')
          /\ Keeps(pending, jobs, pending', jobs')
      BY <1>1, <1>3, <2>1, TakeFirst
    <2>3. \A w \in {"finish", "complete"} : Queued(w)' = Queued(w)
      <3>1. \A w \in {"finish", "complete"} :
               Count(jobs, w) \in Nat /\ Count(Tail(jobs), w) = Count(jobs, w) - 0
        BY <1>1, <2>1, CountTail
      <3> QED
        BY <1>3, <3>1, QueuedCounts
    <2>4. /\ Numerals' /\ FillAt' /\ PipelineAccounting' /\ Untorn'
          /\ NothingSkipped' /\ Needed'
      BY <1>1, <1>3, <2>2, <2>3, QuietStep DEF notFill
    <2>5. Flags' /\ CompleteWaits'
      BY <1>1, <2>3 DEF IInv, Flags, CompleteWaits, notFill
    <2> QED
      BY <2>2, <2>4, <2>5 DEF IInv
  <1> QED
    BY <1>2, <1>3 DEF FillTest

\* What is received or requested is skipped.
LEMMA FillFindPreserves == IInv /\ FillFind => IInv'
  <1> USE RangeAssumption
  <1> SUFFICES ASSUME IInv, FillFind PROVE IInv'
    OBVIOUS
  <1> DEFINE k == m_minSendSeqNo + 1
             found == k \in m_outOfOrderRecvSeqNo \cup m_inActivePipeline
  <1>1. /\ jobs # <<>> /\ Head(jobs).do = "fill" /\ fill.pc = "find"
        /\ UNCHANGED <<m_minSendSeqNo, m_inActivePipeline, m_activePipeline, pending, jobs,
                       stray, notFill>>
        /\ fill'.pc = IF found THEN "advance" ELSE "insert"
        /\ fill'.n = m_minSendSeqNo
        /\ torn' = (torn \/ m_minSendSeqNo # fill.n)
    BY DEF FillFind, Filling, Job, Reads
  <1>2. m_minSendSeqNo \in Number \cup {m_minSeqNo - 1}
    BY DEF IInv, Numerals
  <1>3. FillAt'
    BY <1>1, <1>2 DEF IInv, FillAt, Job
  <1>4. ASSUME ~torn' PROVE OneTurn'
    <2>1. ~torn /\ m_minSendSeqNo = fill.n
      BY <1>1, <1>4
    <2>2. OneTurn
      BY <2>1 DEF IInv, Untorn
    <2> QED
      BY <1>1, <2>1, <2>2 DEF OneTurn, notFill
  <1>5. fill.pc # "express" /\ fill'.pc # "express"
    BY <1>1
  <1> QED
    BY <1>1, <1>2, <1>3, <1>4, <1>5, FillTakesNothing

\* The number is taken.
LEMMA FillInsertPreserves == IInv /\ FillInsert => IInv'
  <1> USE RangeAssumption
  <1> SUFFICES ASSUME IInv, FillInsert PROVE IInv'
    OBVIOUS
  <1> DEFINE k == m_minSendSeqNo + 1
  <1>1. /\ jobs # <<>> /\ Head(jobs).do = "fill" /\ fill.pc = "insert"
        /\ UNCHANGED <<m_minSendSeqNo, m_activePipeline, pending, jobs, stray, notFill>>
        /\ m_inActivePipeline' = m_inActivePipeline \cup {k}
        /\ fill'.pc = "express" /\ fill'.n = m_minSendSeqNo
        /\ torn' = (torn \/ m_minSendSeqNo # fill.n)
    BY DEF FillInsert, Filling, Job, Reads
  <1>2. m_minSendSeqNo \in Number \cup {m_minSeqNo - 1} /\ k \in Number
        /\ m_inActivePipeline \subseteq Number
    BY DEF IInv, Numerals, Number
  <1>3. FillAt'
    BY <1>1, <1>2 DEF IInv, FillAt, Job
  <1>4. Taken = {} /\ Taken' = {k}
    BY <1>1, TakenAt
  <1>5. ASSUME ~torn'
        PROVE  /\ ~torn /\ OneTurn /\ ExactOnTheWay /\ fill.n + 1 = k
               /\ k \in Segments /\ k \notin m_outOfOrderRecvSeqNo
               /\ k \notin m_inActivePipeline
    <2>1. ~torn /\ m_minSendSeqNo = fill.n
      BY <1>1, <1>5
    <2>2. OneTurn /\ ExactOnTheWay
      BY <2>1 DEF IInv, Untorn
    <2> QED
      BY <1>1, <2>1, <2>2 DEF OneTurn
  <1> HIDE DEF k
  <1>6. ASSUME ~torn' PROVE OneTurn'
    <2>1. fill'.n + 1 = k
      BY <1>1 DEF k
    <2> QED
      BY <1>1, <1>5, <1>6, <2>1 DEF OneTurn, notFill
  <1>7. ASSUME ~torn' PROVE ExactOnTheWay'
    <2> SUFFICES ASSUME reexpressed = 0
                 PROVE  /\ m_inActivePipeline' = Numbers(pending, jobs) \cup {k}
                        /\ Numbers(pending, jobs) \cap {k} = {}
                        /\ Cardinality(m_inActivePipeline') = m_activePipeline + 1
                        /\ \A x \in Segments : Once(pending, jobs, x)
      <3>1. Cardinality({k}) = 1
        BY FS_Singleton
      <3> QED
        BY <1>1, <1>4, <3>1 DEF ExactOnTheWay, notFill
    <2>1. /\ m_inActivePipeline = Numbers(pending, jobs)
          /\ Cardinality(m_inActivePipeline) = m_activePipeline + Cardinality({})
          /\ \A x \in Segments : Once(pending, jobs, x)
      BY <1>4, <1>5, <1>7 DEF ExactOnTheWay
    <2>2. Cardinality({}) = 0
      BY FS_EmptySet
    <2>3. IsFiniteSet(m_inActivePipeline)
      <3>1. m_inActivePipeline \subseteq m_minSeqNo..m_maxSeqNo
        BY <1>5, <1>7 DEF OneTurn, Segments
      <3>2. m_minSeqNo \in Int /\ m_maxSeqNo \in Int
        OBVIOUS
      <3> QED
        BY ONLY <3>1, <3>2, BoundedIsFinite
    <2>4. Cardinality(m_inActivePipeline \cup {k}) = Cardinality(m_inActivePipeline) + 1
      BY <1>5, <1>7, <2>3, FS_AddElement
    <2>5. m_activePipeline \in Int
      BY DEF IInv, Numerals
    <2>6. Cardinality(m_inActivePipeline') = m_activePipeline + 1
      BY <1>1, <2>1, <2>2, <2>4, <2>5
    <2> QED
      BY <1>1, <1>5, <1>7, <2>1, <2>6
  <1>8. ASSUME ~torn', NEW b \in Number \cup {m_maxSeqNo + 1}, FirstLost(b) PROVE TakenFits(b)'
    <2>1. k # b
      <3>1. CASE b = m_maxSeqNo + 1
        BY <1>5, <1>8, <3>1 DEF Segments
      <3>2. CASE b \in m_inActivePipeline
        BY <1>5, <1>8, <3>2
      <3> QED
        BY <1>8, <3>1, <3>2 DEF FirstLost
    <2>2. k < b => k \notin Numbers(pending, jobs)
      BY <1>5, <1>8 DEF FirstLost
    <2> QED
      BY <1>1, <1>4, <2>1, <2>2 DEF TakenFits
  <1>9. m_inActivePipeline \subseteq m_inActivePipeline' /\ m_inActivePipeline' \subseteq Number
    BY <1>1, <1>2
  <1> QED
    BY <1>1, <1>2, <1>3, <1>6, <1>7, <1>8, <1>9, FillMoves

\* m_minSendSeqNo is counted up.
LEMMA FillAdvancePreserves == IInv /\ FillAdvance => IInv'
  <1> USE RangeAssumption
  <1> SUFFICES ASSUME IInv, FillAdvance PROVE IInv'
    OBVIOUS
  <1>1. /\ jobs # <<>> /\ Head(jobs).do = "fill" /\ fill.pc = "advance"
        /\ UNCHANGED <<m_inActivePipeline, m_activePipeline, pending, jobs, stray, notFill>>
        /\ m_minSendSeqNo' \in {fill.n + 1, m_minSendSeqNo + 1}
        /\ fill'.pc = "test" /\ fill'.n = m_minSeqNo - 1
        /\ torn' = (torn \/ m_minSendSeqNo # fill.n)
    BY DEF FillAdvance, Filling, Job, AtTest
  <1>2. m_minSendSeqNo' \in Number \cup {m_minSeqNo - 1}
    <2>1. /\ m_minSendSeqNo \in Number \cup {m_minSeqNo - 1}
          /\ fill.n \in Number \cup {m_minSeqNo - 1}
      BY DEF IInv, Numerals, FillAt
    <2> QED
      BY <1>1, <2>1 DEF Number
  <1>3. FillAt'
    BY <1>1 DEF IInv, FillAt, Job
  <1>4. ~torn' => OneTurn'
    BY <1>1 DEF IInv, Untorn, OneTurn
  <1> QED
    BY <1>1, <1>2, <1>3, <1>4, FillTakesNothing

\* The Interest is sent, and the number is on its way.
LEMMA FillExpressPreserves == IInv /\ FillExpress => IInv'
  <1> USE RangeAssumption, PipelineAssumption
  <1> SUFFICES ASSUME IInv, FillExpress PROVE IInv'
    OBVIOUS
  <1>1. /\ jobs # <<>> /\ Head(jobs).do = "fill" /\ fill.pc = "express"
        /\ UNCHANGED <<m_minSendSeqNo, m_inActivePipeline, jobs, notFill>>
        /\ torn' = (torn \/ m_minSendSeqNo # fill.n)
        /\ m_activePipeline' = m_activePipeline + 1
    BY DEF FillExpress, Filling, Job
  <1>2. PICK name \in {fill.n, m_minSendSeqNo}, seqno \in {fill.n, m_minSendSeqNo},
             timeout \in {fill.n, m_minSendSeqNo} :
          /\ pending' = Sent(pending, Interest(seqno + 1, timeout + 1, name + 1))
          /\ stray' = (stray \/ Needless(seqno + 1))
          /\ fill'.pc = "advance" /\ fill'.n \in {fill.n, m_minSendSeqNo}
    BY DEF FillExpress, Sent
  <1> DEFINE j == Interest(seqno + 1, timeout + 1, name + 1)
             k == seqno + 1
  <1>3. /\ m_minSendSeqNo \in Number \cup {m_minSeqNo - 1}
        /\ fill.n \in Number \cup {m_minSeqNo - 1}
        /\ m_activePipeline \in 0..m_pipeline /\ m_activePipeline < m_pipeline
        /\ m_maxInOrderRecvSeqNo \in Int
    BY <1>1 DEF IInv, Numerals, FillAt, Number
  <1>4. j \in Interests /\ j.seqno = k /\ j.timeout = timeout + 1 /\ k \in Number /\ k \in Int
    BY <1>2, <1>3 DEF Interest, Interests, Number
  <1>5. ASSUME ~torn'
        PROVE  /\ ~torn /\ OneTurn /\ ExactOnTheWay /\ Even(pending, jobs)
               /\ k = fill.n + 1 /\ timeout + 1 = k
               /\ k \in Segments /\ k \notin m_outOfOrderRecvSeqNo
               /\ k \in m_inActivePipeline /\ Taken = {k}
    <2>1. ~torn /\ m_minSendSeqNo = fill.n
      BY <1>1, <1>5
    <2>2. OneTurn /\ ExactOnTheWay /\ Even(pending, jobs)
      BY <2>1 DEF IInv, Untorn
    <2>3. k = fill.n + 1 /\ timeout + 1 = k
      BY <1>2, <2>1
    <2> QED
      BY <1>1, <2>1, <2>2, <2>3, TakenAt DEF OneTurn
  <1>6. Taken' = {}
    BY <1>2, TakenAt
  <1> HIDE DEF j, k
  <1>7. jobs \in Seq(Jobs) /\ OnTheWay(pending, jobs)
    BY DEF IInv, OnTheWay
  <1>8. /\ OnTheWay(pending', jobs')
        /\ Numbers(pending', jobs') = Numbers(pending, jobs) \cup {k}
        /\ Unprocessed(pending', jobs') = Unprocessed(pending, jobs) + 1
        /\ \A s : Once(pending, jobs, s) /\ s # k => Once(pending', jobs', s)
        /\ \A s : s \notin Numbers(pending, jobs) => Once(pending', jobs', s)
        /\ Even(pending, jobs) /\ k = timeout + 1 => Even(pending', jobs')
    <2>1. jobs' = jobs /\ pending' = Sent(pending, j)
      BY <1>1, <1>2 DEF j
    <2>2. /\ OnTheWay(Sent(pending, j), jobs)
          /\ Numbers(Sent(pending, j), jobs) = Numbers(pending, jobs) \cup {j.seqno}
          /\ Unprocessed(Sent(pending, j), jobs) = Unprocessed(pending, jobs) + 1
          /\ \A s : Once(pending, jobs, s) /\ j.seqno # s => Once(Sent(pending, j), jobs, s)
          /\ \A s : s \notin Numbers(pending, jobs) => Once(Sent(pending, j), jobs, s)
          /\ Even(pending, jobs) /\ j.seqno = j.timeout => Even(Sent(pending, j), jobs)
      BY <1>4, <1>7, Sends
    <2> QED
      BY <1>4, <2>1, <2>2
  <1>9. PipelineAccounting'
    BY <1>1, <1>8 DEF IInv, PipelineAccounting, Unprocessed
  <1>10. Flags'
    <2>1. stray' \in BOOLEAN
      BY <1>2
    <2> QED
      BY <1>1, <2>1 DEF IInv, Flags, notFill
  <1>11. Numerals'
    <2>1. m_activePipeline' \in 0..m_pipeline
      BY <1>1, <1>3
    <2> QED
      BY <1>1, <2>1 DEF IInv, Numerals, notFill
  <1>12. FillAt'
    BY <1>1, <1>2, <1>3 DEF IInv, FillAt, Job
  <1>13. NothingSkipped'
    BY <1>1 DEF IInv, NothingSkipped, notFill
  <1>14. ASSUME ~torn' PROVE ExactOnTheWay'
    <2> SUFFICES ASSUME reexpressed = 0
                 PROVE  /\ m_inActivePipeline = Numbers(pending, jobs) \cup {k}
                        /\ Cardinality(m_inActivePipeline) = m_activePipeline + 1
                        /\ \A s \in Segments : Once(pending', jobs', s)
      <3>1. Cardinality({}) = 0
        BY FS_EmptySet
      <3> QED
        BY <1>1, <1>3, <1>6, <1>8, <3>1 DEF ExactOnTheWay, notFill
    <2>1. /\ m_inActivePipeline = Numbers(pending, jobs) \cup {k}
          /\ Numbers(pending, jobs) \cap {k} = {}
          /\ Cardinality(m_inActivePipeline) = m_activePipeline + Cardinality({k})
          /\ \A s \in Segments : Once(pending, jobs, s)
      BY <1>5, <1>14 DEF ExactOnTheWay
    <2>2. Cardinality({k}) = 1
      BY FS_Singleton
    <2>3. ASSUME NEW s \in Segments PROVE Once(pending', jobs', s)
      <3>1. CASE s = k
        BY <1>8, <2>1, <3>1
      <3>2. CASE s # k
        BY <1>8, <2>1, <3>2
      <3> QED
        BY <3>1, <3>2
    <2> QED
      BY <2>1, <2>2, <2>3
  <1>15. Untorn'
    <2> SUFFICES ASSUME ~torn' PROVE (Even(pending, jobs) /\ OneTurn /\ ExactOnTheWay)'
      BY DEF Untorn
    <2>1. Even(pending', jobs')
      BY <1>5, <1>8
    <2>2. OneTurn'
      <3>1. fill'.n = fill.n
        BY <1>1, <1>2
      <3>2. m_inActivePipeline' \subseteq Segments /\ fill.n + 1 \in Segments
        BY <1>1, <1>5 DEF OneTurn
      <3> QED
        BY <1>2, <3>1, <3>2 DEF OneTurn
    <2> QED
      BY <1>14, <2>1, <2>2
  <1>16. \A w : Queued(w)' = Queued(w)
    BY <1>1, QueuedCounts
  <1>17. Needed'
    <2> SUFFICES ASSUME ~stray', ~torn' PROVE OneAttempt'
      BY DEF Needed
    <2>1. ~stray /\ m_active /\ k > m_maxInOrderRecvSeqNo
      <3>1. ~stray /\ m_active /\ ~(k <= m_maxInOrderRecvSeqNo)
        BY <1>2 DEF Needless, k
      <3> QED
        BY <1>3, <1>4, <3>1
    <2>2. OneAttempt
      BY <1>5, <2>1 DEF IInv, Needed
    <2>3. PICK b \in Number \cup {m_maxSeqNo + 1} : FirstLost(b) /\ TakenFits(b)
      BY <2>2 DEF OneAttempt
    <2>4. k # b /\ (k < b => k \notin Numbers(pending, jobs))
      BY <1>5, <2>3 DEF TakenFits
    <2>5. FirstLost(b)'
      <3>1. \/ reexpressed' = 0 /\ b = m_maxSeqNo + 1
            \/ /\ b \in m_inActivePipeline' /\ b > m_maxInOrderRecvSeqNo'
               /\ b \notin m_outOfOrderRecvSeqNo' /\ b \notin Numbers(pending', jobs')
        BY <1>1, <1>8, <2>3, <2>4 DEF FirstLost, notFill
      <3>2. ASSUME NEW s \in Numbers(pending', jobs'), s < b
            PROVE  /\ Once(pending', jobs', s) /\ s \in m_inActivePipeline'
                   /\ s \notin m_outOfOrderRecvSeqNo' /\ s > m_maxInOrderRecvSeqNo'
        <4>1. CASE s # k
          <5>1. /\ Once(pending, jobs, s) /\ s \in m_inActivePipeline
                /\ s \notin m_outOfOrderRecvSeqNo /\ s > m_maxInOrderRecvSeqNo
            BY <1>8, <2>3, <3>2, <4>1 DEF FirstLost
          <5> QED
            BY <1>1, <1>8, <4>1, <5>1 DEF notFill
        <4>2. CASE s = k
          BY <1>1, <1>5, <1>8, <2>1, <2>4, <3>2, <4>2 DEF notFill
        <4> QED
          BY <4>1, <4>2
      <3> QED
        BY <3>1, <3>2 DEF FirstLost
    <2>6. TakenFits(b)'
      BY <1>6 DEF TakenFits
    <2>7. m_active' /\ m_maxInOrderRecvSeqNo' # m_maxSeqNo
      <3>1. k <= m_maxSeqNo
        BY <1>5 DEF Segments
      <3> QED
        BY <1>1, <1>3, <1>4, <2>1, <3>1 DEF notFill
    <2> QED
      BY <1>1, <1>16, <2>2, <2>3, <2>5, <2>6, <2>7 DEF OneAttempt, notFill
  <1>18. CompleteWaits'
    BY <1>1, <1>16 DEF IInv, CompleteWaits, notFill
  <1> QED
    BY <1>8, <1>9, <1>10, <1>11, <1>12, <1>13, <1>15, <1>17, <1>18 DEF IInv

\* Every step of FillPipeline keeps the inductive invariant.
LEMMA FillPreserves == IInv /\ FillPipeline => IInv'
  BY FillTestPreserves, FillFindPreserves, FillInsertPreserves, FillExpressPreserves,
     FillAdvancePreserves DEF FillPipeline

\* A step that changes nothing.
LEMMA UnchangedPreserves == IInv /\ UNCHANGED vars => IInv'
  <1> SUFFICES ASSUME IInv, UNCHANGED vars PROVE IInv'
    OBVIOUS
  <1>1. /\ OnTheWay(pending', jobs')
        /\ Keeps(pending, jobs, pending', jobs')
    BY DEF IInv, vars, Keeps
  <1>2. \A w : Queued(w)' = Queued(w)
    BY QueuedCounts DEF vars
  <1>3. Flags'
    BY DEF IInv, Flags, vars
  <1>4. /\ Numerals' /\ FillAt' /\ PipelineAccounting' /\ Untorn'
        /\ NothingSkipped' /\ Needed'
    <2>1. fill.pc # "test" => Job("fill")'
      BY DEF IInv, FillAt, Job, vars
    <2> QED
      BY <1>1, <1>2, <2>1, QuietStep DEF vars, seqVars, fillVars
  <1>5. CompleteWaits'
    BY <1>2 DEF IInv, CompleteWaits, vars
  <1> QED
    BY <1>1, <1>3, <1>4, <1>5 DEF IInv

\* Every step keeps the inductive invariant.
LEMMA StepPreserves == IInv /\ [Next]_vars => IInv'
  <1> SUFFICES ASSUME IInv, [Next]_vars PROVE IInv'
    OBVIOUS
  <1>1. CASE RestartPipeline
    BY <1>1, RestartPreserves
  <1>2. CASE \E i \in BagToSet(pending) : OnData(i) \/ OnTimeout(i)
    BY <1>2, NetworkPreserves
  <1>3. CASE PeriodPasses
    BY <1>3, PeriodPreserves
  <1>4. CASE Execute
    BY <1>4, FillPreserves, DataPreserves, FinishPreserves, GiveUpPreserves,
       ReexpressPreserves, CompletePreserves DEF Execute
  <1>5. CASE UNCHANGED vars
    BY <1>5, UnchangedPreserves
  <1> QED
    BY <1>1, <1>2, <1>3, <1>4, <1>5 DEF Next

\* The inductive invariant holds in every reachable state.
THEOREM Invariance == Spec => []IInv
  <1>1. Init => IInv
    BY InitIInv
  <1>2. IInv /\ [Next]_vars => IInv'
    BY StepPreserves
  <1> QED
    BY <1>1, <1>2, PTL DEF Spec

\* m_activePipeline counts exactly what is outstanding or waits to be processed,
\* it stays within the pipeline, and nothing on its way is requested again: for
\* every range, every pipeline, and every order of answers, timeouts and restarts.
THEOREM PipelineIsExact == Spec => []PipelineExact
  <1> USE RangeAssumption, BoundsAssumption
  <1>1. IInv => PipelineExact
    <2> SUFFICES ASSUME IInv PROVE PipelineExact
      OBVIOUS
    <2>1. TypeOK
      <3>1. /\ m_minSendSeqNo \in Number \cup {m_minSeqNo - 1}
            /\ m_maxInOrderRecvSeqNo \in Number \cup {m_minSeqNo - 1}
            /\ m_outOfOrderRecvSeqNo \subseteq Number
            /\ m_inActivePipeline \subseteq Number
            /\ m_activePipeline \in 0..m_pipeline
        BY DEF IInv, Numerals
      <3>2. IsABag(pending) /\ BagToSet(pending) \subseteq Interests
        BY DEF IInv, OnTheWay
      <3>3. \A k \in DOMAIN jobs : jobs[k].do \in {"fill", "data", "timeout", "finish", "complete"}
        <4>1. jobs \in Seq(Jobs)
          BY DEF IInv, OnTheWay
        <4> QED
          BY <4>1 DEF Jobs
      <3> QED
        BY <3>1, <3>2, <3>3 DEF TypeOK, IInv, Flags, FillAt
    <2>2. NoDoubleRequest
      BY DEF IInv, Untorn, ExactOnTheWay, NoDoubleRequest, Numbers
    <2> QED
      BY <2>1, <2>2 DEF PipelineExact, IInv
  <1> QED
    BY <1>1, Invariance, PTL

\* The in-order number covers only what was delivered, and a fetcher that sends
\* nothing needless calls the finish callback once.
THEOREM FinishIsSound == Spec => []FinishSound
  <1>1. IInv => FinishSound
    <2> SUFFICES ASSUME IInv PROVE FinishSound
      OBVIOUS
    <2>1. FinishesOnce
      <3> SUFFICES ASSUME ~stray, ~torn PROVE finished <= 1
        BY DEF FinishesOnce
      <3>1. finished + Queued("finish") <= 1
        BY DEF IInv, Needed, OneAttempt
      <3>2. jobs \in Seq(Jobs) /\ FillJob \in Jobs
        BY DEF IInv, OnTheWay, FillJob, Jobs
      <3>3. Queued("finish") \in Nat
        BY <3>2, CountAppend, QueuedCounts
      <3>4. finished \in Nat
        BY DEF IInv, Flags
      <3> QED
        BY <3>1, <3>3, <3>4
    <2> QED
      BY <2>1 DEF FinishSound, IInv
  <1> QED
    BY <1>1, Invariance, PTL

-----------------------------------------------------------------------------
(* The fetcher as its manager sees it. *)

Completing == Queued("finish") + Queued("complete")

Stalled == /\ m_active
           /\ pending = EmptyBag
           /\ \A k \in DOMAIN jobs : jobs[k].do \in {"finish", "complete"}

\* What ends the reliance on one end per restart.
Strays == stray \/ torn

LifeOf(active, timedwait, completing, owes, strayed, stalled) ==
    [active |-> active, timedwait |-> timedwait, completing |-> completing,
     owed |-> owes, stray |-> strayed, stalled |-> stalled]

LifeNow == LifeOf(m_active, m_timedwait, Completing, owed, Strays, Stalled)

\* Changing one part of a life.
LEMMA PartOfLife ==
  ASSUME NEW a, NEW t, NEW c, NEW o, NEW s, NEW l, NEW r, r = LifeOf(a, t, c, o, s, l)
  PROVE  /\ \A v : [r EXCEPT !.active = v] = LifeOf(v, t, c, o, s, l)
         /\ \A v : [r EXCEPT !.timedwait = v] = LifeOf(a, v, c, o, s, l)
         /\ \A v : [r EXCEPT !.completing = v] = LifeOf(a, t, v, o, s, l)
         /\ \A v : [r EXCEPT !.owed = v] = LifeOf(a, t, c, v, s, l)
         /\ \A v : [r EXCEPT !.stray = v] = LifeOf(a, t, c, o, v, l)
         /\ \A v : [r EXCEPT !.stalled = v] = LifeOf(a, t, c, o, s, v)
         /\ r.completing = c /\ r.owed = o
  BY DEF LifeOf

\* The values of the flags, under names that the provers do not take apart.
On == TRUE
Off == FALSE

\* The steps of a life change the parts that they name.
LEMMA PartsOfLife ==
  /\ \A a, t, s, l : \A c, o \in Int :
        Life!Started(LifeOf(a, t, c, o, s, l)) = LifeOf(On, t, c, o + 1, s, l)
  /\ \A a, t, s, l : \A c, o \in Int :
        Life!Failed(LifeOf(a, t, c, o, s, l)) = LifeOf(Off, t, c, o - 1, s, l)
  /\ \A a, t, s, l : \A c, o \in Int :
        Life!Completed(LifeOf(a, t, c, o, s, l)) = LifeOf(Off, t, c + 1, o, s, l)
  /\ \A a, t, s, l : \A c, o \in Int :
        Life!Waiting(LifeOf(a, t, c, o, s, l)) = LifeOf(a, On, c, o, s, l)
  /\ \A a, t, s, l : \A c, o \in Int :
        Life!Notified(LifeOf(a, t, c, o, s, l)) = LifeOf(a, t, c - 1, o - 1, s, l)
  /\ \A a, t, s, l : \A c, o \in Int :
        Life!Strayed(LifeOf(a, t, c, o, s, l)) = LifeOf(a, t, c, o, On, l)
  /\ \A a, t, s, l : \A c, o \in Int :
        Life!Stalled(LifeOf(a, t, c, o, s, l)) = LifeOf(a, t, c, o, s, On)
  <1>1. ASSUME NEW a, NEW t, NEW c \in Int, NEW o \in Int, NEW s, NEW l
        PROVE  /\ Life!Started(LifeOf(a, t, c, o, s, l)) = LifeOf(On, t, c, o + 1, s, l)
               /\ Life!Failed(LifeOf(a, t, c, o, s, l)) = LifeOf(Off, t, c, o - 1, s, l)
               /\ Life!Completed(LifeOf(a, t, c, o, s, l)) = LifeOf(Off, t, c + 1, o, s, l)
               /\ Life!Waiting(LifeOf(a, t, c, o, s, l)) = LifeOf(a, On, c, o, s, l)
               /\ Life!Notified(LifeOf(a, t, c, o, s, l)) = LifeOf(a, t, c - 1, o - 1, s, l)
               /\ Life!Strayed(LifeOf(a, t, c, o, s, l)) = LifeOf(a, t, c, o, On, l)
               /\ Life!Stalled(LifeOf(a, t, c, o, s, l)) = LifeOf(a, t, c, o, s, On)
    <2> DEFINE r == LifeOf(a, t, c, o, s, l)
    <2>1. /\ \A v : [r EXCEPT !.active = v] = LifeOf(v, t, c, o, s, l)
          /\ \A v : [r EXCEPT !.timedwait = v] = LifeOf(a, v, c, o, s, l)
          /\ \A v : [r EXCEPT !.completing = v] = LifeOf(a, t, v, o, s, l)
          /\ \A v : [r EXCEPT !.stray = v] = LifeOf(a, t, c, o, v, l)
          /\ \A v : [r EXCEPT !.stalled = v] = LifeOf(a, t, c, o, s, v)
          /\ r.completing = c /\ r.owed = o
      BY DEF LifeOf
    <2> HIDE DEF r
    <2>2. ASSUME NEW v, NEW w PROVE [[r EXCEPT !.active = v] EXCEPT !.owed = w] = LifeOf(v, t, c, w, s, l)
      <3> DEFINE q == [r EXCEPT !.active = v]
      <3>1. q = LifeOf(v, t, c, o, s, l)
        BY <2>1
      <3> HIDE DEF q
      <3>2. [q EXCEPT !.owed = w] = LifeOf(v, t, c, w, s, l)
        BY <3>1, PartOfLife
      <3> QED
        BY <3>2 DEF q
    <2>3. ASSUME NEW v, NEW w PROVE [[r EXCEPT !.active = v] EXCEPT !.completing = w] = LifeOf(v, t, w, o, s, l)
      <3> DEFINE q == [r EXCEPT !.active = v]
      <3>1. q = LifeOf(v, t, c, o, s, l)
        BY <2>1
      <3> HIDE DEF q
      <3>2. [q EXCEPT !.completing = w] = LifeOf(v, t, w, o, s, l)
        BY <3>1, PartOfLife
      <3> QED
        BY <3>2 DEF q
    <2>4. ASSUME NEW v, NEW w PROVE [[r EXCEPT !.completing = v] EXCEPT !.owed = w] = LifeOf(a, t, v, w, s, l)
      <3> DEFINE q == [r EXCEPT !.completing = v]
      <3>1. q = LifeOf(a, t, v, o, s, l)
        BY <2>1
      <3> HIDE DEF q
      <3>2. [q EXCEPT !.owed = w] = LifeOf(a, t, v, w, s, l)
        BY <3>1, PartOfLife
      <3> QED
        BY <3>2 DEF q
    <2>5. Life!Started(r) = LifeOf(On, t, c, o + 1, s, l)
      BY <2>1, <2>2 DEF Life!Started, On, Off
    <2>6. Life!Failed(r) = LifeOf(Off, t, c, o - 1, s, l)
      BY <2>1, <2>2 DEF Life!Failed, On, Off
    <2>7. Life!Completed(r) = LifeOf(Off, t, c + 1, o, s, l)
      BY <2>1, <2>3 DEF Life!Completed, On, Off
    <2>8. Life!Waiting(r) = LifeOf(a, On, c, o, s, l)
      BY <2>1 DEF Life!Waiting, On, Off
    <2>9. Life!Notified(r) = LifeOf(a, t, c - 1, o - 1, s, l)
      BY <2>1, <2>4 DEF Life!Notified
    <2>10. Life!Strayed(r) = LifeOf(a, t, c, o, On, l)
      BY <2>1 DEF Life!Strayed, On, Off
    <2>11. Life!Stalled(r) = LifeOf(a, t, c, o, s, On)
      BY <2>1 DEF Life!Stalled, On, Off
    <2> QED
      BY <2>5, <2>6, <2>7, <2>8, <2>9, <2>10, <2>11 DEF r
  <1> QED
    BY <1>1

\* A fetcher with something to do is not stalled.
LEMMA BusyIsNotStalled ==
  /\ \A k \in DOMAIN jobs : jobs[k].do \notin {"finish", "complete"} => ~Stalled
  /\ \A i \in BagToSet(pending) : ~Stalled
  <1>1. BagToSet(EmptyBag) = {}
    BY DEF EmptyBag, SetToBag, BagToSet
  <1> QED
    BY <1>1 DEF Stalled

\* The counts are numbers.
LEMMA CompletingIsNatural ==
  ASSUME IInv
  PROVE  /\ Queued("finish") \in Nat /\ Queued("complete") \in Nat /\ Completing \in Nat
         /\ jobs \in Seq(Jobs)
  <1>1. jobs \in Seq(Jobs) /\ FillJob \in Jobs
    BY DEF IInv, OnTheWay, FillJob, Jobs
  <1>2. Queued("finish") \in Nat /\ Queued("complete") \in Nat
    BY <1>1, CountAppend, QueuedCounts
  <1> QED
    BY <1>1, <1>2 DEF Completing

\* At first the fetcher is new.
LEMMA InitIsNew == Init => LifeNow = Life!New
  <1> SUFFICES ASSUME Init PROVE LifeNow = Life!New
    OBVIOUS
  <1>1. \A w : Queued(w) = 0
    BY FS_EmptySet DEF Init, Queued
  <1>2. Completing = 0
    BY <1>1 DEF Completing
  <1>3. Stalled = FALSE
    BY DEF Init, Stalled
  <1> QED
    BY <1>2, <1>3 DEF Init, Strays, LifeNow, LifeOf, Life!New

\* A restart starts a life.
LEMMA RestartStarts == IInv /\ RestartPipeline => Life!Start
  <1> SUFFICES ASSUME IInv, RestartPipeline PROVE Life!Start
    OBVIOUS
  <1>1. jobs \in Seq(Jobs) /\ FillJob \in Jobs /\ FillJob.do = "fill"
    BY CompletingIsNatural DEF FillJob, Jobs
  <1>2. Completing' = Completing
    <2>1. \A w \in {"finish", "complete"} : Count(jobs', w) = Count(jobs, w) + 0
      BY <1>1, CountAppend DEF RestartPipeline
    <2> QED
      BY <2>1, CompletingIsNatural, QueuedCounts DEF Completing
  <1>3. Stalled = FALSE
    BY DEF Stalled, RestartPipeline
  <1>4. Stalled' = FALSE
    <2>1. Len(jobs) + 1 \in DOMAIN jobs' /\ jobs'[Len(jobs) + 1] = FillJob
      BY <1>1, AppendProperties, LenProperties DEF RestartPipeline
    <2> QED
      BY <1>1, <2>1 DEF Stalled
  <1>5. Life!MayStart(LifeNow)
    BY DEF Life!MayStart, LifeNow, LifeOf, RestartPipeline
  <1>6. LifeNow' = Life!Started(LifeNow)
    <2>1. /\ m_active' = TRUE /\ m_timedwait' = m_timedwait
          /\ owed' = owed + 1 /\ Strays' = Strays
      BY DEF RestartPipeline, fillVars, Strays
    <2>2. Stalled' = Stalled
      BY <1>3, <1>4, Zenon
    <2>3. LifeNow' = LifeOf(On, m_timedwait, Completing, owed + 1, Strays, Stalled)
      BY <1>2, <2>1, <2>2, Zenon DEF LifeNow, On
    <2>4. Completing \in Int /\ owed \in Int
      BY CompletingIsNatural DEF IInv, Flags
    <2> QED
      BY <2>3, <2>4, PartsOfLife DEF LifeNow
  <1> QED
    BY <1>5, <1>6 DEF Life!Start, LifeNow, LifeOf, Completing, Stalled, Strays

LifeStep == Life!Next \/ UNCHANGED LifeNow

\* OnData, OnTimeout and the clock do not show.
LEMMA NetworkDoesNotShow ==
  IInv /\ (PeriodPasses \/ \E i \in BagToSet(pending) : OnData(i) \/ OnTimeout(i))
    => UNCHANGED LifeNow
  <1>1. ASSUME IInv, PeriodPasses PROVE UNCHANGED LifeNow
    <2>1. Completing' = Completing
      BY <1>1, QueuedCounts DEF PeriodPasses, Completing
    <2>2. Stalled' = Stalled
      BY <1>1 DEF PeriodPasses, Stalled
    <2>3. UNCHANGED <<m_active, m_timedwait, owed, Strays>>
      BY <1>1 DEF PeriodPasses, fillVars, Strays
    <2> QED
      BY <2>1, <2>2, <2>3, Zenon DEF LifeNow
  <1>2. ASSUME IInv, NEW i \in BagToSet(pending), OnData(i) \/ OnTimeout(i)
        PROVE  UNCHANGED LifeNow
    <2> DEFINE e == IF OnData(i) THEN DataJob(i) ELSE TimeoutJob(i)
    <2>1. jobs \in Seq(Jobs) /\ i \in Interests
      BY <1>2 DEF IInv, OnTheWay
    <2>2. e \in Jobs /\ e.do \in {"data", "timeout"}
      BY <2>1 DEF DataJob, TimeoutJob, Jobs
    <2>3. jobs' = Append(jobs, e) /\ UNCHANGED <<m_active, m_timedwait, owed, Strays>>
      BY <1>2 DEF OnData, OnTimeout, fillVars, Strays
    <2> HIDE DEF e
    <2>4. Completing' = Completing
      BY <1>2, <2>1, <2>2, <2>3, CountAppend, CompletingIsNatural, QueuedCounts DEF Completing
    <2>5. Stalled = FALSE
      BY <1>2, BusyIsNotStalled
    <2>6. Stalled' = FALSE
      <3>1. Len(jobs) + 1 \in DOMAIN jobs' /\ jobs'[Len(jobs) + 1] = e
        BY <2>1, <2>2, <2>3, AppendProperties, LenProperties
      <3> QED
        BY <2>2, <3>1 DEF Stalled
    <2> QED
      BY <2>3, <2>4, <2>5, <2>6, Zenon DEF LifeNow
  <1> QED
    BY <1>1, <1>2

\* A job at the front that is not part of the end of a fetch.
LEMMA FrontIsBusy ==
  ASSUME IInv, jobs # <<>>, Head(jobs).do \notin {"finish", "complete"}
  PROVE  Stalled = FALSE
  <1>1. 1 \in DOMAIN jobs /\ Head(jobs) = jobs[1]
    BY CompletingIsNatural, LenProperties, HeadTailProperties, EmptySeq
  <1> QED
    BY <1>1, BusyIsNotStalled

\* An answer belongs to a fetch that has not completed, or to a stray Interest.
LEMMA AnswerIsNeeded ==
  ASSUME IInv, jobs # <<>>, Head(jobs).do \in {"data", "timeout"}, ~Strays
  PROVE  m_active /\ Completing = 0 /\ ~m_timedwait
  <1>1. m_active /\ finished + Queued("finish") = 0
    BY AnswerAtFront DEF Strays
  <1>2. /\ finished \in Nat /\ Queued("finish") \in Nat /\ Queued("complete") \in Nat
        /\ CompleteWaits
    BY CompletingIsNatural DEF IInv, Flags
  <1>3. finished = 0 /\ Queued("finish") = 0
    BY <1>1, <1>2
  <1>4. ~m_timedwait /\ Queued("complete") = 0
    BY <1>2, <1>3 DEF CompleteWaits
  <1> QED
    BY <1>1, <1>3, <1>4 DEF Completing

\* What FillPipeline has taken from the manager's view in a turn of its loop: an
\* Interest that nobody needs, or a turn that was torn, or nothing.
LEMMA TurnShows ==
  ASSUME IInv, jobs # <<>>, Head(jobs).do = "fill", Stalled' = FALSE,
         UNCHANGED <<jobs, m_active, m_timedwait, owed>>, Strays => Strays'
  PROVE  LifeStep
  <1>1. Completing \in Int /\ owed \in Int
    BY CompletingIsNatural DEF IInv, Flags
  <1>2. Completing' = Completing
    BY QueuedCounts DEF Completing
  <1>3. Stalled = FALSE
    BY FrontIsBusy
  <1>4. Strays \in BOOLEAN /\ Strays' \in BOOLEAN
    BY DEF Strays
  <1>5. CASE Strays' = Strays
    BY <1>2, <1>3, <1>5, Zenon DEF LifeNow, LifeStep
  <1>6. CASE Strays' # Strays
    <2>1. Strays' = TRUE
      BY <1>4, <1>6
    <2>2. LifeNow' = LifeOf(m_active, m_timedwait, Completing, owed, On, Stalled)
      BY <1>2, <1>3, <2>1, Zenon DEF LifeNow, On
    <2>3. LifeNow' = Life!Strayed(LifeNow)
      BY <1>1, <2>2, PartsOfLife DEF LifeNow
    <2> QED
      BY <2>3 DEF LifeStep, Life!Next, Life!Stray, LifeNow, LifeOf, Completing, Stalled, Strays
  <1> QED
    BY <1>5, <1>6

\* FillPipeline does not show, unless it sends what is needless, or is torn, or ends
\* with nothing on its way.
LEMMA FillShows == IInv /\ FillPipeline => LifeStep
  <1> SUFFICES ASSUME IInv, FillPipeline PROVE LifeStep
    OBVIOUS
  <1>1. /\ jobs # <<>> /\ Head(jobs).do = "fill"
        /\ UNCHANGED <<m_active, m_timedwait, owed>>
    BY DEF FillPipeline, FillTest, FillFind, FillInsert, FillExpress, FillAdvance,
           Filling, Job, notFill
  <1>2. Completing \in Int /\ owed \in Int /\ jobs \in Seq(Jobs)
    BY CompletingIsNatural DEF IInv, Flags
  <1>3. Stalled = FALSE
    BY <1>1, FrontIsBusy
  <1>4. ASSUME jobs' = jobs, Strays => Strays' PROVE LifeStep
    <2>1. 1 \in DOMAIN jobs /\ Head(jobs) = jobs[1]
      BY <1>1, <1>2, LenProperties, HeadTailProperties, EmptySeq
    <2>2. Stalled' = FALSE
      BY <1>1, <1>4, <2>1 DEF Stalled
    <2> QED
      BY <1>1, <1>4, <2>2, TurnShows
  <1>5. CASE FillTest /\ jobs' = jobs
    <2>1. Strays => Strays'
      BY <1>5 DEF FillTest, Strays
    <2> QED
      BY <1>4, <1>5, <2>1
  <1>6. CASE FillFind \/ FillInsert \/ FillExpress \/ FillAdvance
    <2>1. jobs' = jobs /\ (stray => stray') /\ (torn => torn')
      <3>1. jobs' = jobs
        BY <1>6 DEF FillFind, FillInsert, FillExpress, FillAdvance, notFill
      <3>2. CASE FillFind \/ FillInsert \/ FillAdvance
        <4>1. UNCHANGED stray
          BY <3>2 DEF FillFind, FillInsert, FillAdvance
        <4>2. torn' = (torn \/ m_minSendSeqNo # fill.n)
          BY <3>2 DEF FillFind, FillInsert, FillAdvance, Reads
        <4>3. torn => torn'
          BY <4>2, Zenon
        <4> QED
          BY <3>1, <4>1, <4>3
      <3>3. CASE FillExpress
        <4>1. torn' = (torn \/ m_minSendSeqNo # fill.n)
          BY <3>3 DEF FillExpress
        <4>2. \E s : stray' = (stray \/ Needless(s + 1))
          BY <3>3, Zenon DEF FillExpress
        <4>3. (torn => torn') /\ (stray => stray')
          BY <4>1, <4>2, Zenon
        <4> QED
          BY <3>1, <4>3
      <3> QED
        BY <1>6, <3>2, <3>3
    <2>2. Strays => Strays'
      BY <2>1 DEF Strays
    <2> QED
      BY <1>4, <2>1, <2>2
  <1>7. CASE FillTest /\ jobs' = Tail(jobs)
    <2>1. UNCHANGED <<stray, torn>>
      BY <1>7 DEF FillTest
    <2>2. Strays' = Strays
      BY <2>1 DEF Strays
    <2>3. Completing' = Completing
      <3>1. \A w \in {"finish", "complete"} : Count(jobs', w) = Count(jobs, w) - 0
        BY <1>1, <1>2, <1>7, CountTail
      <3> QED
        BY <3>1, CompletingIsNatural, QueuedCounts DEF Completing
    <2>4. CASE ~Stalled'
      <3>1. Stalled' = FALSE
        BY <2>4 DEF Stalled
      <3> QED
        BY <1>1, <1>3, <2>2, <2>3, <3>1, Zenon DEF LifeNow, LifeStep
    <2>5. CASE Stalled'
      <3>1. Stalled' = TRUE /\ m_active
        BY <1>1, <2>5 DEF Stalled
      <3>2. LifeNow' = LifeOf(m_active, m_timedwait, Completing, owed, Strays, On)
        BY <1>1, <2>2, <2>3, <3>1, Zenon DEF LifeNow, On
      <3>3. LifeNow' = Life!Stalled(LifeNow)
        BY <1>2, <3>2, PartsOfLife DEF LifeNow
      <3>4. Life!MayStall(LifeNow)
        BY <1>3, <3>1 DEF Life!MayStall, LifeNow, LifeOf
      <3> QED
        BY <3>3, <3>4 DEF LifeStep, Life!Next, Life!Stall, LifeNow, LifeOf, Completing,
                          Stalled, Strays
    <2> QED
      BY <2>4, <2>5
  <1>8. FillTest => jobs' = jobs \/ jobs' = Tail(jobs)
    BY DEF FillTest
  <1> QED
    BY <1>5, <1>6, <1>7, <1>8 DEF FillPipeline

\* OnData_Execute completes the fetch or does not show.
LEMMA DataShows == IInv /\ OnDataExecute => LifeStep
  <1> SUFFICES ASSUME IInv, OnDataExecute PROVE LifeStep
    OBVIOUS
  <1> DEFINE last == InOrder(m_outOfOrderRecvSeqNo \cup {Head(jobs).i.seqno})
  <1>1. /\ jobs # <<>> /\ Head(jobs).do = "data"
        /\ UNCHANGED <<m_timedwait, owed, Strays>>
    BY DEF OnDataExecute, Job, fillVars, Strays
  <1>2. \/ last = m_maxSeqNo /\ m_active' = FALSE /\ jobs' = FirstReplaced(jobs, FinishJob)
        \/ m_active' = m_active /\ jobs' = Append(Tail(jobs), FillJob)
    BY DEF OnDataExecute, FirstReplaced
  <1>3. /\ Completing \in Int /\ owed \in Int /\ jobs \in Seq(Jobs)
        /\ Queued("finish") \in Nat /\ Queued("complete") \in Nat
    BY CompletingIsNatural DEF IInv, Flags
  <1>4. Stalled = FALSE
    BY <1>1, FrontIsBusy
  <1>5. CASE m_active' = FALSE /\ jobs' = FirstReplaced(jobs, FinishJob)
    <2>1. FinishJob \in Jobs /\ FinishJob.do = "finish"
      BY DEF FinishJob, Jobs
    <2>2. Count(jobs', "finish") = Count(jobs, "finish") - 0 + 1
      BY <1>1, <1>3, <1>5, <2>1, CountReplace
    <2>3. Count(jobs', "complete") = Count(jobs, "complete") - 0 + 0
      BY <1>1, <1>3, <1>5, <2>1, CountReplace
    <2>4. Completing' = Completing + 1
      BY <1>3, <2>2, <2>3, QueuedCounts DEF Completing
    <2>5. Stalled' = FALSE
      BY <1>5 DEF Stalled
    <2>6. LifeNow' = LifeOf(Off, m_timedwait, Completing + 1, owed, Strays, Stalled)
      BY <1>1, <1>4, <1>5, <2>4, <2>5, Zenon DEF LifeNow, Off
    <2>7. LifeNow' = Life!Completed(LifeNow)
      BY <1>3, <2>6, PartsOfLife DEF LifeNow
    <2>8. Life!MayEnd(LifeNow)
      <3>1. Strays \/ (m_active /\ Completing = 0 /\ ~m_timedwait)
        BY <1>1, AnswerIsNeeded
      <3>2. /\ LifeNow.active = m_active /\ LifeNow.timedwait = m_timedwait
            /\ LifeNow.stray = Strays /\ LifeNow.stalled = Stalled
            /\ LifeNow.completing = Completing
        BY DEF LifeNow, LifeOf
      <3> QED
        BY <1>4, <3>1, <3>2, Zenon DEF Life!MayEnd
    <2> QED
      BY <2>7, <2>8 DEF LifeStep, Life!Next, Life!Complete, LifeNow, LifeOf, Completing, Stalled, Strays
  <1>6. CASE m_active' = m_active /\ jobs' = Append(Tail(jobs), FillJob)
    <2>1. FillJob \in Jobs /\ FillJob.do = "fill"
      BY DEF FillJob, Jobs
    <2>2. \A w \in {"finish", "complete"} :
             Tail(jobs) \in Seq(Jobs) /\ Count(Tail(jobs), w) = Count(jobs, w) - 0
      BY <1>1, <1>3, CountTail
    <2>3. \A w \in {"finish", "complete"} : Count(jobs', w) = Count(Tail(jobs), w) + 0
      BY <1>6, <2>1, <2>2, CountAppend
    <2>4. Completing' = Completing
      BY <1>3, <2>2, <2>3, QueuedCounts DEF Completing
    <2>5. Stalled' = FALSE
      <3> DEFINE p == Tail(jobs)
      <3>1. Len(p) + 1 \in DOMAIN jobs' /\ jobs'[Len(p) + 1] = FillJob
        BY <1>6, <2>1, <2>2, AppendProperties, LenProperties
      <3> QED
        BY <2>1, <3>1 DEF Stalled
    <2> QED
      BY <1>1, <1>4, <1>6, <2>4, <2>5, Zenon DEF LifeNow, LifeStep
  <1> QED
    BY <1>2, <1>5, <1>6

\* Giving up ends the fetch with the last Interest, may stall it, or does not show.
LEMMA GiveUpShows == IInv /\ OnTimeoutGiveUp => LifeStep
  <1> SUFFICES ASSUME IInv, OnTimeoutGiveUp PROVE LifeStep
    OBVIOUS
  <1>1. /\ jobs # <<>> /\ Head(jobs).do = "timeout"
        /\ jobs' = Tail(jobs)
        /\ UNCHANGED <<m_timedwait, Strays>>
        /\ owed' = IF m_activePipeline' = 0 THEN owed - 1 ELSE owed
    BY DEF OnTimeoutGiveUp, Job, fillVars, Strays
  <1>2. m_active' = (m_active /\ m_activePipeline' # 0)
    BY DEF OnTimeoutGiveUp
  <1>3. Completing \in Int /\ owed \in Int /\ jobs \in Seq(Jobs)
    BY CompletingIsNatural DEF IInv, Flags
  <1>4. Completing' = Completing
    <2>1. \A w \in {"finish", "complete"} : Count(jobs', w) = Count(jobs, w) - 0
      BY <1>1, <1>3, CountTail
    <2> QED
      BY <2>1, CompletingIsNatural, QueuedCounts DEF Completing
  <1>5. Stalled = FALSE
    BY <1>1, FrontIsBusy
  <1>6. CASE m_activePipeline' = 0
    <2>1. m_active' = FALSE
      BY <1>2, <1>6
    <2>2. Stalled' = FALSE
      BY <2>1 DEF Stalled
    <2>3. owed' = owed - 1
      BY <1>1, <1>6
    <2>4. LifeNow' = LifeOf(Off, m_timedwait, Completing, owed - 1, Strays, Stalled)
      BY <1>1, <1>4, <1>5, <2>1, <2>2, <2>3, Zenon DEF LifeNow, Off
    <2>5. LifeNow' = Life!Failed(LifeNow)
      BY <1>3, <2>4, PartsOfLife DEF LifeNow
    <2>6. Life!MayEnd(LifeNow)
      <3>1. Strays \/ (m_active /\ Completing = 0 /\ ~m_timedwait)
        BY <1>1, AnswerIsNeeded
      <3>2. /\ LifeNow.active = m_active /\ LifeNow.timedwait = m_timedwait
            /\ LifeNow.stray = Strays /\ LifeNow.stalled = Stalled
            /\ LifeNow.completing = Completing
        BY DEF LifeNow, LifeOf
      <3> QED
        BY <1>5, <3>1, <3>2, Zenon DEF Life!MayEnd
    <2> QED
      BY <2>5, <2>6 DEF LifeStep, Life!Next, Life!Fail, LifeNow, LifeOf, Completing, Stalled, Strays
  <1>7. CASE m_activePipeline' # 0
    <2>1. m_active' = m_active /\ owed' = owed
      <3>1. m_active \in BOOLEAN
        BY DEF IInv, Flags
      <3>2. m_active' = m_active
        BY <1>2, <1>7, <3>1, Zenon
      <3> QED
        BY <1>1, <1>7, <3>2
    <2>2. CASE ~Stalled'
      <3>1. Stalled' = FALSE
        BY <2>2 DEF Stalled
      <3> QED
        BY <1>1, <1>4, <1>5, <2>1, <3>1, Zenon DEF LifeNow, LifeStep
    <2>3. CASE Stalled'
      <3>1. Stalled' = TRUE /\ m_active
        BY <2>1, <2>3 DEF Stalled
      <3>2. LifeNow' = LifeOf(m_active, m_timedwait, Completing, owed, Strays, On)
        BY <1>1, <1>4, <2>1, <3>1, Zenon DEF LifeNow, On
      <3>3. LifeNow' = Life!Stalled(LifeNow)
        BY <1>3, <3>2, PartsOfLife DEF LifeNow
      <3>4. Life!MayStall(LifeNow)
        BY <1>5, <3>1 DEF Life!MayStall, LifeNow, LifeOf
      <3> QED
        BY <3>3, <3>4 DEF LifeStep, Life!Next, Life!Stall, LifeNow, LifeOf, Completing, Stalled, Strays
    <2> QED
      BY <2>2, <2>3
  <1> QED
    BY <1>6, <1>7

\* Sending an Interest again does not show.
LEMMA ReexpressDoesNotShow == IInv /\ OnTimeoutReexpress => UNCHANGED LifeNow
  <1> SUFFICES ASSUME IInv, OnTimeoutReexpress PROVE UNCHANGED LifeNow
    OBVIOUS
  <1>1. /\ jobs # <<>> /\ Head(jobs).do = "timeout"
        /\ jobs' = Tail(jobs)
        /\ \E j : pending' = pending (+) SetToBag({j})
        /\ UNCHANGED <<m_active, m_timedwait, owed, Strays>>
    BY DEF OnTimeoutReexpress, Job, fillVars, Strays
  <1>2. jobs \in Seq(Jobs)
    BY CompletingIsNatural
  <1>3. Completing' = Completing
    <2>1. \A w \in {"finish", "complete"} : Count(jobs', w) = Count(jobs, w) - 0
      BY <1>1, <1>2, CountTail
    <2> QED
      BY <2>1, CompletingIsNatural, QueuedCounts DEF Completing
  <1>4. Stalled = FALSE
    BY <1>1, FrontIsBusy
  <1>5. Stalled' = FALSE
    <2>1. BagToSet(pending') # {}
      BY <1>1 DEF BagToSet, SetToBag, (+)
    <2>2. BagToSet(EmptyBag) = {}
      BY DEF EmptyBag, SetToBag, BagToSet
    <2> QED
      BY <2>1, <2>2 DEF Stalled
  <1> QED
    BY <1>1, <1>3, <1>4, <1>5, Zenon DEF LifeNow

\* All that is queued belongs to the end of a fetch.
OnlyEnds(q) == \A k \in DOMAIN q : q[k].do \in {"finish", "complete"}

\* Taking one such job from the front, and appending another, changes nothing.
LEMMA EndsStayEnds ==
  ASSUME NEW q \in Seq(Jobs), NEW e \in Jobs, e.do \in {"finish", "complete"}
  PROVE  /\ OnlyEnds(Append(q, e)) <=> OnlyEnds(q)
         /\ q # <<>> /\ Head(q).do \in {"finish", "complete"}
               => Tail(q) \in Seq(Jobs) /\ (OnlyEnds(Tail(q)) <=> OnlyEnds(q))
  <1>1. /\ Len(q) \in Nat /\ DOMAIN q = 1..Len(q)
        /\ DOMAIN Append(q, e) = 1..(Len(q) + 1)
        /\ \A k \in 1..Len(q) : Append(q, e)[k] = q[k]
        /\ Append(q, e)[Len(q) + 1] = e
    BY LenProperties, AppendProperties
  <1>2. OnlyEnds(Append(q, e)) <=> OnlyEnds(q)
    BY <1>1 DEF OnlyEnds
  <1>3. ASSUME q # <<>>, Head(q).do \in {"finish", "complete"}
        PROVE  Tail(q) \in Seq(Jobs) /\ (OnlyEnds(Tail(q)) <=> OnlyEnds(q))
    <2>1. /\ Tail(q) \in Seq(Jobs) /\ DOMAIN Tail(q) = 1..(Len(q) - 1)
          /\ \A k \in 1..(Len(q) - 1) : Tail(q)[k] = q[k + 1]
          /\ Head(q) = q[1] /\ Len(q) > 0
      BY <1>1, <1>3, LenProperties, HeadTailProperties, EmptySeq
    <2>2. ASSUME OnlyEnds(q), NEW k \in DOMAIN Tail(q)
          PROVE  Tail(q)[k].do \in {"finish", "complete"}
      <3>1. k + 1 \in DOMAIN q /\ Tail(q)[k] = q[k + 1]
        BY <1>1, <2>1
      <3> QED
        BY <2>2, <3>1 DEF OnlyEnds
    <2>3. ASSUME OnlyEnds(Tail(q)), NEW k \in DOMAIN q
          PROVE  q[k].do \in {"finish", "complete"}
      <3>1. CASE k = 1
        BY <1>3, <2>1, <3>1
      <3>2. CASE k # 1
        <4>1. k - 1 \in DOMAIN Tail(q) /\ Tail(q)[k - 1] = q[(k - 1) + 1] /\ (k - 1) + 1 = k
          BY <1>1, <2>1, <3>2
        <4>2. Tail(q)[k - 1].do \in {"finish", "complete"}
          BY <2>3, <4>1 DEF OnlyEnds
        <4> QED
          BY <4>1, <4>2
      <3> QED
        BY <3>1, <3>2
    <2> QED
      BY <2>1, <2>2, <2>3 DEF OnlyEnds
  <1> QED
    BY <1>2, <1>3

\* The finish callback is followed by the timed-wait.
LEMMA FinishShows == IInv /\ FinishFetch => LifeStep
  <1> SUFFICES ASSUME IInv, FinishFetch PROVE LifeStep
    OBVIOUS
  <1>1. /\ jobs # <<>> /\ Head(jobs).do = "finish"
        /\ jobs' = Append(Tail(jobs), CompleteJob)
        /\ CompleteJob \in Jobs /\ CompleteJob.do = "complete"
        /\ m_timedwait' = TRUE
        /\ UNCHANGED <<m_active, pending, owed, Strays>>
    BY DEF FinishFetch, Job, CompleteJob, Jobs, fillVars, Strays
  <1>2. /\ Completing \in Int /\ owed \in Int /\ jobs \in Seq(Jobs)
        /\ Queued("finish") \in Nat /\ Queued("complete") \in Nat
    BY CompletingIsNatural DEF IInv, Flags
  <1>3. /\ Tail(jobs) \in Seq(Jobs)
        /\ Count(Tail(jobs), "finish") = Count(jobs, "finish") - 1
    BY <1>1, <1>2, CountTail
  <1>4. Count(Tail(jobs), "complete") = Count(jobs, "complete") - 0
    BY <1>1, <1>2, CountTail
  <1>5. /\ Count(jobs', "finish") = Count(Tail(jobs), "finish") + 0
        /\ Count(jobs', "complete") = Count(Tail(jobs), "complete") + 1
        /\ Count(Tail(jobs), "finish") \in Nat
    BY <1>1, <1>3, CountAppend
  <1>6. Completing' = Completing /\ Completing > 0
    BY <1>2, <1>3, <1>4, <1>5, QueuedCounts DEF Completing
  <1>7. Stalled' = Stalled
    <2>1. OnlyEnds(jobs') <=> OnlyEnds(jobs)
      BY <1>1, <1>2, <1>3, EndsStayEnds
    <2> QED
      BY <1>1, <2>1 DEF Stalled, OnlyEnds
  <1>8. LifeNow' = LifeOf(m_active, On, Completing, owed, Strays, Stalled)
    BY <1>1, <1>6, <1>7, Zenon DEF LifeNow, On
  <1>9. LifeNow' = Life!Waiting(LifeNow)
    BY <1>2, <1>8, PartsOfLife DEF LifeNow
  <1>10. Life!MayWait(LifeNow)
    BY <1>6 DEF Life!MayWait, LifeNow, LifeOf
  <1> QED
    BY <1>9, <1>10 DEF LifeStep, Life!Next, Life!Wait, LifeNow, LifeOf, Completing, Stalled, Strays

\* The manager is told of a completed fetch.
LEMMA CompleteShows == IInv /\ OnFetchComplete => LifeStep
  <1> SUFFICES ASSUME IInv, OnFetchComplete PROVE LifeStep
    OBVIOUS
  <1>1. /\ jobs # <<>> /\ Head(jobs).do = "complete"
        /\ jobs' = Tail(jobs)
        /\ owed' = owed - 1
        /\ UNCHANGED <<m_active, m_timedwait, pending, Strays>>
    BY DEF OnFetchComplete, Job, fillVars, Strays
  <1>2. /\ Completing \in Int /\ owed \in Int /\ jobs \in Seq(Jobs)
        /\ Queued("finish") \in Nat /\ Queued("complete") \in Nat
    BY CompletingIsNatural DEF IInv, Flags
  <1>3. /\ Count(Tail(jobs), "complete") = Count(jobs, "complete") - 1
        /\ Tail(jobs) \in Seq(Jobs)
    BY <1>1, <1>2, CountTail
  <1>4. Count(Tail(jobs), "finish") = Count(jobs, "finish") - 0
    BY <1>1, <1>2, CountTail
  <1>5. CompleteJob \in Jobs /\ CompleteJob.do = "complete"
    BY DEF CompleteJob, Jobs
  <1>6. Count(jobs', "complete") \in Nat
    BY <1>1, <1>3, <1>5, CountAppend
  <1>7. Completing' = Completing - 1 /\ Completing > 0 /\ Queued("complete") > 0
    BY <1>1, <1>2, <1>3, <1>4, <1>6, QueuedCounts DEF Completing
  <1>8. Stalled' = Stalled
    <2>1. OnlyEnds(jobs') <=> OnlyEnds(jobs)
      BY <1>1, <1>2, <1>5, EndsStayEnds
    <2> QED
      BY <1>1, <2>1 DEF Stalled, OnlyEnds
  <1>9. LifeNow' = LifeOf(m_active, m_timedwait, Completing - 1, owed - 1, Strays, Stalled)
    BY <1>1, <1>7, <1>8, Zenon DEF LifeNow
  <1>10. LifeNow' = Life!Notified(LifeNow)
    BY <1>2, <1>9, PartsOfLife DEF LifeNow
  <1>11. Life!MayNotify(LifeNow)
    <2>1. m_timedwait
      BY <1>7 DEF IInv, CompleteWaits
    <2> QED
      BY <1>7, <2>1 DEF Life!MayNotify, LifeNow, LifeOf
  <1> QED
    BY <1>10, <1>11 DEF LifeStep, Life!Next, Life!Notify, LifeNow, LifeOf, Completing, Stalled, Strays

\* Every step of the fetcher is a step of its life or does not show.
LEMMA StepIsLifeStep == IInv /\ [Next]_vars => [Life!Next]_LifeNow
  <1> SUFFICES ASSUME IInv, [Next]_vars PROVE LifeStep
    BY DEF LifeStep
  <1>1. CASE RestartPipeline
    BY <1>1, RestartStarts DEF LifeStep, Life!Next
  <1>2. CASE PeriodPasses \/ \E i \in BagToSet(pending) : OnData(i) \/ OnTimeout(i)
    BY <1>2, NetworkDoesNotShow DEF LifeStep
  <1>3. CASE Execute
    BY <1>3, FillShows, DataShows, FinishShows, GiveUpShows, ReexpressDoesNotShow,
       CompleteShows DEF Execute, LifeStep
  <1>4. CASE UNCHANGED vars
    <2>1. Completing' = Completing
      BY <1>4, QueuedCounts DEF vars, Completing
    <2>2. Stalled' = Stalled
      BY <1>4 DEF vars, Stalled
    <2>3. UNCHANGED <<m_active, m_timedwait, owed, Strays>>
      BY <1>4 DEF vars, fillVars, Strays
    <2> QED
      BY <2>1, <2>2, <2>3, Zenon DEF LifeNow, LifeStep
  <1> QED
    BY <1>1, <1>2, <1>3, <1>4 DEF Next

\* The fetcher implements FetcherLife, whatever the network does: every restart is
\* answered by one end of a fetch, but for needless Interests, torn fills and stalls.
THEOREM FetcherImplementsLife == Spec => ImplementsLife
  <1>1. Init => LifeNow = Life!New
    BY InitIsNew
  <1>2. IInv /\ [Next]_vars => [Life!Next]_LifeNow
    BY StepIsLifeStep
  <1>3. Spec => LifeNow = Life!New /\ [][Life!Next]_LifeNow
    BY <1>1, <1>2, Invariance, PTL DEF Spec
  <1>4. LifeNow = Life!New /\ [][Life!Next]_LifeNow => Life!Spec
    BY DEF Life!Spec, Life!Init, LifeNow, LifeOf, Completing, Stalled, Strays
  <1> QED
    BY <1>3, <1>4 DEF ImplementsLife
=============================================================================
