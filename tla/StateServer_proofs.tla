------------------------ MODULE StateServer_proofs ------------------------
(***************************************************************************)
(* The safety properties of StateServer, for any actions, files, folders   *)
(* and restore commands, any size of a page and any number of pages,       *)
(* insertions and removals.                                                *)
(***************************************************************************)
EXTENDS StateServer, FiniteSetTheorems, TLAPS

-----------------------------------------------------------------------------
(* Sequences.                                                               *)

\* A job that is not in a queue without repetitions is added at its end.
LEMMA QueueAppend ==
  ASSUME NEW S, NEW q \in Seq(S), IsInjective(q), NEW x \in S, x \notin Range(q)
  PROVE  /\ Append(q, x) \in Seq(S) /\ IsInjective(Append(q, x)) /\ Append(q, x) # <<>>
         /\ Range(Append(q, x)) = Range(q) \cup {x}
         /\ q # <<>> => Head(Append(q, x)) = Head(q)
  <1> DEFINE r == Append(q, x)
  <1>1. /\ r \in Seq(S) /\ Len(r) = Len(q) + 1 /\ Len(q) \in Nat
        /\ DOMAIN r = 1..(Len(q) + 1) /\ DOMAIN q = 1..Len(q)
        /\ \A k \in 1..Len(q) : r[k] = q[k]
        /\ r[Len(q) + 1] = x
    OBVIOUS
  <1>2. r # <<>> /\ (q # <<>> => Head(r) = Head(q))
    <2>1. r # <<>>
      BY <1>1
    <2>2. ASSUME q # <<>> PROVE Head(r) = Head(q)
      <3>1. 1 \in 1..Len(q)
        BY <2>2
      <3>2. Head(r) = r[1] /\ Head(q) = q[1]
        BY <2>1, <2>2
      <3> QED BY <1>1, <3>1, <3>2
    <2> QED BY <2>1, <2>2
  <1> HIDE DEF r
  <1>3. \A k \in 1..(Len(q) + 1) : k \in 1..Len(q) \/ k = Len(q) + 1
    BY <1>1
  <1>4. Range(r) = Range(q) \cup {x}
    <2>1. \A k \in DOMAIN q : k \in DOMAIN r /\ r[k] = q[k]
      BY <1>1
    <2>2. Len(q) + 1 \in DOMAIN r
      BY <1>1
    <2> QED BY <1>1, <1>3, <2>1, <2>2, Zenon DEF Range
  <1>5. IsInjective(r)
    <2>1. \A k \in 1..Len(q) : q[k] # x
      BY <1>1 DEF Range
    <2>2. \A j, k \in 1..Len(q) : q[j] = q[k] => j = k
      BY <1>1 DEF IsInjective
    <2>3. \A j, k \in 1..(Len(q) + 1) : r[j] = r[k] => j = k
      BY <1>1, <1>3, <2>1, <2>2
    <2> QED BY <1>1, <2>3 DEF IsInjective
  <1> QED BY <1>1, <1>2, <1>4, <1>5 DEF r

\* Its first job is taken off.
LEMMA QueueTail ==
  ASSUME NEW S, NEW q \in Seq(S), IsInjective(q), q # <<>>
  PROVE  /\ Tail(q) \in Seq(S) /\ IsInjective(Tail(q)) /\ Head(q) \in S
         /\ Range(q) = Range(Tail(q)) \cup {Head(q)} /\ Head(q) \notin Range(Tail(q))
  <1>1. /\ DOMAIN q = 1..Len(q) /\ Len(q) \in Nat \ {0} /\ Head(q) = q[1] /\ q[1] \in S
        /\ Tail(q) \in Seq(S) /\ DOMAIN Tail(q) = 1..(Len(q) - 1)
        /\ \A k \in 1..(Len(q) - 1) : Tail(q)[k] = q[k + 1]
    OBVIOUS
  <1> DEFINE r == Tail(q)
  <1> HIDE DEF r
  <1>2. IsInjective(r)
    <2>1. \A j, k \in 1..(Len(q) - 1) : j + 1 \in 1..Len(q) /\ k + 1 \in 1..Len(q) /\ (j + 1 = k + 1 => j = k)
      BY <1>1
    <2> QED BY <1>1, <2>1 DEF IsInjective, r
  <1>3. Range(q) = Range(r) \cup {Head(q)}
    <2>1. \A k \in DOMAIN q : k = 1 \/ (k - 1 \in DOMAIN r /\ r[k - 1] = q[k])
      BY <1>1 DEF r
    <2>2. \A k \in DOMAIN r : k + 1 \in DOMAIN q /\ r[k] = q[k + 1]
      BY <1>1 DEF r
    <2>3. 1 \in DOMAIN q /\ Head(q) = q[1]
      BY <1>1
    <2>4. ASSUME NEW k \in DOMAIN q PROVE q[k] \in Range(r) \cup {Head(q)}
      BY <2>1, <2>3 DEF Range
    <2>5. ASSUME NEW k \in DOMAIN r PROVE r[k] \in Range(q)
      BY <2>2 DEF Range
    <2>6. Head(q) \in Range(q)
      BY <2>3 DEF Range
    <2> QED BY <2>4, <2>5, <2>6 DEF Range
  <1>4. Head(q) \notin Range(r)
    <2>1. \A k \in DOMAIN r : r[k] = q[k + 1] /\ k + 1 \in DOMAIN q /\ 1 \in DOMAIN q /\ k + 1 # 1
      BY <1>1 DEF r
    <2>2. \A k \in DOMAIN r : r[k] # q[1]
      BY <2>1 DEF IsInjective
    <2> HIDE DEF r
    <2>3. Head(q) = q[1]
      BY <1>1
    <2> QED BY <2>2, <2>3, Zenon DEF Range
  <1> QED BY <1>1, <1>2, <1>3, <1>4 DEF r

\* Where the row at place j is after one has been inserted at place k.
Shifted(j, k) == IF j < k THEN j ELSE j + 1

\* Insertion into a sequence, place by place.
LEMMA InsertPlaces ==
  ASSUME NEW S, NEW s \in Seq(S), NEW k \in 1..(Len(s) + 1), NEW x \in S
  PROVE  LET t == InsertAt(s, k, x)
         IN  /\ t \in Seq(S) /\ DOMAIN t = 1..(Len(s) + 1) /\ t[k] = x
             /\ \A j \in DOMAIN s : Shifted(j, k) \in DOMAIN t \ {k} /\ t[Shifted(j, k)] = s[j]
             /\ \A i \in DOMAIN t : i = k \/ \E j \in DOMAIN s : i = Shifted(j, k)
  <1> DEFINE n == Len(s)
             u == SubSeq(s, 1, k - 1)
             v == SubSeq(s, k, n)
             t == (u \o <<x>>) \o v
  <1>1. n \in Nat /\ DOMAIN s = 1..n /\ k \in Int /\ 1 <= k /\ k <= n + 1
    OBVIOUS
  <1>2. u \in Seq(S) /\ Len(u) = k - 1 /\ \A j \in 1..(k - 1) : u[j] = s[j]
    BY <1>1
  <1>3. v \in Seq(S) /\ Len(v) = n - k + 1 /\ \A j \in 1..(n - k + 1) : v[j] = s[k + j - 1]
    BY <1>1
  <1>4. InsertAt(s, k, x) = t
    BY DEF InsertAt
  <1> HIDE DEF u, v
  <1> DEFINE w == u \o <<x>>
  <1>5. w \in Seq(S) /\ Len(w) = k /\ w[k] = x /\ \A j \in 1..(k - 1) : w[j] = s[j]
    BY <1>1, <1>2
  <1> HIDE DEF w
  <1>6. /\ w \o v \in Seq(S) /\ DOMAIN (w \o v) = 1..(n + 1)
        /\ \A j \in 1..k : (w \o v)[j] = w[j]
        /\ \A j \in (k + 1)..(n + 1) : (w \o v)[j] = v[j - k]
    BY <1>1, <1>3, <1>5
  <1>7. t = w \o v
    BY DEF w
  <1> HIDE DEF t
  <1>8. \A j \in (k + 1)..(n + 1) : t[j] = s[j - 1]
    <2> SUFFICES ASSUME NEW j \in (k + 1)..(n + 1) PROVE t[j] = s[j - 1]
      OBVIOUS
    <2>1. j - k \in 1..(n - k + 1) /\ k + (j - k) - 1 = j - 1
      BY <1>1
    <2> QED BY <1>3, <1>6, <1>7, <2>1
  <1>9. t[k] = x /\ \A j \in 1..(k - 1) : t[j] = s[j]
    BY <1>1, <1>5, <1>6, <1>7
  <1>10. \A j \in DOMAIN s : Shifted(j, k) \in 1..(n + 1) /\ Shifted(j, k) # k /\ t[Shifted(j, k)] = s[j]
    <2> SUFFICES ASSUME NEW j \in 1..n
                 PROVE  Shifted(j, k) \in 1..(n + 1) /\ Shifted(j, k) # k /\ t[Shifted(j, k)] = s[j]
      BY <1>1
    <2>1. CASE j < k
      BY <1>1, <1>9, <2>1 DEF Shifted
    <2>2. CASE ~(j < k)
      <3>1. j + 1 \in (k + 1)..(n + 1) /\ Shifted(j, k) = j + 1 /\ (j + 1) - 1 = j
        BY <1>1, <2>2 DEF Shifted
      <3> QED BY <1>1, <1>8, <3>1
    <2> QED BY <2>1, <2>2
  <1>11. \A i \in 1..(n + 1) : i = k \/ \E j \in DOMAIN s : i = Shifted(j, k)
    <2> SUFFICES ASSUME NEW i \in 1..(n + 1), i # k PROVE \E j \in 1..n : i = Shifted(j, k)
      BY <1>1
    <2>1. CASE i < k
      BY <1>1, <2>1 DEF Shifted
    <2>2. CASE ~(i < k)
      <3>1. i - 1 \in 1..n /\ Shifted(i - 1, k) = i
        BY <1>1, <2>2 DEF Shifted
      <3> QED BY <3>1
    <2> QED BY <2>1, <2>2
  <1> QED BY <1>4, <1>6, <1>7, <1>9, <1>10, <1>11

\* Insertion of what is not there keeps a table without repetitions.
LEMMA InsertInjective ==
  ASSUME NEW S, NEW s \in Seq(S), NEW k \in 1..(Len(s) + 1), NEW x \in S,
         IsInjective(s), x \notin Range(s)
  PROVE  LET t == InsertAt(s, k, x) IN IsInjective(t) /\ Range(t) = Range(s) \cup {x}
  <1> DEFINE t == InsertAt(s, k, x)
  <1>1. /\ DOMAIN t = 1..(Len(s) + 1) /\ t[k] = x
        /\ \A j \in DOMAIN s : Shifted(j, k) \in DOMAIN t \ {k} /\ t[Shifted(j, k)] = s[j]
        /\ \A i \in DOMAIN t : i = k \/ \E j \in DOMAIN s : i = Shifted(j, k)
    BY InsertPlaces
  <1> HIDE DEF t
  <1>2. k \in DOMAIN t
    BY <1>1
  <1>3. \A j \in DOMAIN s : s[j] # x
    BY DEF Range
  <1>4. IsInjective(t)
    <2> SUFFICES ASSUME NEW a \in DOMAIN t, NEW b \in DOMAIN t, t[a] = t[b] PROVE a = b
      BY DEF IsInjective
    <2>1. CASE a = k /\ b = k
      BY <2>1
    <2>2. CASE a = k /\ b # k
      <3>1. PICK j \in DOMAIN s : b = Shifted(j, k)
        BY <1>1, <2>2
      <3> QED BY <1>1, <1>3, <2>2, <3>1
    <2>3. CASE a # k /\ b = k
      <3>1. PICK j \in DOMAIN s : a = Shifted(j, k)
        BY <1>1, <2>3
      <3> QED BY <1>1, <1>3, <2>3, <3>1
    <2>4. CASE a # k /\ b # k
      <3>1. PICK i \in DOMAIN s : a = Shifted(i, k)
        BY <1>1, <2>4
      <3>2. PICK j \in DOMAIN s : b = Shifted(j, k)
        BY <1>1, <2>4
      <3>3. s[i] = s[j]
        BY <1>1, <3>1, <3>2
      <3> QED BY <3>1, <3>2, <3>3 DEF IsInjective
    <2> QED BY <2>1, <2>2, <2>3, <2>4, Zenon
  <1>5. Range(t) = Range(s) \cup {x}
    <2>1. ASSUME NEW i \in DOMAIN t PROVE t[i] \in Range(s) \cup {x}
      <3>1. CASE i = k
        BY <1>1, <3>1
      <3>2. CASE i # k
        <4>1. PICK j \in DOMAIN s : i = Shifted(j, k)
          BY <1>1, <3>2
        <4> QED BY <1>1, <4>1 DEF Range
      <3> QED BY <3>1, <3>2
    <2>2. ASSUME NEW j \in DOMAIN s PROVE s[j] \in Range(t)
      <3>1. Shifted(j, k) \in DOMAIN t /\ t[Shifted(j, k)] = s[j]
        BY <1>1
      <3> QED BY <3>1 DEF Range
    <2>3. x \in Range(t)
      BY <1>1, <1>2 DEF Range
    <2> QED BY <2>1, <2>2, <2>3 DEF Range
  <1> QED BY <1>4, <1>5 DEF t

-----------------------------------------------------------------------------
(* Rows and pages.                                                          *)

Lists == {"actions", "file", "files"}
Table(list) == IF list = "files" THEN File ELSE log

\* The client that lists, field by field.
Client ==
    [list : Lists \cup {"none"}, folder : Folder \cup {<<>>}, page : Nat, seen : SUBSET (Action \cup Files),
     begun : SUBSET (Action \cup Files), gone : BOOLEAN, more : BOOLEAN]

\* The tables that other parts fill (LookupActionsInFolderRecursively and the
\* lookups of files read them).
LogInv ==
    /\ log \in Seq(Action) /\ IsInjective(log)
    /\ shown \subseteq Files /\ whole \cup part \subseteq {Object(a) : a \in Action}
    /\ port \subseteq Conversions /\ asked \subseteq Registered /\ up \in BOOLEAN
    /\ DOMAIN disk = Files /\ removals \in 0..MaxRemove

\* A file list is excused after a deletion: its next page may skip a row.
Excused == client.list = "files" /\ client.gone

\* The row of x is on a page that is still to come.
ToCome(x) == \E k \in Listed : Table(client.list)[k] = x /\ Before(Listed, k) >= client.page * Page

\* What was there at the beginning has been seen or is to come.
ListInv ==
    /\ client \in Client
    /\ client.list # "none" /\ ~Excused => \A x \in client.begun : x \in client.seen \/ ToCome(x)
    /\ ListingIsComplete

\* What a query of the log selects.
LogQuery(list, d, a) ==
    IF list = "actions" THEN IsBelow(d, a.file) ELSE a.file = File[1] /\ Named(a.file)

\* The queries of the action log.
LEMMA RowsOfLog ==
  ASSUME NEW list \in {"actions", "file"}, NEW d
  PROVE  Rows(list, d) = {k \in DOMAIN log : LogQuery(list, d, log[k])} /\ Table(list) = log
  BY DEF Rows, ActionsInFolder, ActionsForFile, LogQuery, Table

\* The query of the file state.
LEMMA RowsOfFiles ==
  ASSUME NEW d
  PROVE  /\ Rows("files", d) = {k \in DOMAIN File : File[k] \in shown /\ IsBelow(d, File[k])}
         /\ Table("files") = File
  BY DEF Rows, FilesInFolder, Table

\* A query selects finitely many rows, and its table holds actions or files.
LEMMA RowsType ==
  ASSUME log \in Seq(Action), NEW list \in Lists, NEW d
  PROVE  /\ IsFiniteSet(Rows(list, d)) /\ Rows(list, d) \subseteq Nat
         /\ \A k \in Rows(list, d) : Table(list)[k] \in Action \cup Files
  <1>1. Rows(list, d) \subseteq 1..Len(Table(list)) /\ Len(Table(list)) \in Nat
        /\ \A k \in 1..Len(Table(list)) : Table(list)[k] \in Action \cup Files
    <2>1. CASE list = "files"
      <3>1. File \in Seq(Files) /\ DOMAIN File = 1..Len(File)
        BY StateServerAssumption
      <3> QED BY <2>1, <3>1, RowsOfFiles
    <2>2. CASE list # "files"
      <3>1. DOMAIN log = 1..Len(log)
        OBVIOUS
      <3> QED BY <2>2, <3>1, RowsOfLog DEF Lists
    <2> QED BY <2>1, <2>2
  <1>2. IsFiniteSet(1..Len(Table(list)))
    BY <1>1, FS_Interval
  <1>3. IsFiniteSet(Rows(list, d))
    BY <1>1, <1>2, FS_Subset
  <1> QED BY <1>1, <1>3

\* A row has fewer rows before it than there are.
LEMMA BeforeBound ==
  ASSUME NEW P \in SUBSET Nat, IsFiniteSet(P), NEW k \in P
  PROVE  Before(P, k) \in Nat /\ Cardinality(P) \in Nat /\ Before(P, k) < Cardinality(P)
  <1> DEFINE B == {j \in P : j < k}
  <1>1. B \in SUBSET P /\ k \notin B
    OBVIOUS
  <1>2. IsFiniteSet(B) /\ Cardinality(B) <= Cardinality(P) /\ (Cardinality(B) = Cardinality(P) => P = B)
    BY <1>1, FS_Subset
  <1>3. Cardinality(B) \in Nat /\ Cardinality(P) \in Nat
    BY <1>2, FS_CardinalityType
  <1>4. Cardinality(B) # Cardinality(P)
    BY <1>1, <1>2
  <1>5. Before(P, k) = Cardinality(B)
    BY DEF Before
  <1> QED BY <1>2, <1>3, <1>4, <1>5

\* Rows that move without changing places have at least as many before them.
LEMMA MovedBack ==
  ASSUME NEW P \in SUBSET Nat, NEW Q \in SUBSET Nat, IsFiniteSet(Q),
         NEW f \in [P -> Q], \A i, j \in P : i < j => f[i] < f[j],
         NEW k \in P
  PROVE  Before(P, k) <= Before(Q, f[k])
  <1> DEFINE B == {j \in P : j < k}
             C == {j \in Q : j < f[k]}
             g == [i \in B |-> f[i]]
  <1>1. g \in [B -> C]
    OBVIOUS
  <1>2. ASSUME NEW i \in B, NEW j \in B, g[i] = g[j] PROVE i = j
    <2>1. i \in Nat /\ j \in Nat /\ f[i] \in Nat /\ f[j] \in Nat /\ f[i] = f[j]
      BY <1>2
    <2>2. ~(f[i] < f[j]) /\ ~(f[j] < f[i])
      BY <2>1
    <2>3. ~(i < j) /\ ~(j < i)
      BY <2>2
    <2> QED BY <2>1, <2>3
  <1>3. DOMAIN g = B
    OBVIOUS
  <1> HIDE DEF g
  <1>4. g \in Injection(B, C)
    BY <1>1, <1>2, <1>3 DEF Injection, IsInjective
  <1>5. IsFiniteSet(C)
    BY FS_Subset
  <1> HIDE DEF B, C
  <1>6. Cardinality(B) <= Cardinality(C)
    BY <1>4, <1>5, FS_Injection
  <1> QED BY <1>6 DEF Before, B, C

-----------------------------------------------------------------------------
(* The listing client.                                                      *)

\* Nothing has been listed.
LEMMA InitList == Init => ListInv
  <1> SUFFICES ASSUME Init PROVE ListInv
    OBVIOUS
  <1>1. client = Idle
    BY DEF Init
  <1>2. Idle \in Client
    BY DEF Idle, Client
  <1>3. client.list = "none"
    BY <1>1 DEF Idle
  <1> QED BY <1>1, <1>2, <1>3 DEF ListInv, ListingIsComplete, Finished

\* Steps that leave the tables and the client alone.
LEMMA QuietList ==
  ASSUME ListInv, UNCHANGED <<client, log, shown, port>> PROVE ListInv'
  <1>1. \A x : ToCome(x)' <=> ToCome(x)
    BY DEF ToCome, Listed, Rows, ActionsInFolder, ActionsForFile, FilesInFolder, IsBelow, Named, Table
  <1>2. Excused' <=> Excused
    BY DEF Excused
  <1>3. ListingIsComplete' <=> ListingIsComplete
    BY DEF ListingIsComplete, Finished
  <1>4. client' = client /\ (client \in Client)'
    BY DEF ListInv, Client
  <1> QED BY <1>1, <1>2, <1>3, <1>4 DEF ListInv

\* Whether a query selects an action or a file does not depend on the tables.
LEMMA QueriesStay ==
  ASSUME port' = port
  PROVE  /\ \A list, d, a : LogQuery(list, d, a)' <=> LogQuery(list, d, a)
         /\ \A d, f : IsBelow(d, f)' <=> IsBelow(d, f)
  BY DEF LogQuery, IsBelow, Named

\* A row that is to come stays to come when an action is logged: rows are only
\* inserted, and those behind move back (the latest action is listed first).
LEMMA ToComeStays ==
  ASSUME ListInv, LogInv, NEW a \in Action, NEW k \in 1..(Len(log) + 1), Log(a, k),
         client.list # "none", NEW x, ToCome(x)
  PROVE  ToCome(x)'
  <1> DEFINE list == client.list
             d == client.folder
             P == Rows(list, d)
             Q == Rows(list, d)'
  <1>1. /\ client' = client /\ port' = port /\ shown \subseteq shown'
        /\ log' = InsertAt(log, k, a) /\ log \in Seq(Action) /\ list \in Lists
        /\ client.page \in Nat
    BY DEF Log, ListInv, LogInv, Client
  <1>2. log' \in Seq(Action)
    BY <1>1, InsertPlaces
  <1>3. IsFiniteSet(P) /\ P \in SUBSET Nat
    BY <1>1, RowsType
  <1>4. IsFiniteSet(Q) /\ Q \in SUBSET Nat
    <2>1. CASE list = "files"
      <3>1. IsFiniteSet(1..Len(File)) /\ DOMAIN File = 1..Len(File) /\ Len(File) \in Nat
        BY StateServerAssumption, FS_Interval
      <3>2. Q \subseteq 1..Len(File)
        BY <1>1, <2>1, <3>1 DEF Rows, FilesInFolder
      <3> QED BY <3>1, <3>2, FS_Subset
    <2>2. CASE list # "files"
      <3>1. IsFiniteSet(1..Len(log')) /\ DOMAIN log' = 1..Len(log') /\ Len(log') \in Nat
        BY <1>2, FS_Interval
      <3>2. Q \subseteq 1..Len(log')
        BY <1>1, <2>2, <3>1 DEF Rows, ActionsInFolder, ActionsForFile, Lists
      <3> QED BY <3>1, <3>2, FS_Subset
    <2> QED BY <2>1, <2>2
  <1>5. PICK f \in [P -> Q] : /\ \A i, j \in P : i < j => f[i] < f[j]
                              /\ \A j \in P : Table(list)'[f[j]] = Table(list)[j]
    <2>1. CASE list = "files"
      <3>1. P \subseteq Q
        BY <1>1, <2>1, QueriesStay DEF Rows, FilesInFolder
      <3>2. Table(list)' = Table(list)
        BY <1>1, <2>1 DEF Table
      <3> DEFINE f == [j \in P |-> j]
      <3>3. f \in [P -> Q] /\ \A j \in P : f[j] = j
        BY <3>1
      <3> HIDE DEF f, P, Q
      <3> QED BY <3>2, <3>3
    <2>2. CASE list # "files"
      <3> DEFINE q(z) == LogQuery(list, d, z)
      <3>1. P = {j \in DOMAIN log : q(log[j])} /\ Table(list) = log
        BY <1>1, <2>2, RowsOfLog DEF Lists
      <3>2. Q = {j \in DOMAIN log' : q(log'[j])} /\ Table(list)' = log'
        <4>1. Q = {j \in DOMAIN log' : LogQuery(list, d, log[j])'}
          BY <1>1, <2>2 DEF Rows, ActionsInFolder, ActionsForFile, LogQuery, Lists, IsBelow, Named
        <4>2. \A z : LogQuery(list, d, z)' <=> LogQuery(list, d, z)
          BY <1>1, QueriesStay
        <4> QED BY <1>1, <2>2, <4>1, <4>2 DEF Table, LogQuery, IsBelow, Named
      <3> DEFINE f == [j \in P |-> Shifted(j, k)]
      <3>3. \A j \in DOMAIN log : Shifted(j, k) \in DOMAIN log' /\ log'[Shifted(j, k)] = log[j]
        BY <1>1, InsertPlaces
      <3> HIDE DEF q
      <3>4. \A j \in P : f[j] = Shifted(j, k) /\ f[j] \in Q /\ log'[f[j]] = log[j]
        BY <3>1, <3>2, <3>3
      <3>5. f \in [P -> Q]
        BY <3>4
      <3>6. \A i, j \in P : i < j => Shifted(i, k) < Shifted(j, k)
        BY <1>3 DEF Shifted
      <3> HIDE DEF f, P, Q
      <3>7. /\ \A i, j \in P : i < j => f[i] < f[j]
            /\ \A j \in P : Table(list)'[f[j]] = Table(list)[j]
        BY <3>1, <3>2, <3>4, <3>6
      <3> QED BY <3>5, <3>7
    <2> QED BY <2>1, <2>2
  <1>6. PICK j \in P : Table(list)[j] = x /\ Before(P, j) >= client.page * Page
    BY DEF ToCome, Listed
  <1>7. f[j] \in Q /\ Table(list)'[f[j]] = x
    BY <1>5, <1>6
  <1>8. Before(P, j) <= Before(Q, f[j])
    <2> HIDE DEF P, Q
    <2> QED BY <1>3, <1>4, <1>5, MovedBack
  <1>9. Before(P, j) \in Nat /\ Before(Q, f[j]) \in Nat
    <2> HIDE DEF P, Q
    <2> QED BY <1>3, <1>4, <1>7, BeforeBound
  <1>10. client.page * Page \in Nat
    BY <1>1, StateServerAssumption
  <1>11. Before(Q, f[j]) >= client.page * Page
    BY <1>6, <1>8, <1>9, <1>10
  <1>12. Listed' = Q /\ Table(client.list)' = Table(list)' /\ client.page' = client.page
    BY <1>1 DEF Listed, Rows, ActionsInFolder, ActionsForFile, FilesInFolder, Table
  <1> HIDE DEF P, Q, list, d
  <1> QED BY <1>7, <1>11, <1>12 DEF ToCome

\* An action that is logged between two pages hides nothing.
LEMMA LogList ==
  ASSUME ListInv, LogInv, NEW a \in Action, NEW k \in 1..(Len(log) + 1), Log(a, k) PROVE ListInv'
  <1>1. client' = client
    BY DEF Log
  <1>2. (client \in Client)' /\ (Excused' <=> Excused) /\ (ListingIsComplete' <=> ListingIsComplete)
    BY <1>1 DEF ListInv, Client, Excused, ListingIsComplete, Finished
  <1>3. ASSUME client.list # "none", NEW x, ToCome(x) PROVE ToCome(x)'
    BY <1>3, ToComeStays
  <1>4. ListingIsComplete /\ (client.list # "none" /\ ~Excused => \A x \in client.begun : x \in client.seen \/ ToCome(x))
    BY DEF ListInv
  <1> QED BY <1>1, <1>2, <1>3, <1>4 DEF ListInv

\* A row that is deleted excuses a listing of files and is none of the log's.
LEMMA DeleteRowList ==
  ASSUME ListInv, NEW f \in Files, DeleteRow(f) PROVE ListInv'
  <1>1. client' = [client EXCEPT !.gone = TRUE] /\ log' = log /\ port' = port /\ client \in Client
    BY DEF DeleteRow, data, ListInv
  <1>2. /\ client' \in Client /\ client'.list = client.list /\ client'.folder = client.folder
        /\ client'.page = client.page /\ client'.seen = client.seen /\ client'.begun = client.begun
        /\ client'.more = client.more /\ client'.gone = TRUE
    BY <1>1 DEF Client
  <1>3. CASE client.list = "files"
    <2>1. Excused'
      BY <1>2, <1>3 DEF Excused
    <2>2. ListingIsComplete'
      BY <1>2, <1>3 DEF ListingIsComplete
    <2> QED BY <1>2, <2>1, <2>2 DEF ListInv, Client
  <1>4. CASE client.list # "files"
    <2>1. ASSUME client.list # "none", NEW x, ToCome(x) PROVE ToCome(x)'
      <3>1. client.list \in {"actions", "file"} /\ client'.list \in {"actions", "file"}
        BY <1>1, <1>2, <1>4, <2>1 DEF Client, Lists
      <3>2. Listed' = Listed /\ Table(client.list)' = Table(client.list)
        BY <1>1, <1>2, <3>1 DEF Listed, Rows, ActionsInFolder, ActionsForFile, IsBelow, Named, Table
      <3> QED BY <1>2, <2>1, <3>2 DEF ToCome
    <2>2. ~Excused /\ ~Excused'
      BY <1>2, <1>4 DEF Excused
    <2>3. ListingIsComplete'
      BY <1>2, <1>4 DEF ListingIsComplete, Finished, ListInv
    <2> QED BY <1>2, <2>1, <2>2, <2>3 DEF ListInv, Client
  <1> QED BY <1>3, <1>4

\* The rows of a table at some places.
LEMMA RowsAt ==
  ASSUME NEW list, NEW places
  PROVE  At(list, places) = {Table(list)[k] : k \in places}
  BY DEF At, Table

\* When a listing begins all that it selects is to come.
LEMMA BeginList ==
  ASSUME LogInv, NEW list \in Lists, NEW d \in Folder \cup {<<>>}, Begin(list, d) PROVE ListInv'
  <1> DEFINE begun == At(list, Rows(list, d))
             c1 == [Idle EXCEPT !.list = list]
             c2 == [c1 EXCEPT !.folder = d]
             c3 == [c2 EXCEPT !.begun = begun]
  <1>1. client' = c3
    BY DEF Begin
  <1>2. begun \subseteq Action \cup Files
    BY RowsAt, RowsType DEF LogInv
  <1>3. Idle \in Client /\ Idle.page = 0 /\ Idle.seen = {}
    BY DEF Idle, Client
  <1> HIDE DEF begun
  <1>4. c1 \in Client /\ c1.page = 0 /\ c1.seen = {} /\ c1.list = list
    BY <1>3 DEF Client
  <1> HIDE DEF c1
  <1>5. c2 \in Client /\ c2.page = 0 /\ c2.seen = {} /\ c2.list = list /\ c2.folder = d
    BY <1>4 DEF Client
  <1> HIDE DEF c2
  <1>6. c3 \in Client /\ c3.page = 0 /\ c3.seen = {} /\ c3.list = list /\ c3.folder = d /\ c3.begun = begun
    BY <1>2, <1>5 DEF Client
  <1> HIDE DEF c3
  <1>7. Listed' = Rows(list, d) /\ Table(client.list)' = Table(list)
    <2>1. port' = port /\ log' = log /\ shown' = shown
      BY DEF Begin, data
    <2>2. client'.list = list /\ client'.folder = d
      BY <1>1, <1>6
    <2>3. ActionsInFolder(d)' = ActionsInFolder(d)
      BY <2>1 DEF ActionsInFolder, IsBelow, Named
    <2>4. ActionsForFile' = ActionsForFile
      BY <2>1 DEF ActionsForFile, Named
    <2>5. FilesInFolder(d)' = FilesInFolder(d)
      BY <2>1 DEF FilesInFolder, IsBelow, Named
    <2>6. Listed' = Rows(list, d)
      BY <2>2, <2>3, <2>4, <2>5 DEF Listed, Rows
    <2>7. Table(client.list)' = Table(list)
      BY <2>1, <2>2 DEF Table
    <2> QED BY <2>6, <2>7
  <1>8. ASSUME NEW x \in begun PROVE ToCome(x)'
    <2>1. PICK k \in Rows(list, d) : x = Table(list)[k]
      BY RowsAt DEF begun
    <2>2. Before(Rows(list, d), k) \in Nat
      BY BeforeBound, RowsType DEF LogInv
    <2>3. client'.page * Page = 0
      BY <1>1, <1>6, StateServerAssumption
    <2>4. Before(Rows(list, d), k) >= client'.page * Page
      BY <2>2, <2>3
    <2> QED BY <1>7, <2>1, <2>4 DEF ToCome
  <1>9. ~Finished'
    BY <1>1, <1>6 DEF Finished
  <1> QED BY <1>1, <1>6, <1>8, <1>9 DEF ListInv, ListingIsComplete, Client

\* A page that is put shows the next rows, and if it says that there are no more
\* it shows the last one (the row more that is asked for).
LEMMA PageList ==
  ASSUME ListInv, LogInv, client.list \in Lists, ListPage(client.seen \cup NextPage) PROVE ListInv'
  <1> DEFINE seen == client.seen \cup NextPage
             more == More(Listed, client.page)
             n == client.page
             c1 == [client EXCEPT !.seen = seen]
             c2 == [c1 EXCEPT !.page = n + 1]
             c3 == [c2 EXCEPT !.more = more]
  <1>1. client \in Client /\ n \in Nat /\ n + 1 \in Nat
    BY DEF ListInv, Client
  <1>2. client' = [client EXCEPT !.seen = seen, !.page = @ + 1, !.more = more]
        /\ UNCHANGED <<port, log, shown>>
    BY DEF ListPage, data
  <1>3. IsFiniteSet(Listed) /\ Listed \in SUBSET Nat /\ \A k \in Listed : Table(client.list)[k] \in Action \cup Files
    BY RowsType DEF LogInv, Listed
  <1>4. NextPage = {Table(client.list)[k] : k \in PageOf(Listed, n)}
    BY RowsAt DEF NextPage
  <1>5. seen \subseteq Action \cup Files /\ client.seen \subseteq seen
    BY <1>1, <1>3, <1>4 DEF PageOf, Client
  <1>6. more \in BOOLEAN
    BY DEF More
  <1> HIDE DEF seen, more
  <1>7. /\ c1 \in Client /\ c1.seen = seen /\ c1.page = n /\ c1.list = client.list /\ c1.folder = client.folder
        /\ c1.begun = client.begun /\ c1.gone = client.gone
    BY <1>1, <1>5 DEF Client
  <1>8. client' = [c1 EXCEPT !.page = n + 1, !.more = more]
    BY <1>2, <1>7
  <1> HIDE DEF c1
  <1>9. /\ c2 \in Client /\ c2.seen = seen /\ c2.page = n + 1 /\ c2.list = client.list /\ c2.folder = client.folder
        /\ c2.begun = client.begun /\ c2.gone = client.gone
    BY <1>1, <1>7 DEF Client
  <1>10. client' = c3
    BY <1>8
  <1> HIDE DEF c2
  <1>11. /\ c3 \in Client /\ c3.seen = seen /\ c3.page = n + 1 /\ c3.list = client.list /\ c3.folder = client.folder
         /\ c3.begun = client.begun /\ c3.gone = client.gone /\ c3.more = more
    BY <1>6, <1>9 DEF Client
  <1> HIDE DEF c3
  <1>12. Listed' = Listed /\ Table(client.list)' = Table(client.list) /\ (Excused' <=> Excused)
    BY <1>2, <1>10, <1>11 DEF Listed, Rows, ActionsInFolder, ActionsForFile, FilesInFolder, IsBelow, Named,
          Table, Excused
  <1>13. n * Page \in Nat /\ (n + 1) * Page \in Nat /\ (n + 1) * Page = n * Page + Page /\ Page \in Nat
    BY <1>1, StateServerAssumption
  <1>14. ASSUME NEW x, ToCome(x) PROVE x \in seen \/ (more /\ ToCome(x)')
    <2>1. PICK k \in Listed : Table(client.list)[k] = x /\ Before(Listed, k) >= n * Page
      BY <1>14 DEF ToCome
    <2>2. Before(Listed, k) \in Nat /\ Cardinality(Listed) \in Nat /\ Before(Listed, k) < Cardinality(Listed)
      BY <1>3, BeforeBound
    <2>3. CASE Before(Listed, k) < (n + 1) * Page
      <3>1. Before(Listed, k) \in n * Page..(n * Page + Page - 1)
        BY <1>13, <2>1, <2>2, <2>3
      <3>2. k \in PageOf(Listed, n)
        BY <3>1 DEF PageOf
      <3> QED BY <1>4, <2>1, <3>2 DEF seen
    <2>4. CASE ~(Before(Listed, k) < (n + 1) * Page)
      <3>1. Before(Listed, k) >= (n + 1) * Page /\ Cardinality(Listed) >= (n + 1) * Page
        BY <1>13, <2>2, <2>4
      <3>2. more
        BY <3>1 DEF more, More
      <3>3. ToCome(x)'
        BY <1>10, <1>11, <1>12, <2>1, <3>1 DEF ToCome
      <3> QED BY <3>2, <3>3
    <2> QED BY <2>3, <2>4
  <1>15. ~Excused => \A x \in client.begun : x \in seen \/ (more /\ ToCome(x)')
    BY <1>5, <1>14 DEF ListInv, Lists
  <1>16. Finished' => ~more
    BY <1>10, <1>11 DEF Finished
  <1>17. ListingIsComplete'
    BY <1>10, <1>11, <1>15, <1>16 DEF ListingIsComplete, Excused
  <1> QED BY <1>10, <1>11, <1>12, <1>15, <1>17 DEF ListInv, Client

-----------------------------------------------------------------------------
(* The tables, and the queue of m_executor.                                 *)

ListJob == [do |-> "list"]
RestoreJob(r) == [do |-> "restore", cmd |-> r]
Jobs == {ListJob} \cup {RestoreJob(r) : r \in Restore}

\* No job is queued twice, so one page at most, and the job of a restore stays at
\* the head until cmd_restore_file_Execute has returned.
JobsInv ==
    /\ jobs \in Seq(Jobs) /\ IsInjective(jobs)
    /\ client.list = "none" => ListJob \notin Range(jobs)
    /\ found # NoFile => jobs # <<>> /\ Head(jobs) = RestoreJob(found.cmd)

\* What a restore command may be answered.
Said == {"not found", "failed", "error", "exists", "torn", "padded"} \cup {a.hash : a \in Action}

\* An answer that tells the truth: an outcome, the version that was asked for, a
\* part of it when the store had a part of it, or one with foreign bytes.
ToldOf(r, said, actions, parts, works) ==
    \/ said \in {"not found", "failed", "error", "exists"}
    \/ \E a \in actions :
          /\ a.file = r.file /\ a.version = r.version
          /\ \/ said = a.hash
             \/ said = "torn" /\ Object(a) \in parts
    \/ said = "padded" /\ "sized" \notin works

Told(r, said) == ToldOf(r, said, Range(log), part, port)

\* A restore whose version has been looked up.
Found == [pc : {"compare", "write", "stamp"}, cmd : Restore, item : Action, exists : BOOLEAN]

\* It is the version that was asked for.  Its file was there unless it was removed
\* before it was compared, and only then it has been answered already.  What was
\* written of it is true, unless it was removed after that.
InHand ==
    /\ found \in Found /\ found.item \in Range(log)
    /\ found.item.file = found.cmd.file /\ found.item.version = found.cmd.version
    /\ found.pc = "compare" => replies[found.cmd] = <<>>
    /\ replies[found.cmd] = <<>> \/ found.cmd \in raced
    /\ found.pc = "compare" /\ found.exists /\ disk[found.item.file] = NoHash => found.cmd \in raced
    /\ LET there == disk[found.item.file]
       IN  found.pc = "stamp" => there = NoHash \/ (there \in Said /\ Told(found.cmd, there))

\* A command that is queued has no answer yet.
RestoreInv ==
    /\ replies \in [Restore -> Seq(Said)] /\ raced \subseteq Restore
    /\ found = NoFile \/ InHand
    /\ \A r \in Restore : RestoreJob(r) \in Range(jobs) /\ found.cmd # r => replies[r] = <<>>

\* Jobs of different kinds, and of different commands, differ.
LEMMA JobsDiffer ==
  /\ \A r : RestoreJob(r).do = "restore" /\ RestoreJob(r).cmd = r /\ RestoreJob(r) # ListJob
  /\ \A r, s : RestoreJob(r) = RestoreJob(s) => r = s
  /\ ListJob.do = "list" /\ ListJob \in Jobs /\ \A r \in Restore : RestoreJob(r) \in Jobs
  /\ \A j \in Jobs : j.do = "list" => j = ListJob
  /\ \A j \in Jobs : j.do = "restore" => j = RestoreJob(j.cmd) /\ j.cmd \in Restore
  <1>1. \A r : RestoreJob(r).do = "restore" /\ RestoreJob(r).cmd = r
    BY DEF RestoreJob
  <1>2. ListJob.do = "list"
    BY DEF ListJob
  <1>3. "list" # "restore"
    OBVIOUS
  <1> QED BY <1>1, <1>2, <1>3, Zenon DEF Jobs

\* There is one page at most in a queue without repetitions.
LEMMA OnePage ==
  ASSUME JobsInv PROVE Cardinality({k \in DOMAIN jobs : jobs[k].do = "list"}) <= 1
  <1> DEFINE L == {k \in DOMAIN jobs : jobs[k].do = "list"}
  <1>1. \A k \in L : jobs[k] = ListJob
    <2>1. \A k \in DOMAIN jobs : jobs[k] \in Jobs
      BY DEF JobsInv
    <2> QED BY <2>1, JobsDiffer
  <1>2. \A j, k \in L : j = k
    BY <1>1 DEF JobsInv, IsInjective
  <1>3. CASE L = {}
    BY <1>3, FS_EmptySet
  <1>4. CASE L # {}
    <2>1. PICK k : k \in L
      BY <1>4
    <2>2. L = {k}
      BY <1>2, <2>1
    <2>3. Cardinality(L) = 1
      BY <2>2, FS_Singleton
    <2> QED BY <2>3
  <1> QED BY <1>3, <1>4

\* What has been looked up is no longer nothing: a command names a file.
LEMMA FoundSomething ==
  /\ \A f \in Found : f # NoFile /\ f.cmd \in Restore
  /\ \A r \in Restore : r # NoFile.cmd
  <1>1. \A r \in Restore : r.file \in Files
    BY StateServerAssumption
  <1>2. <<>> \notin Files /\ NoFile.cmd.file = <<>> /\ NoFile.pc = "idle"
    BY StateServerAssumption DEF NoFile
  <1>3. \A f \in Found : f.pc # "idle" /\ f.cmd \in Restore
    BY DEF Found
  <1> QED BY <1>1, <1>2, <1>3

\* It goes from one stage to the next.
LEMMA GoesOn ==
  ASSUME found \in Found, NEW pc \in {"compare", "write", "stamp"}, Goes(pc)
  PROVE  /\ found' \in Found /\ found' # NoFile /\ found'.pc = pc /\ jobs' = jobs
         /\ found'.cmd = found.cmd /\ found'.item = found.item /\ found'.exists = found.exists
  <1>1. found' \in Found /\ found'.pc = pc /\ jobs' = jobs
        /\ found'.cmd = found.cmd /\ found'.item = found.item /\ found'.exists = found.exists
    BY DEF Goes, Found
  <1> QED BY <1>1, FoundSomething

\* What the stages of a restore after its lookup have in common
\* (cmd_restore_file_Execute).
LEMMA Stages ==
  ASSUME RestoreCompare \/ RestoreWrite \/ RestoreStamp
  PROVE  /\ found # NoFile
         /\ Returns \/ Goes("write") \/ Goes("stamp")
         /\ UNCHANGED <<port, asked, log, shown, whole, part, client, removals, raced>>
         /\ up' = up \/ up' = FALSE
         /\ DOMAIN disk' = DOMAIN disk
  <1>1. NoFile.pc = "idle"
    BY DEF NoFile
  <1>2. CASE RestoreCompare
    BY <1>1, <1>2 DEF RestoreCompare, data
  <1>3. CASE RestoreWrite
    BY <1>1, <1>3 DEF RestoreWrite, data
  <1>4. CASE RestoreStamp
    BY <1>1, <1>4 DEF RestoreStamp, data
  <1> QED BY <1>2, <1>3, <1>4

\* The tables start empty.
LEMMA InitLog == Init => LogInv /\ JobsInv /\ RestoreInv
  <1> SUFFICES ASSUME Init PROVE LogInv /\ JobsInv /\ RestoreInv
    OBVIOUS
  <1>0. /\ log = <<>> /\ <<>> \in Seq(Action) /\ jobs = <<>> /\ <<>> \in Seq(Jobs) /\ <<>> \in Seq(Said)
        /\ DOMAIN <<>> = {} /\ found = NoFile
    BY DEF Init
  <1>1. IsInjective(<<>>) /\ Range(<<>>) = {}
    BY <1>0 DEF IsInjective, Range
  <1>2. /\ shown = {} /\ whole = {} /\ part = {} /\ port \subseteq Conversions /\ asked \subseteq Registered
        /\ up = TRUE /\ removals = 0 /\ raced = {}
    BY StateServerAssumption DEF Init
  <1>3. \E h : disk = [f \in Files |-> h]
    BY DEF Init
  <1>4. DOMAIN disk = Files
    BY <1>3
  <1>5. LogInv
    BY <1>0, <1>1, <1>2, <1>4, StateServerAssumption DEF LogInv
  <1>6. JobsInv
    BY <1>0, <1>1 DEF JobsInv
  <1>7. replies = [r \in Restore |-> <<>>]
    BY DEF Init
  <1>8. RestoreInv
    BY <1>0, <1>1, <1>2, <1>7 DEF RestoreInv
  <1> QED BY <1>5, <1>6, <1>8

\* The tables stay well formed, and an action is logged once.
LEMMA NextLog == LogInv /\ [Next]_vars => LogInv'
  <1> SUFFICES ASSUME LogInv, [Next]_vars PROVE LogInv'
    OBVIOUS
  <1>1. ASSUME UNCHANGED <<port, asked, log, shown, whole, part, removals>>, up' \in BOOLEAN, DOMAIN disk' = DOMAIN disk
        PROVE  LogInv'
    BY <1>1 DEF LogInv
  <1>2. CASE UNCHANGED vars
    BY <1>1, <1>2 DEF vars, data, LogInv
  <1>3. ASSUME NEW a \in Action, NEW k \in 1..(Len(log) + 1), Log(a, k) PROVE LogInv'
    <2>1. log' = InsertAt(log, k, a) /\ a \notin Range(log) /\ log \in Seq(Action) /\ IsInjective(log)
      BY <1>3 DEF Log, LogInv
    <2>2. log' \in Seq(Action)
      BY <2>1, InsertPlaces
    <2>3. IsInjective(log')
      BY <2>1, InsertInjective
    <2>4. shown' \subseteq Files
      BY <1>3, StateServerAssumption DEF Log, LogInv
    <2> QED BY <1>3, <2>2, <2>3, <2>4 DEF Log, LogInv
  <1>4. ASSUME NEW a \in Action, Fetched(Object(a)) PROVE LogInv'
    <2>1. Object(a) \in {Object(b) : b \in Action}
      OBVIOUS
    <2>2. whole' \cup part' \subseteq {Object(b) : b \in Action}
      <3> HIDE DEF LogInv
      <3> DEFINE O == {Object(b) : b \in Action}
      <3>1. whole \cup part \subseteq O
        BY DEF LogInv
      <3>2. Object(a) \in O
        BY <2>1
      <3> HIDE DEF O
      <3>3. whole' \cup part' \subseteq O
        BY <1>4, <3>1, <3>2 DEF Fetched
      <3> QED BY <3>3 DEF O
    <2>3. (whole \cup part \subseteq {Object(b) : b \in Action})'
      BY <2>2 DEF Object
    <2> QED BY <1>4, <2>3 DEF Fetched, LogInv
  <1>5. ASSUME NEW f \in Files, UserRemove(f) PROVE LogInv'
    <2>1. DOMAIN disk' = DOMAIN disk
      BY <1>5 DEF UserRemove
    <2>2. removals' \in 0..MaxRemove
      BY <1>5, StateServerAssumption DEF UserRemove, LogInv
    <2> QED BY <1>5, <2>1, <2>2 DEF UserRemove, data, LogInv
  <1>6. ASSUME NEW f \in Files, DeleteRow(f) PROVE LogInv'
    <2>1. removals' \in 0..MaxRemove
      BY <1>6, StateServerAssumption DEF DeleteRow, LogInv
    <2> QED BY <1>6, <2>1 DEF DeleteRow, LogInv
  <1>7. ASSUME NEW list, NEW d, Begin(list, d) PROVE LogInv'
    BY <1>1, <1>7 DEF Begin, data, LogInv
  <1>8. ASSUME NEW r \in Restore, CmdRestoreFile(r) PROVE LogInv'
    BY <1>1, <1>8 DEF CmdRestoreFile, data, LogInv
  <1>9. ASSUME NEW seen, ListPage(seen) PROVE LogInv'
    BY <1>1, <1>9 DEF ListPage, data, LogInv
  <1>10. CASE RestoreLookup
    BY <1>1, <1>10 DEF RestoreLookup, data, LogInv
  <1>11. CASE RestoreCompare \/ RestoreWrite \/ RestoreStamp
    BY <1>1, <1>11, Stages DEF LogInv
  <1> QED
    BY <1>2, <1>3, <1>4, <1>5, <1>6, <1>7, <1>8, <1>9, <1>10, <1>11
       DEF Next, InfoActions, InfoFilesFolder, Execute, InfoActionsExecute, InfoFilesFolderExecute, RestoreExecute

\* The queue over every step.
LEMMA NextJobs == ListInv /\ LogInv /\ JobsInv /\ RestoreInv /\ [Next]_vars => JobsInv'
  <1> SUFFICES ASSUME ListInv, LogInv, JobsInv, RestoreInv, [Next]_vars PROVE JobsInv'
    OBVIOUS
  <1>0. jobs \in Seq(Jobs) /\ IsInjective(jobs) /\ client \in Client
    BY DEF JobsInv, ListInv
  <1>1. ASSUME UNCHANGED <<jobs, found>>, client'.list = client.list PROVE JobsInv'
    BY <1>1 DEF JobsInv
  <1>2. CASE UNCHANGED vars
    BY <1>1, <1>2 DEF vars
  <1>3. ASSUME NEW a \in Action, NEW k \in 1..(Len(log) + 1), Log(a, k) PROVE JobsInv'
    BY <1>1, <1>3 DEF Log
  <1>4. ASSUME NEW o, Fetched(o) PROVE JobsInv'
    BY <1>1, <1>4 DEF Fetched
  <1>5. ASSUME NEW f \in Files, UserRemove(f) PROVE JobsInv'
    BY <1>1, <1>5 DEF UserRemove
  <1>6. ASSUME NEW f \in Files, DeleteRow(f) PROVE JobsInv'
    <2>1. client'.list = client.list
      BY <1>0, <1>6 DEF DeleteRow, Client
    <2> QED BY <1>1, <1>6, <2>1 DEF DeleteRow
  <1>7. ASSUME NEW list \in Lists, NEW d, Begin(list, d) PROVE JobsInv'
    <2>1. client.list = "none" /\ jobs' = Append(jobs, ListJob) /\ found' = found
      BY <1>7 DEF Begin, ListJob
    <2>2. client'.list = list
      <3> DEFINE begun == At(list, Rows(list, d))
      <3>1. client' = [Idle EXCEPT !.list = list, !.folder = d, !.begun = begun]
        BY <1>7 DEF Begin
      <3> HIDE DEF begun
      <3> QED BY <3>1 DEF Idle
    <2>3. ListJob \notin Range(jobs) /\ ListJob \in Jobs
      BY <2>1, JobsDiffer DEF JobsInv
    <2>4. /\ jobs' \in Seq(Jobs) /\ IsInjective(jobs') /\ jobs' # <<>>
          /\ jobs # <<>> => Head(jobs') = Head(jobs)
      BY <1>0, <2>1, <2>3, QueueAppend
    <2> QED BY <2>1, <2>2, <2>4 DEF JobsInv, Lists
  <1>8. ASSUME NEW r \in Restore, CmdRestoreFile(r) PROVE JobsInv'
    <2>1. RestoreJob(r) \notin Range(jobs) /\ jobs' = Append(jobs, RestoreJob(r)) /\ UNCHANGED <<found, client>>
      BY <1>8 DEF CmdRestoreFile, RestoreJob
    <2>2. /\ jobs' \in Seq(Jobs) /\ IsInjective(jobs') /\ jobs' # <<>>
          /\ Range(jobs') = Range(jobs) \cup {RestoreJob(r)}
          /\ jobs # <<>> => Head(jobs') = Head(jobs)
      BY <1>0, <2>1, JobsDiffer, QueueAppend
    <2>3. RestoreJob(r) # ListJob
      BY JobsDiffer
    <2> QED BY <2>1, <2>2, <2>3 DEF JobsInv
  <1>9. ASSUME NEW seen, client.list # "none", ListPage(seen) PROVE JobsInv'
    <2>1. /\ jobs # <<>> /\ Head(jobs).do = "list" /\ found = NoFile /\ found' = found
          /\ jobs' = Tail(jobs) \/ jobs' = Append(Tail(jobs), ListJob)
      BY <1>9 DEF ListPage, ListJob
    <2>2. client'.list = client.list
      <3> DEFINE more == More(Listed, client.page)
      <3>1. client' = [client EXCEPT !.seen = seen, !.page = @ + 1, !.more = more]
        BY <1>9 DEF ListPage
      <3> HIDE DEF more
      <3> QED BY <1>0, <3>1 DEF Client
    <2>3. /\ Tail(jobs) \in Seq(Jobs) /\ IsInjective(Tail(jobs)) /\ Head(jobs) \in Jobs
          /\ Head(jobs) \notin Range(Tail(jobs))
      BY <1>0, <2>1, QueueTail
    <2>4. Head(jobs) = ListJob
      BY <2>1, <2>3, JobsDiffer
    <2>5. Append(Tail(jobs), ListJob) \in Seq(Jobs) /\ IsInjective(Append(Tail(jobs), ListJob))
      BY <2>3, <2>4, JobsDiffer, QueueAppend
    <2> QED BY <1>9, <2>1, <2>2, <2>3, <2>5 DEF JobsInv
  <1>10. CASE RestoreLookup
    <2>1. jobs # <<>> /\ Head(jobs).do = "restore" /\ found = NoFile /\ client' = client
      BY <1>10 DEF RestoreLookup
    <2>2. /\ Tail(jobs) \in Seq(Jobs) /\ IsInjective(Tail(jobs)) /\ Head(jobs) \in Jobs
          /\ Range(Tail(jobs)) \subseteq Range(jobs)
      BY <1>0, <2>1, QueueTail
    <2>3. Head(jobs) = RestoreJob(Head(jobs).cmd) /\ Head(jobs).cmd \in Restore
      BY <2>1, <2>2, JobsDiffer
    <2>4. CASE jobs' = Tail(jobs) /\ found' = found
      BY <2>1, <2>2, <2>4 DEF JobsInv
    <2>5. CASE jobs' = jobs /\ \E pc, a, e : found' = [pc |-> pc, cmd |-> Head(jobs).cmd, item |-> a, exists |-> e]
      <3>1. found'.cmd = Head(jobs).cmd
        BY <2>5
      <3> QED BY <2>1, <2>3, <2>5, <3>1 DEF JobsInv
    <2> QED BY <1>10, <2>4, <2>5 DEF RestoreLookup
  <1>11. CASE RestoreCompare \/ RestoreWrite \/ RestoreStamp
    <2>1. found # NoFile /\ client' = client /\ (Returns \/ Goes("write") \/ Goes("stamp"))
      BY <1>11, Stages
    <2>2. jobs # <<>> /\ Head(jobs) = RestoreJob(found.cmd) /\ found \in Found
      BY <2>1 DEF JobsInv, RestoreInv, InHand
    <2>3. CASE Returns
      <3>1. Tail(jobs) \in Seq(Jobs) /\ IsInjective(Tail(jobs)) /\ Range(Tail(jobs)) \subseteq Range(jobs)
        BY <1>0, <2>2, QueueTail
      <3> QED BY <2>1, <2>3, <3>1 DEF JobsInv, Returns
    <2>4. CASE Goes("write") \/ Goes("stamp")
      <3>1. jobs' = jobs /\ found'.cmd = found.cmd
        BY <2>2, <2>4, GoesOn
      <3> QED BY <2>1, <2>2, <3>1 DEF JobsInv
    <2> QED BY <2>1, <2>3, <2>4
  <1> QED
    BY <1>2, <1>3, <1>4, <1>5, <1>6, <1>7, <1>8, <1>9, <1>10, <1>11
       DEF Next, InfoActions, InfoFilesFolder, Execute, InfoActionsExecute, InfoFilesFolderExecute,
           RestoreExecute, Lists

-----------------------------------------------------------------------------
(* Answers to restore commands.                                             *)

\* Answers so far: one, but for a file that was removed, and true.
Answers ==
    \A r \in Restore : /\ Len(replies[r]) > 1 => r \in raced
                       /\ \A k \in DOMAIN replies[r] : Told(r, replies[r][k])

\* The two properties together.
LEMMA AnswersMean == Answers <=> AnsweredOnce /\ RestoredIsAsked
  BY Zenon DEF Answers, AnsweredOnce, RestoredIsAsked, Told, ToldOf

\* What was the truth stays it: nothing leaves the log, or the store.
LEMMA ToldStays ==
  ASSUME Range(log) \subseteq Range(log'), part \subseteq part', port' = port, NEW r, NEW said, Told(r, said)
  PROVE  Told(r, said)'
  BY DEF Told, ToldOf

\* Answers stay while none is given.
LEMMA QuietAnswers ==
  ASSUME Answers, Range(log) \subseteq Range(log'), part \subseteq part', port' = port,
         raced \subseteq raced', replies' = replies
  PROVE  Answers'
  BY ToldStays DEF Answers

\* An answer is added to those of a command.
LEMMA AppendAnswer ==
  ASSUME NEW s \in Seq(Said), NEW x \in Said
  PROVE  /\ Append(s, x) \in Seq(Said) /\ Len(Append(s, x)) = Len(s) + 1
         /\ \A k \in DOMAIN Append(s, x) :
               Append(s, x)[k] = x \/ (k \in DOMAIN s /\ Append(s, x)[k] = s[k])
  <1>1. /\ Append(s, x) \in Seq(Said) /\ Len(Append(s, x)) = Len(s) + 1 /\ Len(s) \in Nat
        /\ DOMAIN Append(s, x) = 1..(Len(s) + 1) /\ DOMAIN s = 1..Len(s)
        /\ Append(s, x)[Len(s) + 1] = x
        /\ \A k \in 1..Len(s) : Append(s, x)[k] = s[k]
    OBVIOUS
  <1>2. \A k \in 1..(Len(s) + 1) : k = Len(s) + 1 \/ k \in 1..Len(s)
    BY <1>1
  <1> QED BY <1>1, <1>2, Zenon

\* One command has been answered.
LEMMA AnswerGiven ==
  ASSUME Answers, replies \in [Restore -> Seq(Said)], raced' = raced, log' = log, part' = part,
         port' = port, NEW r \in Restore, NEW s \in Seq(Said), replies' = [replies EXCEPT ![r] = s],
         Len(s) > 1 => r \in raced, \A k \in DOMAIN s : Told(r, s[k])
  PROVE  Answers' /\ replies' \in [Restore -> Seq(Said)]
  <1>1. replies' \in [Restore -> Seq(Said)] /\ replies'[r] = s /\ \A q \in Restore \ {r} : replies'[q] = replies[q]
    OBVIOUS
  <1>3. ASSUME NEW q \in Restore
        PROVE  Len(replies'[q]) > 1 => q \in raced'
    BY <1>1 DEF Answers
  <1>4. ASSUME NEW q \in Restore, NEW k \in DOMAIN replies'[q]
        PROVE  Told(q, replies'[q][k])
    <2>1. CASE q = r
      BY <1>1, <2>1
    <2>2. CASE q # r
      <3>1. replies'[q] = replies[q]
        BY <1>1, <2>2
      <3>2. Told(q, replies[q][k])
        BY <3>1 DEF Answers
      <3> QED BY <3>1, <3>2
    <2> QED BY <2>1, <2>2
  <1>5. \A q \in Restore : \A k \in DOMAIN replies'[q] : Told(q, replies[q][k])'
    BY <1>4 DEF Told
  <1>6. \A q \in Restore : Len(replies'[q]) > 1 => q \in raced'
    BY <1>3
  <1>7. Answers'
    BY <1>5, <1>6, Zenon DEF Answers
  <1> QED BY <1>1, <1>7

\* What is in hand stays so, and a queued command unanswered, while nothing is
\* answered and no file is written or removed.
LEMMA QuietRestore ==
  ASSUME RestoreInv, UNCHANGED <<found, disk, raced, replies, port>>, Range(log) \subseteq Range(log'),
         part \subseteq part',
         \A r \in Restore : RestoreJob(r) \in Range(jobs') => RestoreJob(r) \in Range(jobs)
  PROVE  RestoreInv'
  <1>1. replies \in [Restore -> Seq(Said)] /\ raced \subseteq Restore
        /\ \A r \in Restore : RestoreJob(r) \in Range(jobs') /\ found.cmd # r => replies[r] = <<>>
    BY DEF RestoreInv
  <1>2. (replies \in [Restore -> Seq(Said)])'
    BY <1>1 DEF Said
  <1>3. (\A r \in Restore : RestoreJob(r) \in Range(jobs) /\ found.cmd # r => replies[r] = <<>>)'
    BY <1>1 DEF RestoreJob
  <1>4. ASSUME InHand PROVE InHand'
    <2>1. ASSUME NEW said, Told(found.cmd, said) PROVE Told(found.cmd, said)'
      BY <2>1, ToldStays
    <2>2. found.pc = "stamp" => disk[found.item.file] = NoHash
            \/ (disk[found.item.file] \in Said /\ Told(found.cmd, disk[found.item.file])')
      BY <1>4, <2>1 DEF InHand
    <2>3. found \in Found /\ found.item \in Range(log')
      BY <1>4 DEF InHand
    <2> QED BY <1>4, <2>2, <2>3 DEF InHand, Said, Found, Told
  <1> QED BY <1>1, <1>2, <1>3, <1>4 DEF RestoreInv

\* A file is removed: if its version has been looked up and not been compared, the
\* command is one whose file was removed under it.
LEMMA RemoveRestore ==
  ASSUME RestoreInv, LogInv, NEW f \in Files, UserRemove(f) PROVE RestoreInv'
  <1>1. /\ found' = found /\ log' = log /\ jobs' = jobs /\ replies' = replies /\ part' = part /\ port' = port
        /\ disk' = [disk EXCEPT ![f] = NoHash] /\ DOMAIN disk = Files
        /\ raced' = IF found.pc = "compare" /\ found.cmd.file = f THEN raced \cup {found.cmd} ELSE raced
    BY DEF UserRemove, data, LogInv
  <1>2. ASSUME found = NoFile PROVE raced' = raced
    <2>1. found.pc = "idle"
      BY <1>2 DEF NoFile
    <2> QED BY <1>1, <2>1
  <1>3. ASSUME InHand PROVE InHand' /\ raced' \subseteq Restore
    <2>1. /\ found \in Found /\ found.cmd \in Restore /\ found.item \in Range(log')
          /\ found.item.file = found.cmd.file /\ found.item.version = found.cmd.version
          /\ found.pc = "compare" => replies[found.cmd] = <<>>
          /\ replies[found.cmd] = <<>> \/ found.cmd \in raced
      BY <1>1, <1>3 DEF InHand, Found
    <2>2. found.item.file \in Files
      BY <2>1, StateServerAssumption
    <2>3. CASE found.cmd.file = f
      <3>1. disk'[found.item.file] = NoHash
        BY <1>1, <2>1, <2>2, <2>3
      <3>2. found.pc = "compare" => found.cmd \in raced'
        BY <1>1, <2>3
      <3>3. raced \subseteq raced' /\ raced' \subseteq Restore
        BY <1>1, <2>1 DEF RestoreInv
      <3> QED BY <1>1, <2>1, <3>1, <3>2, <3>3 DEF InHand, Found
    <2>4. CASE found.cmd.file # f
      <3>1. disk'[found.item.file] = disk[found.item.file] /\ raced' = raced
        BY <1>1, <2>1, <2>2, <2>4
      <3>3. found.pc = "stamp" => disk[found.item.file] = NoHash
              \/ (disk[found.item.file] \in Said /\ Told(found.cmd, disk[found.item.file]))
        BY <1>3 DEF InHand
      <3>4. found.pc = "compare" /\ found.exists /\ disk[found.item.file] = NoHash => found.cmd \in raced
        BY <1>3 DEF InHand
      <3> QED BY <1>1, <2>1, <3>1, <3>3, <3>4 DEF InHand, Found, Said, Told, RestoreInv
    <2> QED BY <2>3, <2>4
  <1>4. (replies \in [Restore -> Seq(Said)])'
    BY <1>1 DEF Said, RestoreInv
  <1>5. (\A r \in Restore : RestoreJob(r) \in Range(jobs) /\ found.cmd # r => replies[r] = <<>>)'
    BY <1>1 DEF RestoreInv, RestoreJob
  <1> QED BY <1>1, <1>2, <1>3, <1>4, <1>5 DEF RestoreInv

\* An answer is given, the only one unless the file was removed, and a true one.
LEMMA OneReply ==
  ASSUME Answers, RestoreInv, raced' = raced, log' = log, part' = part, port' = port,
         NEW r \in Restore, NEW y \in Said, Told(r, y), replies' = Reply(r, y),
         replies[r] = <<>> \/ r \in raced
  PROVE  /\ Answers' /\ replies' \in [Restore -> Seq(Said)]
         /\ \A q \in Restore : q # r => replies'[q] = replies[q]
  <1> DEFINE s == Append(replies[r], y)
  <1>1. replies \in [Restore -> Seq(Said)] /\ replies[r] \in Seq(Said)
    BY DEF RestoreInv
  <1>2. replies' = [replies EXCEPT ![r] = s]
    BY DEF Reply
  <1>3. /\ s \in Seq(Said) /\ Len(s) = Len(replies[r]) + 1
        /\ \A k \in DOMAIN s : s[k] = y \/ (k \in DOMAIN replies[r] /\ s[k] = replies[r][k])
    BY <1>1, AppendAnswer
  <1>4. Len(s) > 1 => r \in raced
    <2>1. CASE replies[r] = <<>>
      BY <1>3, <2>1
    <2> QED BY <2>1
  <1>5. \A k \in DOMAIN s : Told(r, s[k])
    BY <1>3, Zenon DEF Answers
  <1> HIDE DEF s
  <1>6. \A q \in Restore : q # r => replies'[q] = replies[q]
    BY <1>1, <1>2
  <1>7. Answers' /\ replies' \in [Restore -> Seq(Said)]
    BY <1>1, <1>2, <1>3, <1>4, <1>5, AnswerGiven
  <1> QED BY <1>6, <1>7

\* The lookup answers a command that finds nothing, and otherwise remembers a
\* version of the file that was asked for (cmd_restore_file_Execute).
LEMMA LookupRestore ==
  ASSUME LogInv, JobsInv, RestoreInv, Answers, RestoreLookup PROVE RestoreInv' /\ Answers'
  <1> DEFINE r == Head(jobs).cmd
  <1>1. /\ jobs # <<>> /\ Head(jobs).do = "restore" /\ found = NoFile
        /\ UNCHANGED <<log, part, port, disk, raced>>
    BY DEF RestoreLookup, data
  <1>2. /\ Head(jobs) \in Jobs /\ Head(jobs) \notin Range(Tail(jobs))
        /\ Range(jobs) = Range(Tail(jobs)) \cup {Head(jobs)}
    BY <1>1, QueueTail DEF JobsInv
  <1>3. Head(jobs) = RestoreJob(r) /\ r \in Restore
    BY <1>1, <1>2, JobsDiffer
  <1>4. /\ replies \in [Restore -> Seq(Said)] /\ raced \subseteq Restore
        /\ \A q \in Restore : RestoreJob(q) \in Range(jobs) => replies[q] = <<>>
    BY <1>1, FoundSomething DEF RestoreInv
  <1>5. replies[r] = <<>>
    BY <1>2, <1>3, <1>4
  <1> HIDE DEF r
  <1>6. CASE replies' = Reply(r, "not found") /\ jobs' = Tail(jobs) /\ found' = found
    <2>1. "not found" \in Said /\ Told(r, "not found")
      BY DEF Said, Told, ToldOf
    <2>2. /\ Answers' /\ replies' \in [Restore -> Seq(Said)]
          /\ \A q \in Restore : q # r => replies'[q] = replies[q]
      BY <1>1, <1>3, <1>5, <1>6, <2>1, OneReply
    <2>3. ASSUME NEW q \in Restore, RestoreJob(q) \in Range(jobs') PROVE replies'[q] = <<>>
      <3>1. q # r /\ RestoreJob(q) \in Range(jobs)
        BY <1>2, <1>3, <1>6, <2>3
      <3> QED BY <1>4, <2>2, <3>1
    <2>4. (\A q \in Restore : RestoreJob(q) \in Range(jobs) /\ found.cmd # q => replies[q] = <<>>)'
      BY <2>3 DEF RestoreJob
    <2>5. (replies \in [Restore -> Seq(Said)])'
      BY <2>2 DEF Said
    <2> QED BY <1>1, <1>4, <1>6, <2>2, <2>4, <2>5 DEF RestoreInv
  <1>7. ASSUME NEW a \in LookupAction(r), UNCHANGED <<replies, jobs>>,
               found' = [pc |-> "compare", cmd |-> r, item |-> a, exists |-> disk[a.file] # NoHash]
        PROVE  RestoreInv' /\ Answers'
    <2>1. a \in Range(log) /\ a.file = r.file /\ a.version = r.version
      BY DEF LookupAction
    <2>2. a \in Action
      BY <2>1 DEF LogInv, Range
    <2>3. /\ found' \in Found /\ found'.pc = "compare"
          /\ found'.cmd = r /\ found'.item = a /\ found'.exists = (disk[a.file] # NoHash)
      BY <1>3, <1>7, <2>2 DEF Found
    <2>4. InHand'
      BY <1>1, <1>5, <1>7, <2>1, <2>3 DEF InHand, Found
    <2>5. (replies \in [Restore -> Seq(Said)])' /\ raced' \subseteq Restore
      BY <1>1, <1>4, <1>7 DEF Said
    <2>6. (\A q \in Restore : RestoreJob(q) \in Range(jobs) /\ found.cmd # q => replies[q] = <<>>)'
      BY <1>4, <1>7 DEF RestoreJob
    <2>7. Answers'
      BY <1>1, <1>7, QuietAnswers
    <2> QED BY <2>4, <2>5, <2>6, <2>7 DEF RestoreInv
  <1> QED BY <1>6, <1>7 DEF RestoreLookup, r

\* The command whose version is in hand has returned.
LEMMA RestoreReturns ==
  ASSUME JobsInv, RestoreInv, found # NoFile, Returns, raced' = raced,
         replies' \in [Restore -> Seq(Said)], \A q \in Restore : q # found.cmd => replies'[q] = replies[q]
  PROVE  RestoreInv'
  <1>1. found' = NoFile /\ jobs' = Tail(jobs) /\ jobs # <<>> /\ Head(jobs) = RestoreJob(found.cmd)
    BY DEF Returns, JobsInv
  <1>2. Head(jobs) \notin Range(Tail(jobs)) /\ Range(jobs) = Range(Tail(jobs)) \cup {Head(jobs)}
    BY <1>1, QueueTail DEF JobsInv
  <1>3. ASSUME NEW q \in Restore, RestoreJob(q) \in Range(jobs') PROVE replies'[q] = <<>>
    <2>1. q # found.cmd /\ RestoreJob(q) \in Range(jobs)
      BY <1>1, <1>2, <1>3
    <2> QED BY <2>1 DEF RestoreInv
  <1>4. (\A q \in Restore : RestoreJob(q) \in Range(jobs) /\ found.cmd # q => replies[q] = <<>>)'
    BY <1>3 DEF RestoreJob
  <1>5. (replies \in [Restore -> Seq(Said)])' /\ raced' \subseteq Restore
    BY DEF Said, RestoreInv
  <1> QED BY <1>1, <1>4, <1>5 DEF RestoreInv

\* It goes on to its next stage.
LEMMA RestoreGoesOn ==
  ASSUME RestoreInv, InHand, raced' = raced, log' = log, part' = part, port' = port,
         NEW pc \in {"write", "stamp"}, Goes(pc),
         replies' \in [Restore -> Seq(Said)], \A q \in Restore : q # found.cmd => replies'[q] = replies[q],
         replies'[found.cmd] = <<>> \/ found.cmd \in raced,
         pc = "stamp" => disk'[found.item.file] \in Said /\ Told(found.cmd, disk'[found.item.file])
  PROVE  RestoreInv'
  <1>1. /\ found' \in Found /\ found' # NoFile /\ found'.pc = pc /\ jobs' = jobs
        /\ found'.cmd = found.cmd /\ found'.item = found.item /\ found'.exists = found.exists
    BY GoesOn DEF InHand
  <1>2. InHand'
    <2>1. /\ found'.item \in Range(log') /\ found'.item.file = found'.cmd.file
          /\ found'.item.version = found'.cmd.version
      BY <1>1 DEF InHand
    <2>2. found'.pc # "compare" /\ (replies'[found'.cmd] = <<>> \/ found'.cmd \in raced')
      BY <1>1
    <2>3. found'.pc = "stamp" => (disk[found.item.file] \in Said /\ Told(found.cmd, disk[found.item.file]))'
      BY <1>1 DEF Told, Said
    <2> QED BY <1>1, <2>1, <2>2, <2>3 DEF InHand, Found
  <1>3. (\A q \in Restore : RestoreJob(q) \in Range(jobs) /\ found.cmd # q => replies[q] = <<>>)'
    BY <1>1 DEF RestoreInv, RestoreJob
  <1>4. (replies \in [Restore -> Seq(Said)])' /\ raced' \subseteq Restore
    BY DEF Said, RestoreInv
  <1> QED BY <1>2, <1>3, <1>4 DEF RestoreInv

\* The file is compared: it is as it should be, or was removed, which is answered,
\* or has to be written (the comparison of cmd_restore_file_Execute).
LEMMA CompareRestore ==
  ASSUME JobsInv, RestoreInv, Answers, RestoreCompare PROVE RestoreInv' /\ Answers'
  <1> DEFINE r == found.cmd
  <1>1. /\ found # NoFile /\ found.pc = "compare"
        /\ UNCHANGED <<log, part, port, disk, raced>>
    BY Stages DEF RestoreCompare, data
  <1>2. InHand /\ replies \in [Restore -> Seq(Said)]
    BY <1>1 DEF RestoreInv
  <1>3. r \in Restore /\ replies[r] = <<>>
    BY <1>1, <1>2, FoundSomething DEF InHand
  <1>4. ASSUME NEW y \in {"exists", "failed"}, replies' = Reply(r, y)
        PROVE  /\ Answers' /\ replies' \in [Restore -> Seq(Said)]
               /\ \A q \in Restore : q # r => replies'[q] = replies[q]
    <2>1. y \in Said /\ Told(r, y)
      BY DEF Said, Told, ToldOf
    <2> HIDE DEF r
    <2> QED BY <1>1, <1>3, <1>4, <2>1, OneReply
  <1>5. CASE replies' = Reply(r, "exists") /\ Returns
    BY <1>1, <1>4, <1>5, RestoreReturns
  <1>6. CASE found.exists /\ disk[found.item.file] = NoHash /\ replies' = Reply(r, "failed") /\ Goes("write")
    <2>1. r \in raced
      BY <1>1, <1>2, <1>6 DEF InHand
    <2> QED BY <1>1, <1>2, <1>4, <1>6, <2>1, RestoreGoesOn
  <1>7. CASE replies' = replies /\ Goes("write")
    <2>1. Answers'
      BY <1>1, <1>7, QuietAnswers
    <2> QED BY <1>1, <1>2, <1>3, <1>7, <2>1, RestoreGoesOn
  <1> QED BY <1>5, <1>6, <1>7 DEF RestoreCompare

\* What is written of the version is true to the store (objectsToLocalFile).
LEMMA WriteRestore ==
  ASSUME LogInv, JobsInv, RestoreInv, Answers, RestoreWrite PROVE RestoreInv' /\ Answers'
  <1> DEFINE r == found.cmd
             a == found.item
             object == ObjectsToLocalFile(a)
  <1>1. found # NoFile /\ found.pc = "write" /\ UNCHANGED <<log, part, port, raced>>
    BY Stages DEF RestoreWrite, data
  <1>2. InHand /\ replies \in [Restore -> Seq(Said)]
    BY <1>1 DEF RestoreInv
  <1>3. r \in Restore /\ (replies[r] = <<>> \/ r \in raced)
    BY <1>2, FoundSomething DEF InHand
  <1>4. CASE replies' = replies /\ Returns
    <2>1. Answers'
      BY <1>1, <1>4, QuietAnswers
    <2> QED BY <1>1, <1>2, <1>4, <2>1, RestoreReturns
  <1>5. CASE object.ok /\ disk' = [disk EXCEPT ![a.file] = object.content] /\ Goes("stamp") /\ replies' = replies
    <2>1. a \in Range(log) /\ a.file = r.file /\ a.version = r.version /\ a \in Action
      BY <1>2 DEF InHand, Found
    <2>2. object.content \in Said /\ Told(r, object.content)
      <3>1. Object(a) \in whole \cup part
        BY <1>5 DEF ObjectsToLocalFile
      <3>2. CASE object.content = a.hash
        BY <2>1, <3>2 DEF Said, Told, ToldOf
      <3>3. CASE object.content = "torn" /\ Object(a) \in part
        BY <2>1, <3>3 DEF Said, Told, ToldOf
      <3>4. CASE object.content = "padded" /\ "sized" \notin port
        BY <3>4 DEF Said, Told, ToldOf
      <3> QED BY <3>1, <3>2, <3>3, <3>4 DEF ObjectsToLocalFile
    <2>3. a.file \in DOMAIN disk
      BY <2>1, StateServerAssumption DEF LogInv
    <2> HIDE DEF object
    <2>4. disk'[a.file] = object.content
      BY <1>5, <2>3
    <2>5. Answers'
      BY <1>1, <1>5, QuietAnswers
    <2> QED BY <1>1, <1>2, <1>3, <1>5, <2>2, <2>4, <2>5, RestoreGoesOn
  <1>6. CASE replies' = Reply(r, "error") /\ Returns
    <2>1. "error" \in Said /\ Told(r, "error")
      BY DEF Said, Told, ToldOf
    <2>2. /\ Answers' /\ replies' \in [Restore -> Seq(Said)]
          /\ \A q \in Restore : q # r => replies'[q] = replies[q]
      <3> HIDE DEF r
      <3> QED BY <1>1, <1>3, <1>6, <2>1, OneReply
    <2> QED BY <1>1, <1>6, <2>2, RestoreReturns
  <1> QED BY <1>4, <1>5, <1>6 DEF RestoreWrite

\* What is on disk is answered, unless it was removed (last_write_time and
\* permissions).
LEMMA StampRestore ==
  ASSUME JobsInv, RestoreInv, Answers, RestoreStamp PROVE RestoreInv' /\ Answers'
  <1> DEFINE r == found.cmd
             there == disk[found.item.file]
  <1>1. found # NoFile /\ found.pc = "stamp" /\ Returns /\ UNCHANGED <<log, part, port, raced>>
    BY Stages DEF RestoreStamp, data
  <1>2. InHand /\ replies \in [Restore -> Seq(Said)]
    BY <1>1 DEF RestoreInv
  <1>3. r \in Restore /\ (replies[r] = <<>> \/ r \in raced)
    BY <1>2, FoundSomething DEF InHand
  <1>4. CASE replies' = replies
    <2>1. Answers'
      BY <1>1, <1>4, QuietAnswers
    <2> QED BY <1>1, <1>2, <1>4, <2>1, RestoreReturns
  <1>5. CASE there # NoHash /\ replies' = Reply(r, there)
    <2>1. there \in Said /\ Told(r, there)
      BY <1>1, <1>2, <1>5 DEF InHand
    <2>2. /\ Answers' /\ replies' \in [Restore -> Seq(Said)]
          /\ \A q \in Restore : q # r => replies'[q] = replies[q]
      <3> HIDE DEF r, there
      <3> QED BY <1>1, <1>3, <1>5, <2>1, OneReply
    <2> QED BY <1>1, <2>2, RestoreReturns
  <1> QED BY <1>4, <1>5 DEF RestoreStamp

\* Every other step leaves what was looked up and answered alone.
LEMMA NextRestore ==
  LogInv /\ JobsInv /\ RestoreInv /\ Answers /\ [Next]_vars => RestoreInv' /\ Answers'
  <1> SUFFICES ASSUME LogInv, JobsInv, RestoreInv, Answers, [Next]_vars PROVE RestoreInv' /\ Answers'
    OBVIOUS
  <1>1. ASSUME UNCHANGED <<found, disk, raced, replies, port>>, Range(log) \subseteq Range(log'), part \subseteq part',
               \A r \in Restore : RestoreJob(r) \in Range(jobs') => RestoreJob(r) \in Range(jobs)
        PROVE  RestoreInv' /\ Answers'
    BY <1>1, QuietRestore, QuietAnswers
  <1>2. CASE UNCHANGED vars
    BY <1>1, <1>2 DEF vars, data
  <1>3. ASSUME NEW a \in Action, NEW k \in 1..(Len(log) + 1), Log(a, k) PROVE RestoreInv' /\ Answers'
    <2>1. log' = InsertAt(log, k, a) /\ a \notin Range(log) /\ log \in Seq(Action) /\ IsInjective(log)
      BY <1>3 DEF Log, LogInv
    <2>2. Range(log) \subseteq Range(log')
      BY <2>1, InsertInjective
    <2> QED BY <1>1, <1>3, <2>2 DEF Log
  <1>4. ASSUME NEW o, Fetched(o) PROVE RestoreInv' /\ Answers'
    BY <1>1, <1>4 DEF Fetched
  <1>5. ASSUME NEW f \in Files, UserRemove(f) PROVE RestoreInv' /\ Answers'
    <2>1. RestoreInv'
      BY <1>5, RemoveRestore
    <2>2. replies' = replies /\ log' = log /\ part' = part /\ port' = port /\ raced \subseteq raced'
      BY <1>5 DEF UserRemove, data
    <2> QED BY <2>1, <2>2, QuietAnswers
  <1>6. ASSUME NEW f \in Files, DeleteRow(f) PROVE RestoreInv' /\ Answers'
    BY <1>1, <1>6 DEF DeleteRow
  <1>7. ASSUME NEW list, NEW d, Begin(list, d) PROVE RestoreInv' /\ Answers'
    <2>1. client.list = "none" /\ jobs' = Append(jobs, ListJob)
      BY <1>7 DEF Begin, ListJob
    <2>2. Range(jobs') = Range(jobs) \cup {ListJob}
      BY <2>1, JobsDiffer, QueueAppend DEF JobsInv
    <2> QED BY <1>1, <1>7, <2>2, JobsDiffer DEF Begin, data
  <1>8. ASSUME NEW r \in Restore, CmdRestoreFile(r) PROVE RestoreInv' /\ Answers'
    <2>1. /\ RestoreJob(r) \notin Range(jobs) /\ jobs' = Append(jobs, RestoreJob(r)) /\ replies[r] = <<>>
          /\ UNCHANGED <<found, disk, raced, replies, log, part, port>>
      BY <1>8 DEF CmdRestoreFile, RestoreJob, data
    <2>2. Range(jobs') = Range(jobs) \cup {RestoreJob(r)}
      BY <2>1, JobsDiffer, QueueAppend DEF JobsInv
    <2>3. ASSUME NEW q \in Restore, RestoreJob(q) \in Range(jobs'), found.cmd # q PROVE replies[q] = <<>>
      BY <2>1, <2>2, <2>3, JobsDiffer DEF RestoreInv
    <2>4. (\A q \in Restore : RestoreJob(q) \in Range(jobs) /\ found.cmd # q => replies[q] = <<>>)'
      BY <2>1, <2>3 DEF RestoreJob
    <2>5. (replies \in [Restore -> Seq(Said)])'
      BY <2>1 DEF Said, RestoreInv
    <2>6. RestoreInv'
      BY <2>1, <2>4, <2>5 DEF RestoreInv, InHand, Found, Said, Told
    <2> QED BY <2>1, <2>6, QuietAnswers
  <1>9. ASSUME NEW seen, ListPage(seen) PROVE RestoreInv' /\ Answers'
    <2>1. /\ jobs # <<>> /\ Head(jobs).do = "list"
          /\ jobs' = Tail(jobs) \/ jobs' = Append(Tail(jobs), ListJob)
      BY <1>9 DEF ListPage, ListJob
    <2>2. /\ Tail(jobs) \in Seq(Jobs) /\ IsInjective(Tail(jobs)) /\ Head(jobs) \in Jobs
          /\ Head(jobs) \notin Range(Tail(jobs)) /\ Range(Tail(jobs)) \subseteq Range(jobs)
      BY <2>1, QueueTail DEF JobsInv
    <2>3. Head(jobs) = ListJob
      BY <2>1, <2>2, JobsDiffer
    <2>4. Range(Append(Tail(jobs), ListJob)) = Range(Tail(jobs)) \cup {ListJob}
      <3> DEFINE rest == Tail(jobs)
      <3>1. ListJob \notin Range(rest) /\ ListJob \in Jobs /\ rest \in Seq(Jobs) /\ IsInjective(rest)
        BY <2>2, <2>3, JobsDiffer
      <3> HIDE DEF rest
      <3>2. Range(Append(rest, ListJob)) = Range(rest) \cup {ListJob}
        BY <3>1, QueueAppend, Zenon
      <3> QED BY <3>2 DEF rest
    <2>5. Range(jobs') \subseteq Range(jobs) \cup {ListJob}
      BY <2>1, <2>2, <2>4
    <2> QED BY <1>1, <1>9, <2>5, JobsDiffer DEF ListPage, data
  <1>10. CASE RestoreLookup
    BY <1>10, LookupRestore
  <1>11. CASE RestoreCompare
    BY <1>11, CompareRestore
  <1>12. CASE RestoreWrite
    BY <1>12, WriteRestore
  <1>13. CASE RestoreStamp
    BY <1>13, StampRestore
  <1> QED
    BY <1>2, <1>3, <1>4, <1>5, <1>6, <1>7, <1>8, <1>9, <1>10, <1>11, <1>12, <1>13
       DEF Next, InfoActions, InfoFilesFolder, Execute, InfoActionsExecute, InfoFilesFolderExecute, RestoreExecute

\* The listing over every step.
LEMMA NextList == ListInv /\ LogInv /\ [Next]_vars => ListInv'
  <1> SUFFICES ASSUME ListInv, LogInv, [Next]_vars PROVE ListInv'
    OBVIOUS
  <1>1. CASE UNCHANGED vars
    BY <1>1, QuietList DEF vars, data
  <1>2. ASSUME NEW a \in Action, NEW k \in 1..(Len(log) + 1), Log(a, k) PROVE ListInv'
    BY <1>2, LogList
  <1>3. ASSUME NEW o, Fetched(o) PROVE ListInv'
    BY <1>3, QuietList DEF Fetched
  <1>4. ASSUME NEW f \in Files, UserRemove(f) PROVE ListInv'
    BY <1>4, QuietList DEF UserRemove, data
  <1>5. ASSUME NEW f \in Files, DeleteRow(f) PROVE ListInv'
    BY <1>5, DeleteRowList
  <1>6. CASE InfoActions \/ InfoFilesFolder
    <2>1. PICK list \in Lists, d \in Folder \cup {<<>>} : Begin(list, d)
      BY <1>6 DEF InfoActions, InfoFilesFolder, Lists
    <2> QED BY <2>1, BeginList
  <1>7. ASSUME NEW r \in Restore, CmdRestoreFile(r) PROVE ListInv'
    BY <1>7, QuietList DEF CmdRestoreFile, data
  <1>8. CASE InfoActionsExecute \/ InfoFilesFolderExecute
    <2>1. client.list \in Lists /\ ListPage(client.seen \cup NextPage)
      BY <1>8 DEF InfoActionsExecute, InfoFilesFolderExecute, FormatActionJson, FormatFilestateJson, Lists
    <2> QED BY <2>1, PageList
  <1>9. CASE RestoreLookup
    BY <1>9, QuietList DEF RestoreLookup, data
  <1>10. CASE RestoreCompare \/ RestoreWrite \/ RestoreStamp
    BY <1>10, Stages, QuietList
  <1> QED
    BY <1>1, <1>2, <1>3, <1>4, <1>5, <1>6, <1>7, <1>8, <1>9, <1>10 DEF Next, Execute, RestoreExecute

\* The inductive invariant of the state server.
IInv == ListInv /\ LogInv /\ JobsInv /\ RestoreInv /\ Answers

\* It holds of a fresh process.
LEMMA InitInv == Init => IInv
  <1> SUFFICES ASSUME Init PROVE IInv
    OBVIOUS
  <1>1. ASSUME NEW r \in Restore PROVE Len(replies[r]) = 0 /\ DOMAIN replies[r] = {}
    BY DEF Init
  <1>2. Answers
    BY <1>1 DEF Answers
  <1> QED BY <1>2, InitList, InitLog DEF IInv

\* Every step preserves it.
LEMMA NextInv == IInv /\ [Next]_vars => IInv'
  BY NextList, NextLog, NextJobs, NextRestore DEF IInv

\* So it always holds.
LEMMA AlwaysInv == Spec => []IInv
  BY InitInv, NextInv, PTL DEF Spec

\* A listing that has ended misses nothing that was there when it began, however
\* many rows are inserted between its pages; a listing of files may miss a row
\* when one was deleted (LIMIT and OFFSET, the row more that is asked for).
THEOREM ListingsAreComplete == Spec => []ListingIsComplete
  <1>1. IInv => ListingIsComplete
    BY DEF IInv, ListInv
  <1> QED BY AlwaysInv, <1>1, PTL

\* A restore command is answered once, or twice when its file was removed under
\* it, and what is answered is true (cmd_restore_file_Execute,
\* objectsToLocalFile).
THEOREM RestoresAreSound == Spec => []RestoreSound
  <1>1. IInv => RestoreSound
    <2> SUFFICES ASSUME IInv PROVE RestoreSound
      OBVIOUS
    <2>1. AnsweredOnce /\ RestoredIsAsked
      BY AnswersMean DEF IInv
    <2>2. Range(log) \subseteq Action
      BY DEF IInv, LogInv, Range
    <2>3. found # NoFile =>
            /\ jobs # <<>> /\ Head(jobs) = [do |-> "restore", cmd |-> found.cmd]
            /\ found.pc \in {"compare", "write", "stamp"}
      BY DEF IInv, JobsInv, RestoreJob, RestoreInv, InHand, Found
    <2>4. Cardinality({k \in DOMAIN jobs : jobs[k].do = "list"}) <= 1
      BY OnePage DEF IInv
    <2>5. DOMAIN replies = Restore /\ raced \subseteq Restore
      BY DEF IInv, RestoreInv
    <2>6. TypeOK
      BY <2>2, <2>3, <2>4, <2>5 DEF IInv, LogInv, TypeOK
    <2> QED BY <2>1, <2>6 DEF RestoreSound
  <1> QED BY AlwaysInv, <1>1, PTL

=============================================================================
