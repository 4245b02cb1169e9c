---------------------------- MODULE Content_proofs ----------------------------
(***************************************************************************)
(* What is logged and what is served: the invariants of ActionLog and of   *)
(* ContentServer.                                                          *)
(***************************************************************************)
EXTENDS ActionLog, ContentServer, FiniteSetTheorems, SequenceTheorems, TLAPS

Updates == {a \in Action : a.act = UPDATE /\ a.hash \in Hash}

Pcs == {"idle", "begin", "latest", "insert", "end", "complete"}

Types ==
    /\ log \subseteq LogRow /\ durable \subseteq log /\ IsFiniteSet(log)
    /\ txn \in BOOLEAN
    /\ files \in [File -> Row \cup {NoRow}]
    /\ changes \in {0, 1}
    /\ applying \in Updates \cup {None}
    /\ job \in [pc : Pcs, a : Action \cup {None}]
    /\ number \in 0..MaxNumber
    /\ torn \subseteq File /\ halted \subseteq File
    /\ burnt \subseteq 1..MaxNumber /\ crashes \in 0..MaxCrash

\* Actions of one device on one file that have the same version are the same.
Agree(a, b) == a.dev = b.dev /\ a.file = b.file /\ a.version = b.version => a = b

\* A row is stored under the form of its action, and comes from this device or
\* was sent by another.
RowSound(r) == r.form = KeyForm(r.a.act) /\ (r.a.dev # Local => r.a \in Remote)

Rows ==
    /\ \A r \in log : RowSound(r)
    /\ \A r, s \in log : Agree(r.a, s.a)

\* Action a overrules every other logged action on file f.
Wins(a, f) ==
    /\ \E r \in RowsOf(f) : r.a = a
    /\ \A r \in RowsOf(f) : r.a = a \/ Overruled(r.a, a)

\* UpdateFile is under way for the action that wins, whose row is not committed.
Applying ==
    applying # None =>
        /\ Wins(applying, applying.file)
        /\ \E r \in log \ durable : r.a = applying
        /\ applying.dev = Local => job.pc = "end" /\ job.a = applying

Transaction ==
    /\ ~txn /\ applying = None => durable = log
    /\ applying = None => changes = 0
    /\ txn <=> job.pc \in {"latest", "insert", "end"}

Shown(a, row) == IF a.act = DELETE THEN row = NoRow ELSE ShowsAction(row, a)

Shows ==
    \A f \in File \ torn :
       (applying # None => applying.file # f) =>
          \/ RowsOf(f) = {} /\ files[f] = NoRow
          \/ \E r \in RowsOf(f) : Wins(r.a, f) /\ Shown(r.a, files[f])

\* A local action has no number until it takes one, and a version above those of
\* its device when it is inserted.
JobSound ==
    /\ job.pc = "idle" => job.a = None
    /\ job.pc # "idle" =>
          /\ job.a \in Action /\ job.a.dev = Local
          /\ job.a.act = UPDATE => job.a.hash \in Hash
    /\ job.pc = "begin" \/ (job.pc = "latest" /\ job.a.act = DELETE) =>
          number < MaxNumber /\ job.a.seq = 0
    /\ job.pc = "insert" =>
          \A r \in RowsOf(job.a.file) : r.a.dev = Local => r.a.version < job.a.version
    /\ job.pc \in {"end", "complete"} /\ job.a.seq # 0 => \E r \in log : r.a = job.a
    /\ job.pc = "complete" => job.a.act = UPDATE

\* An incomplete row of this device waits for SetFileComplete.
OwnRows ==
    \A f \in File \ halted :
       files[f].dev = Local /\ ~files[f].complete =>
          job.pc \in {"end", "complete"} /\ job.a.act = UPDATE /\ job.a.file = f

IInv == /\ Types /\ Rows /\ Applying /\ Transaction /\ Shows
        /\ JobSound /\ OwnRows /\ NumbersAreLogged

-----------------------------------------------------------------------------
(* The order of actions.                                                    *)

\* What an action consists of.
LEMMA ActionFields ==
  ASSUME NEW a \in Action
  PROVE  /\ a.dev \in Device /\ a.dev \in Nat \ {0} /\ a.seq \in Nat /\ a.version \in Nat
         /\ a.act \in {UPDATE, DELETE} /\ a.file \in File /\ a # None /\ UPDATE # DELETE
  <1>1. a.dev \in Device /\ a.dev \in Nat \ {0}
    BY DeviceAssumption DEF Action
  <1>2. a # None
    BY <1>1 DEF None
  <1> QED
    BY <1>1, <1>2 DEF Action, UPDATE, DELETE

\* To be overruled is a strict order, total on the actions of a file when those of
\* one device and version are the same.
LEMMA OverruledOrder ==
  ASSUME NEW a \in Action, NEW b \in Action, NEW c \in Action
  PROVE  /\ ~Overruled(a, a)
         /\ ~(Overruled(a, b) /\ Overruled(b, a))
         /\ Overruled(a, b) /\ Overruled(b, c) => Overruled(a, c)
  BY ActionFields DEF Overruled

\* What AddRemoteAction and InsertLocal insert.
Insertable(r) ==
    /\ r \in LogRow /\ RowSound(r)
    /\ r.a.act = UPDATE => r.a \in Updates
    /\ \A s \in log : Agree(r.a, s.a) /\ Agree(s.a, r.a)

\* The rows of a file after a row is inserted.
LEMMA RowsOfLonger ==
  ASSUME NEW r, log' = log \cup {r}, NEW f
  PROVE  RowsOf(f)' = IF r.a.file = f THEN RowsOf(f) \cup {r} ELSE RowsOf(f)
  BY DEF RowsOf

\* When the WHEN clause holds, the inserted action wins: the order of keys is that
\* of names, and a deletion comes before all updates.
LEMMA AppliedWins ==
  ASSUME Types, Rows, NEW r, Insertable(r), TriggerApplies(r), log' = log \cup {r}
  PROVE  Wins(r.a, r.a.file)'
  <1> DEFINE f == r.a.file
  <1>1. r \in LogRow /\ r.a \in Action
    BY DEF Insertable, LogRow
  <1>2. RowsOf(f)' = RowsOf(f) \cup {r}
    BY RowsOfLonger
  <1>3. ASSUME NEW s \in RowsOf(f) PROVE s.a = r.a \/ Overruled(s.a, r.a)
    <2>1. s \in log /\ s \in LogRow /\ s.a \in Action /\ s.a.file = f
      BY DEF RowsOf, Types, LogRow
    <2>2. /\ ~(s.a.version > r.a.version)
          /\ ~(s.a.version = r.a.version /\ KeyLess(r, s))
      BY DEF TriggerApplies
    <2>3. /\ s.form = KeyForm(s.a.act) /\ r.form = KeyForm(r.a.act)
          /\ Agree(s.a, r.a)
      BY <2>1 DEF Rows, RowSound, Insertable
    <2>4. /\ s.a.dev \in Nat /\ r.a.dev \in Nat /\ s.a.version \in Nat /\ r.a.version \in Nat
          /\ s.a.act \in {UPDATE, DELETE} /\ r.a.act \in {UPDATE, DELETE}
      BY <1>1, <2>1, ActionFields
    <2>5. CASE s.a.version < r.a.version
      BY <2>4, <2>5 DEF Overruled
    <2>6. CASE s.a.version = r.a.version
      <3>1. ~KeyLess(r, s)
        BY <2>2, <2>6
      <3>2. CASE s.a.act = r.a.act
        <4>1. ~(r.a.dev < s.a.dev)
          BY <2>3, <3>1, <3>2 DEF KeyLess
        <4>2. s.a.dev = r.a.dev => s.a = r.a
          BY <2>1, <2>3, <2>6 DEF Agree
        <4> QED
          BY <2>4, <2>6, <3>2, <4>1, <4>2 DEF Overruled
      <3>3. CASE s.a.act # r.a.act
        <4>1. ~(r.a.act = DELETE /\ s.a.act = UPDATE)
          BY <2>3, <3>1 DEF KeyLess, KeyForm, UPDATE, DELETE
        <4> QED
          BY <2>4, <2>6, <3>3, <4>1 DEF Overruled
      <3> QED
        BY <3>2, <3>3
    <2> QED
      BY <2>2, <2>4, <2>5, <2>6
  <1> QED
    BY <1>2, <1>3 DEF Wins

\* When it does not, the inserted action is logged already or overruled.
LEMMA NotAppliedLoses ==
  ASSUME Types, Rows, NEW r, Insertable(r), ~TriggerApplies(r)
  PROVE  \E s \in RowsOf(r.a.file) : r.a = s.a \/ Overruled(r.a, s.a)
  <1> DEFINE f == r.a.file
  <1>1. r \in LogRow /\ r.a \in Action
    BY DEF Insertable, LogRow
  <1>2. PICK s \in RowsOf(f) :
           \/ s.a.version > r.a.version
           \/ s.a.version = r.a.version /\ KeyLess(r, s)
    BY DEF TriggerApplies
  <1>3. s \in log /\ s \in LogRow /\ s.a \in Action /\ s.a.file = f
    BY DEF RowsOf, Types, LogRow
  <1>4. /\ s.form = KeyForm(s.a.act) /\ r.form = KeyForm(r.a.act)
        /\ Agree(r.a, s.a)
    BY <1>3 DEF Rows, RowSound, Insertable
  <1>5. /\ s.a.act \in {UPDATE, DELETE} /\ r.a.act \in {UPDATE, DELETE}
    BY <1>1, <1>3, ActionFields
  <1>6. CASE s.a.version > r.a.version
    BY <1>6 DEF Overruled
  <1>7. CASE s.a.version = r.a.version /\ KeyLess(r, s)
    <2>1. CASE r.form = "wire" /\ s.form = "value"
      <3>1. r.a.act = DELETE /\ s.a.act = UPDATE
        BY <1>4, <1>5, <2>1 DEF KeyForm
      <3> QED
        BY <1>7, <3>1 DEF Overruled
    <2>2. CASE r.form = s.form /\ r.a.dev < s.a.dev
      <3>1. r.a.act = s.a.act
        BY <1>4, <1>5, <2>2 DEF KeyForm
      <3> QED
        BY <1>7, <2>2, <3>1 DEF Overruled
    <2>3. CASE r.a.dev = s.a.dev
      BY <1>3, <1>4, <1>7, <2>3 DEF Agree
    <2> QED
      BY <1>7, <2>1, <2>2, <2>3 DEF KeyLess
  <1> QED
    BY <1>2, <1>6, <1>7

\* The winner of a file stays so when another file's action is inserted, or one
\* that is logged or overruled.
LEMMA WinnerStays ==
  ASSUME Types, NEW r, r.a \in Action, log' = log \cup {r}, NEW a \in Action, NEW f, Wins(a, f),
         r.a.file = f => \E s \in RowsOf(f) : r.a = s.a \/ Overruled(r.a, s.a)
  PROVE  Wins(a, f)'
  <1>1. RowsOf(f)' = IF r.a.file = f THEN RowsOf(f) \cup {r} ELSE RowsOf(f)
    BY RowsOfLonger
  <1>2. ASSUME r.a.file = f PROVE r.a = a \/ Overruled(r.a, a)
    <2>1. PICK s \in RowsOf(f) : r.a = s.a \/ Overruled(r.a, s.a)
      BY <1>2
    <2>2. s.a = a \/ Overruled(s.a, a)
      BY DEF Wins
    <2>3. s.a \in Action
      BY DEF RowsOf, Types, LogRow
    <2> QED
      BY <2>1, <2>2, <2>3, OverruledOrder
  <1> QED
    BY <1>1, <1>2 DEF Wins

-----------------------------------------------------------------------------
(* The statements of FileState.                                             *)

Tables == [File -> Row \cup {NoRow}]

\* What a row consists of.
LEMMA RowFields ==
  ASSUME NEW t \in Tables, NEW f \in File
  PROVE  /\ Exists(t, f) => t[f] \in Row /\ t[f].dev \in Device /\ t[f].complete \in BOOLEAN
         /\ NoRow \notin Row /\ NoRow.dev # Local /\ ~NoRow.complete
  <1>1. NoRow.dev = 0 /\ NoRow.complete = FALSE
    BY DEF NoRow
  <1>2. NoRow \notin Row /\ Local # 0
    BY <1>1, DeviceAssumption DEF Row
  <1>3. Exists(t, f) => t[f] \in Row
    BY DEF Exists, Tables
  <1> QED
    BY <1>1, <1>2, <1>3 DEF Row

\* UPDATE changes the row, if there is one, and leaves is_complete alone.
LEMMA UpdateRowEffect ==
  ASSUME NEW t \in Tables, NEW a \in Updates
  PROVE  /\ UpdateRow(t, a) \in Tables
         /\ \A f \in File \ {a.file} : UpdateRow(t, a)[f] = t[f]
         /\ Exists(t, a.file) =>
               /\ ShowsAction(UpdateRow(t, a)[a.file], a)
               /\ UpdateRow(t, a)[a.file].complete = t[a.file].complete
         /\ ~Exists(t, a.file) => UpdateRow(t, a) = t
  <1>1. a \in Action /\ a.hash \in Hash /\ a.file \in File
    BY ActionFields DEF Updates
  <1>2. a.dev \in Device /\ a.seq \in Nat /\ a.version \in Nat
    BY <1>1, ActionFields
  <1>3. CASE Exists(t, a.file)
    <2> DEFINE f == a.file
               r1 == [t[f] EXCEPT !.dev = a.dev]
               r2 == [r1 EXCEPT !.seq = a.seq]
               r3 == [r2 EXCEPT !.version = a.version]
               r == [r3 EXCEPT !.hash = a.hash]
    <2>1. t[f] \in Row
      BY <1>1, <1>3, RowFields
    <2>2. UpdateRow(t, a) = [t EXCEPT ![f] = r]
      BY <1>1, <1>3 DEF UpdateRow, Tables
    <2>3. r1 \in Row /\ r1.dev = a.dev /\ r1.complete = t[f].complete
      BY <1>2, <2>1 DEF Row
    <2> HIDE DEF r1
    <2>4. r2 \in Row /\ r2.dev = a.dev /\ r2.seq = a.seq /\ r2.complete = t[f].complete
      BY <1>2, <2>3 DEF Row
    <2> HIDE DEF r2
    <2>5. /\ r3 \in Row /\ r3.dev = a.dev /\ r3.seq = a.seq /\ r3.version = a.version
          /\ r3.complete = t[f].complete
      BY <1>2, <2>4 DEF Row
    <2> HIDE DEF r3
    <2>6. /\ r \in Row /\ r.dev = a.dev /\ r.seq = a.seq /\ r.version = a.version
          /\ r.hash = a.hash /\ r.complete = t[f].complete
      BY <1>1, <2>5 DEF Row
    <2> HIDE DEF r
    <2>7. r # NoRow
      BY <1>1, <2>6, RowFields
    <2>8. /\ UpdateRow(t, a) \in Tables /\ UpdateRow(t, a)[f] = r
          /\ \A g \in File \ {f} : UpdateRow(t, a)[g] = t[g]
      BY <1>1, <2>2, <2>6 DEF Tables
    <2> QED
      BY <1>3, <2>6, <2>7, <2>8 DEF ShowsAction
  <1>4. CASE ~Exists(t, a.file)
    BY <1>4 DEF UpdateRow
  <1> QED
    BY <1>3, <1>4

\* INSERT adds an incomplete row, unless there is one.
LEMMA InsertRowEffect ==
  ASSUME NEW t \in Tables, NEW a \in Updates
  PROVE  /\ InsertRow(t, a) \in Tables
         /\ \A f \in File \ {a.file} : InsertRow(t, a)[f] = t[f]
         /\ ~Exists(t, a.file) => InsertRow(t, a)[a.file].dev = a.dev
         /\ Exists(t, a.file) => InsertRow(t, a) = t
  <1>1. a \in Action /\ a.hash \in Hash /\ a.file \in File
    BY ActionFields DEF Updates
  <1>2. a.dev \in Device /\ a.seq \in Nat /\ a.version \in Nat
    BY <1>1, ActionFields
  <1> DEFINE no == FALSE
             r == [dev |-> a.dev, seq |-> a.seq, version |-> a.version,
                   hash |-> a.hash, complete |-> no]
  <1>3. no \in BOOLEAN
    OBVIOUS
  <1>4. ~Exists(t, a.file) => InsertRow(t, a) = [t EXCEPT ![a.file] = r]
    BY DEF InsertRow
  <1> HIDE DEF no
  <1>5. r \in Row /\ r.dev = a.dev
    BY <1>1, <1>2, <1>3 DEF Row
  <1> HIDE DEF r
  <1>6. CASE ~Exists(t, a.file)
    BY <1>1, <1>4, <1>5, <1>6 DEF Tables
  <1>7. CASE Exists(t, a.file)
    BY <1>7 DEF InsertRow
  <1> QED
    BY <1>6, <1>7

\* DELETE leaves no row.
LEMMA DeleteFileEffect ==
  ASSUME NEW t \in Tables, NEW f \in File
  PROVE  /\ DeleteFile(t, f) \in Tables
         /\ \A g \in File \ {f} : DeleteFile(t, f)[g] = t[g]
         /\ DeleteFile(t, f)[f] = NoRow
  BY DEF DeleteFile, Tables

\* SetFileComplete changes no row but in is_complete.
LEMMA SetFileCompleteEffect ==
  ASSUME NEW t \in Tables, NEW f \in File
  PROVE  /\ SetFileComplete(t, f) \in Tables
         /\ \A g \in File \ {f} : SetFileComplete(t, f)[g] = t[g]
         /\ Exists(t, f) => /\ Exists(SetFileComplete(t, f), f)
                            /\ SetFileComplete(t, f)[f].complete
                            /\ SetFileComplete(t, f)[f].dev = t[f].dev
                            /\ SetFileComplete(t, f)[f].seq = t[f].seq
                            /\ SetFileComplete(t, f)[f].version = t[f].version
                            /\ SetFileComplete(t, f)[f].hash = t[f].hash
         /\ ~Exists(t, f) => SetFileComplete(t, f) = t
  <1> DEFINE yes == TRUE
             r == [t[f] EXCEPT !.complete = yes]
  <1>1. CASE Exists(t, f)
    <2>1. t[f] \in Row /\ NoRow \notin Row
      BY <1>1, RowFields
    <2>2. SetFileComplete(t, f) = [t EXCEPT ![f] = r] /\ yes \in BOOLEAN /\ yes
      BY <1>1, <2>1 DEF SetFileComplete, Tables
    <2> HIDE DEF yes
    <2>3. /\ r \in Row /\ r.dev = t[f].dev /\ r.seq = t[f].seq /\ r.version = t[f].version
          /\ r.hash = t[f].hash
      BY <2>1, <2>2 DEF Row
    <2>4. r.complete = yes
      BY <2>1 DEF Row
    <2> HIDE DEF r
    <2>5. /\ SetFileComplete(t, f) \in Tables /\ SetFileComplete(t, f)[f] = r
          /\ \A g \in File \ {f} : SetFileComplete(t, f)[g] = t[g]
      BY <2>2, <2>3 DEF Tables
    <2>6. r # NoRow
      BY <2>1, <2>3
    <2>7. SetFileComplete(t, f)[f].complete
      BY <2>2, <2>4, <2>5
    <2> QED
      BY <1>1, <2>3, <2>5, <2>6, <2>7 DEF Exists
  <1>2. CASE ~Exists(t, f)
    BY <1>2 DEF SetFileComplete
  <1> QED
    BY <1>1, <1>2

-----------------------------------------------------------------------------
(* The INSERT with its trigger.                                             *)

\* It keeps the tables of their types.
LEMMA InsertKeepsTypes ==
  ASSUME Types, NEW r, Insertable(r), InsertAction(r)
  PROVE  /\ log' = log \cup {r} /\ r \notin log /\ log' \subseteq LogRow /\ IsFiniteSet(log')
         /\ durable' \subseteq log' /\ applying = None
         /\ files' \in Tables /\ changes' \in {0, 1} /\ applying' \in Updates \cup {None}
         /\ torn' \subseteq File
  <1>1. r \in LogRow /\ r.a \in Action /\ r.a.file \in File
    BY ActionFields DEF Insertable, LogRow
  <1>2. log' = log \cup {r} /\ r \notin log /\ applying = None
    BY DEF InsertAction, SameKey, LogFree
  <1>3. log' \subseteq LogRow /\ IsFiniteSet(log')
    BY <1>1, <1>2, FS_AddElement DEF Types
  <1>4. Committed(log') \subseteq log'
    BY <1>2 DEF Committed, Types
  <1>5. CASE ~TriggerApplies(r)
    BY <1>2, <1>3, <1>4, <1>5 DEF InsertAction, Types, Tables
  <1>6. CASE TriggerApplies(r) /\ r.a.act = UPDATE
    <2>1. /\ files' = UpdateRow(files, r.a) /\ changes' = Changes(files, r.a.file)
          /\ applying' = r.a /\ durable' = durable /\ torn' = torn
      BY <1>6 DEF InsertAction, UPDATE, DELETE
    <2>2. r.a \in Updates
      BY <1>6 DEF Insertable
    <2>3. files' \in Tables
      BY <2>1, <2>2, UpdateRowEffect DEF Types, Tables
    <2> QED
      BY <1>2, <1>3, <2>1, <2>2, <2>3 DEF Types, Changes
  <1>7. CASE TriggerApplies(r) /\ r.a.act = DELETE
    <2>1. /\ files' = DeleteFile(files, r.a.file) /\ changes' = changes
          /\ applying' = applying /\ durable' = Committed(log') /\ torn' = torn \ {r.a.file}
      BY <1>7 DEF InsertAction, UPDATE, DELETE
    <2>2. files' \in Tables
      BY <1>1, <2>1, DeleteFileEffect DEF Types, Tables
    <2> QED
      BY <1>2, <1>3, <1>4, <2>1, <2>2 DEF Types
  <1> QED
    BY <1>1, <1>5, <1>6, <1>7, ActionFields

\* A file whose row the step leaves alone shows its winner as before.
LEMMA OthersShow ==
  ASSUME Types, Shows, NEW r, r.a \in Action, log' = log \cup {r}, applying = None,
         NEW f \in File \ torn, files'[f] = files[f],
         r.a.file = f => \E s \in RowsOf(f) : r.a = s.a \/ Overruled(r.a, s.a)
  PROVE  \/ RowsOf(f)' = {} /\ files'[f] = NoRow
         \/ \E s \in RowsOf(f)' : Wins(s.a, f)' /\ Shown(s.a, files'[f])
  <1>1. RowsOf(f)' = IF r.a.file = f THEN RowsOf(f) \cup {r} ELSE RowsOf(f)
    BY RowsOfLonger
  <1>2. CASE RowsOf(f) = {} /\ files[f] = NoRow
    BY <1>1, <1>2
  <1>3. ASSUME NEW s \in RowsOf(f), Wins(s.a, f), Shown(s.a, files[f])
        PROVE  \E q \in RowsOf(f)' : Wins(q.a, f)' /\ Shown(q.a, files'[f])
    <2>1. s.a \in Action
      BY DEF RowsOf, Types, LogRow
    <2>2. Wins(s.a, f)'
      BY <1>3, <2>1, WinnerStays
    <2> QED
      BY <1>1, <1>3, <2>2
  <1> QED
    BY <1>2, <1>3 DEF Shows

\* After it, FileState still shows the winners: the inserted action, or another.
LEMMA InsertShows ==
  ASSUME IInv, NEW r, Insertable(r), InsertAction(r)
  PROVE  Shows'
  <1> DEFINE Fine(f) == \/ RowsOf(f)' = {} /\ files'[f] = NoRow
                        \/ \E s \in RowsOf(f)' : Wins(s.a, f)' /\ Shown(s.a, files'[f])
  <1>1. /\ log' = log \cup {r} /\ r.a \in Action /\ r.a.file \in File /\ applying = None
        /\ Types /\ Rows /\ Shows /\ files \in Tables
    BY InsertKeepsTypes, ActionFields DEF IInv, Insertable, LogRow, Types, Tables
  <1>2. ASSUME NEW f \in File \ torn, f # r.a.file, files'[f] = files[f] PROVE Fine(f)
    BY <1>1, <1>2, OthersShow
  <1>3. CASE ~TriggerApplies(r)
    <2>1. files' = files /\ torn' = torn
      BY <1>3 DEF InsertAction
    <2>2. \E s \in RowsOf(r.a.file) : r.a = s.a \/ Overruled(r.a, s.a)
      BY <1>1, <1>3, NotAppliedLoses
    <2>3. ASSUME NEW f \in File \ torn PROVE Fine(f)
      BY <1>1, <2>1, <2>2, OthersShow
    <2> QED
      BY <2>1, <2>3 DEF Shows, Shown
  <1>4. CASE TriggerApplies(r) /\ r.a.act = UPDATE
    <2>1. files' = UpdateRow(files, r.a) /\ applying' = r.a /\ torn' = torn
      BY <1>4 DEF InsertAction, UPDATE, DELETE
    <2>2. \A f \in File \ {r.a.file} : files'[f] = files[f]
      BY <1>1, <1>4, <2>1, UpdateRowEffect DEF Insertable
    <2>3. applying' # None
      BY <1>1, <2>1, ActionFields
    <2>4. ASSUME NEW f \in File \ torn, f # r.a.file PROVE Fine(f)
      BY <1>2, <2>2, <2>4
    <2> QED
      BY <2>1, <2>3, <2>4 DEF Shows, Shown
  <1>5. CASE TriggerApplies(r) /\ r.a.act = DELETE
    <2>1. files' = DeleteFile(files, r.a.file) /\ torn' = torn \ {r.a.file}
      BY <1>5 DEF InsertAction, UPDATE, DELETE
    <2>2. files'[r.a.file] = NoRow /\ \A f \in File \ {r.a.file} : files'[f] = files[f]
      BY <1>1, <2>1, DeleteFileEffect
    <2>3. Fine(r.a.file)
      <3>1. Wins(r.a, r.a.file)'
        BY <1>1, <1>5, AppliedWins
      <3>2. r \in RowsOf(r.a.file)'
        BY <1>1, RowsOfLonger
      <3> QED
        BY <1>5, <2>2, <3>1, <3>2 DEF Shown
    <2>4. ASSUME NEW f \in File \ torn, f # r.a.file PROVE Fine(f)
      BY <1>2, <2>2, <2>4
    <2> QED
      BY <2>1, <2>3, <2>4 DEF Shows, Shown
  <1> QED
    BY <1>1, <1>3, <1>4, <1>5, ActionFields

\* Everything but what is said of the dispatcher thread's job survives.
LEMMA InsertKeeps ==
  ASSUME IInv, NEW r, Insertable(r), InsertAction(r),
         UNCHANGED <<txn, number, halted, burnt, crashes>>,
         job' \in [pc : Pcs, a : Action \cup {None}],
         txn <=> job'.pc \in {"latest", "insert", "end"},
         r.a.dev = Local => job'.pc = "end" /\ job'.a = r.a,
         job.pc \in {"end", "complete"} => job' = job
  PROVE  Types' /\ Rows' /\ Applying' /\ Transaction' /\ Shows' /\ OwnRows'
  <1>1. /\ log' = log \cup {r} /\ r \notin log /\ r.a \in Action /\ r.a.file \in File
        /\ applying = None /\ Types /\ Rows /\ files \in Tables /\ durable \subseteq log
    BY InsertKeepsTypes, ActionFields DEF IInv, Insertable, LogRow, Types, Tables
  <1>2. Types'
    BY <1>1, InsertKeepsTypes DEF Types, Tables
  <1>3. Rows'
    BY <1>1 DEF Rows, Insertable, RowSound, Agree
  <1>4. CASE ~TriggerApplies(r)
    <2>1. files' = files /\ applying' = None /\ durable' = Committed(log') /\ changes' = changes
      BY <1>1, <1>4 DEF InsertAction
    <2>2. Applying' /\ Transaction'
      BY <1>1, <2>1 DEF Applying, Transaction, Committed, IInv, None
    <2>3. OwnRows'
      BY <2>1 DEF IInv, OwnRows
    <2> QED
      BY <1>2, <1>3, <2>2, <2>3, InsertShows
  <1>5. CASE TriggerApplies(r) /\ r.a.act = UPDATE
    <2>1. /\ files' = UpdateRow(files, r.a) /\ applying' = r.a /\ durable' = durable
          /\ r.a \in Updates
      BY <1>5 DEF InsertAction, UPDATE, DELETE, Insertable
    <2>2. r.a # None
      BY <1>1, ActionFields
    <2>3. Wins(r.a, r.a.file)'
      BY <1>1, <1>5, AppliedWins
    <2>4. Applying'
      <3>1. Wins(applying, applying.file)'
        BY <2>1, <2>3 DEF Wins, RowsOf
      <3>2. r \in log' \ durable'
        BY <1>1, <2>1
      <3> QED
        BY <2>1, <3>1, <3>2 DEF Applying
    <2>5. Transaction'
      BY <2>1, <2>2 DEF Transaction, IInv, None
    <2>6. OwnRows'
      <3> SUFFICES ASSUME NEW f \in File \ halted, files'[f].dev = Local, ~files'[f].complete
                   PROVE  job'.pc \in {"end", "complete"} /\ job'.a.act = UPDATE /\ job'.a.file = f
        BY DEF OwnRows
      <3>1. CASE f # r.a.file
        <4>1. files'[f] = files[f]
          BY <1>1, <2>1, <3>1, UpdateRowEffect
        <4> QED
          BY <4>1 DEF IInv, OwnRows
      <3>2. CASE f = r.a.file
        <4>1. Exists(files, f)
          <5>1. ~Exists(files, f) => files'[f] = NoRow
            BY <1>1, <2>1, <3>2, UpdateRowEffect DEF Exists
          <5> QED
            BY <1>1, <5>1, RowFields
        <4>2. files'[f].dev = r.a.dev
          BY <1>1, <2>1, <3>2, <4>1, UpdateRowEffect DEF ShowsAction
        <4> QED
          BY <1>5, <3>2, <4>2
      <3> QED
        BY <3>1, <3>2
    <2> QED
      BY <1>2, <1>3, <2>4, <2>5, <2>6, InsertShows
  <1>6. CASE TriggerApplies(r) /\ r.a.act = DELETE
    <2>1. /\ files' = DeleteFile(files, r.a.file) /\ changes' = changes
          /\ applying' = None /\ durable' = Committed(log')
      BY <1>1, <1>6 DEF InsertAction, UPDATE, DELETE
    <2>2. Applying' /\ Transaction'
      BY <1>1, <2>1 DEF Applying, Transaction, Committed, IInv, None
    <2>3. OwnRows'
      <3>1. files'[r.a.file] = NoRow /\ \A f \in File \ {r.a.file} : files'[f] = files[f]
        BY <1>1, <2>1, DeleteFileEffect
      <3>2. NoRow.dev # Local
        BY <1>1, RowFields
      <3> QED
        BY <3>1, <3>2 DEF IInv, OwnRows
    <2> QED
      BY <1>2, <1>3, <2>2, <2>3, InsertShows
  <1> QED
    BY <1>1, <1>4, <1>5, <1>6, ActionFields

\* The fetch thread's insertion.
LEMMA AddRemotePreserves ==
  ASSUME IInv, NEW a \in Remote, NEW pad \in Pad, AddRemoteAction(a, pad)
  PROVE  IInv'
  <1> DEFINE r == [a |-> a, form |-> "value", pad |-> pad]
  <1>1. /\ a \in Updates /\ a \in Action /\ a.dev # Local /\ a.act = UPDATE
    BY RemoteAssumption DEF AddRemoteAction, Updates
  <1>2. /\ InsertAction(r) /\ UNCHANGED <<txn, job, number, halted, burnt, crashes>>
    BY DEF AddRemoteAction
  <1>3. Insertable(r)
    <2>1. r \in LogRow /\ r.a = a /\ r.form = KeyForm(a.act)
      BY <1>1 DEF LogRow, KeyForm, UPDATE, DELETE
    <2>2. ASSUME NEW s \in log PROVE Agree(a, s.a) /\ Agree(s.a, a)
      <3>1. s.a.dev # Local => s.a \in Remote
        BY DEF IInv, Rows, RowSound
      <3> QED
        BY <1>1, <3>1, RemoteAssumption DEF Agree
    <2> QED
      BY <1>1, <2>1, <2>2 DEF Insertable, RowSound
  <1>4. r.a = a
    OBVIOUS
  <1> HIDE DEF r
  <1>5. log' = log \cup {r}
    BY <1>2, <1>3, InsertKeepsTypes DEF IInv
  <1>6. Types' /\ Rows' /\ Applying' /\ Transaction' /\ Shows' /\ OwnRows'
    <2>1. job' = job /\ job \in [pc : Pcs, a : Action \cup {None}]
          /\ (txn <=> job.pc \in {"latest", "insert", "end"})
      BY <1>2 DEF IInv, Types, Transaction
    <2> QED
      BY <1>1, <1>2, <1>3, <1>4, <2>1, InsertKeeps
  <1>7. JobSound'
    <2>1. \A f : RowsOf(f)' = IF r.a.file = f THEN RowsOf(f) \cup {r} ELSE RowsOf(f)
      BY <1>5, RowsOfLonger
    <2> QED
      BY <1>1, <1>2, <1>4, <1>5, <2>1 DEF IInv, JobSound
  <1>8. NumbersAreLogged'
    BY <1>2, <1>5 DEF IInv, NumbersAreLogged
  <1> QED
    BY <1>6, <1>7, <1>8 DEF IInv

\* The dispatcher thread's insertion.
LEMMA InsertLocalPreserves ==
  ASSUME IInv, NEW pad \in Pad, InsertLocal(pad)
  PROVE  IInv'
  <1> DEFINE r == [a |-> job.a, form |-> KeyForm(job.a.act), pad |-> pad]
  <1>1. /\ job.pc = "insert" /\ InsertAction(r) /\ job' = [job EXCEPT !.pc = "end"]
        /\ UNCHANGED <<txn, number, halted, burnt, crashes>>
    BY DEF InsertLocal
  <1>2. /\ job \in [pc : Pcs, a : Action \cup {None}] /\ job.a \in Action /\ job.a.dev = Local
        /\ job.a.act = UPDATE => job.a \in Updates
        /\ \A s \in RowsOf(job.a.file) : s.a.dev = Local => s.a.version < job.a.version
    BY <1>1 DEF IInv, Types, JobSound, Updates
  <1>3. Insertable(r)
    <2>1. r \in LogRow /\ r.a = job.a /\ r.form = KeyForm(job.a.act)
      BY <1>2 DEF LogRow, KeyForm
    <2>2. ASSUME NEW s \in log PROVE Agree(job.a, s.a) /\ Agree(s.a, job.a)
      <3>1. s.a \in Action /\ s.a.version \in Nat /\ job.a.version \in Nat
        BY <1>2, ActionFields DEF IInv, Types, LogRow
      <3> QED
        BY <1>2, <3>1 DEF Agree, RowsOf
    <2> QED
      BY <1>2, <2>1, <2>2 DEF Insertable, RowSound
  <1>4. r.a = job.a
    OBVIOUS
  <1> HIDE DEF r
  <1>5. log' = log \cup {r}
    BY <1>1, <1>3, InsertKeepsTypes DEF IInv
  <1>6. /\ job' \in [pc : Pcs, a : Action \cup {None}] /\ job'.pc = "end" /\ job'.a = job.a
    BY <1>1, <1>2 DEF Pcs
  <1>7. Types' /\ Rows' /\ Applying' /\ Transaction' /\ Shows' /\ OwnRows'
    <2>1. txn <=> job'.pc \in {"latest", "insert", "end"}
      BY <1>1, <1>6 DEF IInv, Transaction
    <2> QED
      BY <1>1, <1>3, <1>4, <1>6, <2>1, InsertKeeps
  <1>8. JobSound'
    BY <1>1, <1>2, <1>4, <1>5, <1>6 DEF IInv, JobSound
  <1>9. NumbersAreLogged'
    BY <1>1, <1>5, <1>6 DEF IInv, NumbersAreLogged
  <1> QED
    BY <1>7, <1>8, <1>9 DEF IInv

\* The end of the INSERT: UpdateFile has shown its action, or the file is torn.
LEMMA UpdateFilePreserves ==
  ASSUME IInv, UpdateFileInsert
  PROVE  IInv'
  <1> DEFINE a == applying
             f == applying.file
  <1>1. /\ a \in Updates /\ a \in Action /\ f \in File /\ a.act = UPDATE /\ files \in Tables
        /\ Wins(a, f) /\ (a.dev = Local => job.pc = "end" /\ job.a = a)
    BY ActionFields DEF IInv, Types, Applying, UpdateFileInsert, Updates, Tables
  <1>2. /\ files' = IF changes = 0 THEN InsertRow(files, a) ELSE files
        /\ torn' = IF ShowsAction(files'[f], a) THEN torn \ {f} ELSE torn \cup {f}
        /\ applying' = None /\ changes' = 0 /\ durable' = Committed(log)
        /\ UNCHANGED <<log, txn, job, number, halted, burnt, crashes>>
    BY DEF UpdateFileInsert
  <1>3. /\ files' \in Tables /\ \A g \in File \ {f} : files'[g] = files[g]
        /\ files'[f] = files[f] \/ files'[f].dev = a.dev
    BY <1>1, <1>2, InsertRowEffect
  <1>4. Types'
    <2>1. durable' \subseteq log /\ torn' \subseteq File
      BY <1>1, <1>2 DEF IInv, Types, Committed
    <2> QED
      BY <1>2, <1>3, <2>1 DEF IInv, Types, Tables
  <1>5. Rows' /\ NumbersAreLogged'
    BY <1>2 DEF IInv, Rows, NumbersAreLogged
  <1>6. Applying' /\ Transaction'
    BY <1>2 DEF IInv, Applying, Transaction, Committed
  <1>7. /\ \A g : RowsOf(g)' = RowsOf(g)
        /\ \A b, g : Wins(b, g)' = Wins(b, g)
    BY <1>2 DEF RowsOf, Wins
  <1>8. Shows'
    <2> SUFFICES ASSUME NEW g \in File \ torn'
                 PROVE  \/ RowsOf(g)' = {} /\ files'[g] = NoRow
                        \/ \E r \in RowsOf(g)' : Wins(r.a, g)' /\ Shown(r.a, files'[g])
      BY DEF Shows, Shown
    <2>1. CASE g = f
      <3>1. ShowsAction(files'[f], a)
        BY <1>2, <2>1
      <3>2. PICK r \in RowsOf(f) : r.a = a
        BY <1>1 DEF Wins
      <3>3. Shown(a, files'[f])
        BY <1>1, <3>1 DEF Shown, UPDATE, DELETE
      <3> QED
        BY <1>1, <1>7, <2>1, <3>2, <3>3
    <2>2. CASE g # f
      <3>1. g \in File \ torn /\ files'[g] = files[g]
        BY <1>2, <1>3, <2>2
      <3>2. \/ RowsOf(g) = {} /\ files[g] = NoRow
            \/ \E r \in RowsOf(g) : Wins(r.a, g) /\ Shown(r.a, files[g])
        BY <2>2, <3>1 DEF IInv, Shows
      <3> QED
        BY <1>7, <3>1, <3>2
    <2> QED
      BY <2>1, <2>2
  <1>9. JobSound'
    BY <1>2, <1>7 DEF IInv, JobSound
  <1>10. OwnRows'
    <2> SUFFICES ASSUME NEW g \in File \ halted, files'[g].dev = Local, ~files'[g].complete
                 PROVE  job.pc \in {"end", "complete"} /\ job.a.act = UPDATE /\ job.a.file = g
      BY <1>2 DEF OwnRows
    <2> QED
      BY <1>1, <1>3 DEF IInv, OwnRows
  <1> QED
    BY <1>4, <1>5, <1>6, <1>8, <1>9, <1>10 DEF IInv

-----------------------------------------------------------------------------
(* The other steps of the dispatcher thread.                                *)

\* They move the job, and what the tables hold stays.
LEMMA JobMoves ==
  ASSUME IInv, UNCHANGED <<log, files, changes, applying, torn, halted, burnt, crashes>>,
         durable' \subseteq log, txn' \in BOOLEAN, number' \in 0..MaxNumber,
         job' \in [pc : Pcs, a : Action \cup {None}],
         txn' <=> job'.pc \in {"latest", "insert", "end"},
         ~txn' /\ applying = None => durable' = log,
         applying = None \/ (job.pc # "end" /\ durable' = durable),
         job.pc \notin {"end", "complete"} \/
            (job'.pc = "complete" /\ job'.a = job.a) \/ job.a.act = DELETE
  PROVE  Types' /\ Rows' /\ Applying' /\ Transaction' /\ Shows' /\ OwnRows'
  <1>1. Types'
    BY DEF IInv, Types
  <1>2. Rows'
    BY DEF IInv, Rows
  <1>3. /\ \A g : RowsOf(g)' = RowsOf(g)
        /\ \A b, g : Wins(b, g)' = Wins(b, g)
    BY DEF RowsOf, Wins
  <1>4. Applying'
    <2>1. CASE applying = None
      BY <2>1 DEF Applying
    <2>2. CASE applying # None
      <3>1. Wins(applying, applying.file)'
        BY <2>2 DEF IInv, Applying, Wins, RowsOf
      <3> QED
        BY <2>2, <3>1 DEF IInv, Applying
    <2> QED
      BY <2>1, <2>2
  <1>5. Transaction'
    BY DEF IInv, Transaction
  <1>6. Shows'
    BY <1>3 DEF IInv, Shows, Shown
  <1>7. OwnRows'
    BY DEF IInv, OwnRows, UPDATE, DELETE
  <1> QED
    BY <1>1, <1>2, <1>4, <1>5, <1>6, <1>7

\* The next place and action of a job.
LEMMA JobType ==
  ASSUME NEW p \in Pcs, NEW a \in Action \cup {None}, NEW j, j = [pc |-> p, a |-> a]
  PROVE  j \in [pc : Pcs, a : Action \cup {None}] /\ j.pc = p /\ j.a = a
  OBVIOUS

\* What the invariant says of a job.
LEMMA JobFields ==
  ASSUME IInv
  PROVE  /\ job = [pc |-> job.pc, a |-> job.a] /\ job.pc \in Pcs
         /\ job.a \in Action \cup {None}
         /\ job.pc # "idle" => /\ job.a \in Action /\ job.a.dev = Local
                               /\ job.a.file \in File /\ job.a # None
         /\ applying = None \/ job.pc = "end" \/ applying.dev # Local
         /\ durable \subseteq log /\ number \in 0..MaxNumber /\ log \subseteq LogRow
  <1>1. job.pc # "idle" => /\ job.a \in Action /\ job.a.dev = Local
                           /\ job.a.file \in File /\ job.a # None
    BY ActionFields DEF IInv, JobSound
  <1> QED
    BY <1>1 DEF IInv, Types, Applying

\* A notification is taken up.
LEMMA LocalFilePreserves ==
  ASSUME IInv, NEW f \in File, NEW h \in Hash \cup {NoHash}, NEW act \in {UPDATE, DELETE},
         act = UPDATE => h \in Hash,
         job = Idle, number < MaxNumber, UNCHANGED <<databases, history>>,
         job' = [pc |-> "begin", a |-> Draft(act, f, h)]
  PROVE  IInv'
  <1> DEFINE d == Draft(act, f, h)
  <1>1. /\ d \in Action /\ d.dev = Local /\ d.seq = 0 /\ d.act = act /\ d.hash = h
    BY DeviceAssumption DEF Draft, Action
  <1> HIDE DEF d
  <1>2. /\ job' \in [pc : Pcs, a : Action \cup {None}] /\ job'.pc = "begin" /\ job'.a = d
    BY <1>1, JobType DEF Pcs, d
  <1>3. job.pc = "idle" /\ job.a = None
    BY DEF Idle
  <1>4. UNCHANGED <<log, durable, txn, files, changes, applying, number, torn, halted, burnt,
                    crashes>>
    BY DEF databases, history
  <1>5. Types' /\ Rows' /\ Applying' /\ Transaction' /\ Shows' /\ OwnRows'
    BY <1>2, <1>3, <1>4, JobMoves DEF IInv, Types, Transaction
  <1>6. JobSound'
    BY <1>1, <1>2, <1>4 DEF JobSound
  <1>7. NumbersAreLogged'
    BY <1>3, <1>4 DEF IInv, NumbersAreLogged
  <1> QED
    BY <1>5, <1>6, <1>7 DEF IInv

\* A transaction begins.
LEMMA BeginPreserves ==
  ASSUME IInv, BeginTransaction
  PROVE  IInv'
  <1>1. /\ job.pc = "begin" /\ applying = None /\ txn' = TRUE
        /\ UNCHANGED <<log, durable, files, changes, applying, torn, halted, burnt, crashes>>
    BY DEF BeginTransaction, LogFree, history
  <1>2. /\ job.a \in Action /\ job.a.dev = Local /\ number < MaxNumber /\ job.a.seq = 0
        /\ number \in 0..MaxNumber /\ MaxNumber \in Nat /\ durable \subseteq log
        /\ job = [pc |-> job.pc, a |-> job.a]
        /\ job.a.act = UPDATE => job.a.hash \in Hash
    BY <1>1, JobFields, BoundAssumption DEF IInv, JobSound
  <1>3. ASSUME NEW b \in Action, b.dev = Local, b.act = job.a.act, b.hash = job.a.hash,
               job' = [pc |-> "latest", a |-> b],
               \/ b.act = UPDATE /\ number' = number + 1 /\ b.seq = number'
               \/ b.act = DELETE /\ number' = number /\ b.seq = 0
        PROVE  IInv'
    <2>1. job' \in [pc : Pcs, a : Action \cup {None}] /\ job'.pc = "latest" /\ job'.a = b
      BY <1>3, JobType DEF Pcs
    <2>2. number' \in 0..MaxNumber
      BY <1>2, <1>3
    <2>3. txn' \in BOOLEAN /\ (txn' <=> job'.pc \in {"latest", "insert", "end"})
      BY <1>1, <2>1
    <2>4. Types' /\ Rows' /\ Applying' /\ Transaction' /\ Shows' /\ OwnRows'
      BY <1>1, <1>2, <2>1, <2>2, <2>3, JobMoves
    <2>5. JobSound'
      BY <1>2, <1>3, <2>1 DEF JobSound, UPDATE, DELETE
    <2>6. NumbersAreLogged'
      <3>1. \A n \in 1..number : n # job.a.seq
        BY <1>2
      <3>2. b # None
        BY <1>3, ActionFields
      <3> QED
        BY <1>1, <1>2, <1>3, <2>1, <3>1, <3>2 DEF IInv, NumbersAreLogged
    <2> QED
      BY <2>4, <2>5, <2>6 DEF IInv
  <1>4. CASE job.a.act = UPDATE
    <2>1. PICK n \in Nat : n = number + 1
      BY <1>2
    <2> DEFINE b == [job.a EXCEPT !.seq = n]
    <2>2. number' = n /\ job' = [pc |-> "latest", a |-> b]
      BY <1>4, <2>1 DEF BeginTransaction, UPDATE, DELETE
    <2>3. b \in Action /\ b.dev = Local /\ b.act = UPDATE /\ b.hash = job.a.hash /\ b.seq = n
      BY <1>2, <1>4 DEF Action
    <2> HIDE DEF b
    <2> QED
      BY <1>3, <1>4, <2>1, <2>2, <2>3
  <1>5. CASE job.a.act = DELETE
    <2>1. number' = number /\ job' = [pc |-> "latest", a |-> job.a]
      BY <1>2, <1>5 DEF BeginTransaction, UPDATE, DELETE
    <2> QED
      BY <1>2, <1>3, <1>5, <2>1
  <1> QED
    BY <1>2, <1>4, <1>5, ActionFields

\* Among finitely many rows there is one of the greatest version: among the parts
\* with no smaller version, one is contained in all the others.
LEMMA GreatestVersion ==
  ASSUME NEW R, IsFiniteSet(R), R # {}, \A r \in R : r.a.version \in Nat
  PROVE  \E r \in R : \A s \in R : s.a.version <= r.a.version
  <1> DEFINE From(r) == {s \in R : r.a.version <= s.a.version}
             F == {From(r) : r \in R}
             O == StrictSubsetOrdering(R)
  <1>1. F \subseteq FiniteSubsetsOf(R)
    BY FS_Subset DEF FiniteSubsetsOf
  <1>2. IsWellFoundedOn(O, FiniteSubsetsOf(R))
    BY FS_StrictSubsetOrderingWellFounded
  <1>3. F # {}
    OBVIOUS
  <1>4. PICK B \in F : \A C \in F : <<C, B>> \notin O
    <2> HIDE DEF F, O
    <2> QED
      BY <1>1, <1>2, <1>3, WFMin
  <1>5. PICK r \in R : B = From(r)
    OBVIOUS
  <1>6. ASSUME NEW s \in R, r.a.version < s.a.version PROVE FALSE
    <2>1. From(s) \subseteq From(r) /\ r \in From(r) /\ r \notin From(s)
      BY <1>6
    <2>2. <<From(s), From(r)>> \in O
      BY <2>1 DEF StrictSubsetOrdering
    <2> QED
      BY <1>4, <1>5, <2>2
  <1> QED
    BY <1>6

\* The version of an update.
LEMMA LatestForUpdatePreserves ==
  ASSUME IInv, LatestForUpdate
  PROVE  IInv'
  <1> DEFINE R == RowsOf(job.a.file)
             versions == {r.a.version : r \in R}
             v == IF versions = {} THEN 0 ELSE Max(versions) + 1
             b == [job.a EXCEPT !.version = v]
  <1>1. /\ job.pc = "latest" /\ applying = None /\ job.a.act = UPDATE
        /\ UNCHANGED <<databases, history>>
        /\ job' = [pc |-> "insert", a |-> b]
    BY DEF LatestForUpdate, LogFree
  <1>2. UNCHANGED <<log, durable, txn, number, files, changes, applying, torn, halted, burnt,
                    crashes>>
    BY <1>1 DEF databases, history
  <1>3. /\ job.a \in Action /\ job.a.dev = Local /\ job.a.hash \in Hash
        /\ number \in 0..MaxNumber /\ durable \subseteq log /\ txn \in BOOLEAN
    BY <1>1, JobFields DEF IInv, JobSound, Types
  <1>4. v \in Nat /\ \A r \in R : r.a.version < v
    <2>1. IsFiniteSet(R) /\ \A r \in R : r.a.version \in Nat
      <3>1. R \subseteq log /\ R \subseteq LogRow
        BY DEF IInv, Types, RowsOf
      <3>2. \A r \in R : r.a \in Action
        BY <3>1 DEF LogRow
      <3> QED
        BY <3>1, <3>2, FS_Subset, ActionFields DEF IInv, Types
    <2>2. CASE R = {}
      BY <2>2
    <2>3. CASE R # {}
      <3>1. PICK r \in R : \A s \in R : s.a.version <= r.a.version
        BY <2>1, <2>3, GreatestVersion
      <3>2. r.a.version \in versions /\ \A n \in versions : r.a.version >= n
        BY <2>1, <3>1
      <3>3. Max(versions) \in versions /\ \A n \in versions : Max(versions) >= n
        BY <3>2 DEF Max
      <3>4. Max(versions) \in Nat /\ v = Max(versions) + 1
        BY <2>1, <3>2, <3>3
      <3>5. \A s \in R : s.a.version \in versions
        OBVIOUS
      <3> HIDE DEF R, versions
      <3> QED
        BY <2>1, <3>3, <3>4, <3>5
    <2> QED
      BY <2>2, <2>3
  <1> HIDE DEF v
  <1>5. /\ b \in Action /\ b.dev = Local /\ b.act = UPDATE /\ b.hash = job.a.hash
        /\ b.version = v /\ b.file = job.a.file /\ b.seq = job.a.seq
    BY <1>1, <1>3, <1>4 DEF Action
  <1> HIDE DEF b
  <1>6. job' \in [pc : Pcs, a : Action \cup {None}] /\ job'.pc = "insert" /\ job'.a = b
    BY <1>1, <1>5, JobType DEF Pcs
  <1>7. Types' /\ Rows' /\ Applying' /\ Transaction' /\ Shows' /\ OwnRows'
    BY <1>1, <1>2, <1>3, <1>6, JobMoves DEF IInv, Transaction
  <1>8. JobSound'
    <2>1. \A r \in log : r.a.file = job'.a.file => r.a.version < job'.a.version
      BY <1>4, <1>5, <1>6 DEF RowsOf
    <2>2. /\ job'.a \in Action /\ job'.a.dev = Local /\ job'.pc = "insert"
          /\ job'.a.hash \in Hash
      BY <1>3, <1>5, <1>6
    <2> QED
      BY <1>2, <2>1, <2>2 DEF JobSound, RowsOf
  <1>9. NumbersAreLogged'
    <2>1. b # None
      BY <1>5, ActionFields
    <2> QED
      BY <1>2, <1>5, <1>6, <2>1 DEF IInv, NumbersAreLogged
  <1> QED
    BY <1>7, <1>8, <1>9 DEF IInv

\* Nothing to delete.
LEMMA NothingToDeletePreserves ==
  ASSUME IInv, NothingToDelete
  PROVE  IInv'
  <1>1. /\ job.pc = "latest" /\ applying = None /\ job.a.act = DELETE
        /\ job' = [job EXCEPT !.pc = "end"] /\ UNCHANGED <<databases, history>>
    BY DEF NothingToDelete, LogFree
  <1>2. UNCHANGED <<log, durable, txn, number, files, changes, applying, torn, halted, burnt,
                    crashes>>
    BY <1>1 DEF databases, history
  <1>3. /\ job.a \in Action /\ job.a.dev = Local /\ job.a.seq = 0
        /\ number \in 0..MaxNumber /\ durable \subseteq log /\ txn \in BOOLEAN
        /\ job = [pc |-> job.pc, a |-> job.a]
    BY <1>1, JobFields DEF IInv, JobSound, Types
  <1>4. job' = [pc |-> "end", a |-> job.a]
    BY <1>1, <1>3
  <1>5. job' \in [pc : Pcs, a : Action \cup {None}] /\ job'.pc = "end" /\ job'.a = job.a
    BY <1>3, <1>4, JobType DEF Pcs
  <1>6. Types' /\ Rows' /\ Applying' /\ Transaction' /\ Shows' /\ OwnRows'
    BY <1>1, <1>2, <1>3, <1>5, JobMoves DEF IInv, Transaction
  <1>7. JobSound'
    BY <1>1, <1>2, <1>3, <1>5 DEF JobSound, UPDATE, DELETE
  <1>8. NumbersAreLogged'
    BY <1>2, <1>5 DEF IInv, NumbersAreLogged
  <1> QED
    BY <1>6, <1>7, <1>8 DEF IInv

\* The number and the version of a deletion.
LEMMA LatestForDeletePreserves ==
  ASSUME IInv, LatestForDelete
  PROVE  IInv'
  <1>1. /\ job.pc = "latest" /\ applying = None /\ job.a.act = DELETE /\ number' = number + 1
        /\ UNCHANGED <<log, durable, txn, files, changes, applying, torn, halted, burnt, crashes>>
    BY DEF LatestForDelete, LogFree, history
  <1>2. PICK q \in LatestActionForFile(job.a.file) :
           job' = [pc |-> "insert",
                   a |-> [job.a EXCEPT !.seq = number', !.version = q.a.version + 1]]
    BY DEF LatestForDelete
  <1>3. /\ job.a \in Action /\ job.a.dev = Local /\ number < MaxNumber /\ job.a.seq = 0
        /\ number \in 0..MaxNumber /\ MaxNumber \in Nat /\ durable \subseteq log
        /\ txn \in BOOLEAN
    BY <1>1, JobFields, BoundAssumption DEF IInv, JobSound, Types
  <1>4. /\ q.a.version \in Nat
        /\ \A s \in log : s.a.file = job.a.file =>
              s.a.version \in Nat /\ s.a.version < q.a.version + 1
    <2>1. /\ q \in log /\ \A s \in log : s.a.file = job.a.file => s.a.version <= q.a.version
      BY DEF LatestActionForFile, RowsOf
    <2>2. \A s \in log : s.a \in Action
      BY DEF IInv, Types, LogRow
    <2>3. \A s \in log : s.a.version \in Nat
      BY <2>2, ActionFields
    <2> QED
      BY <2>1, <2>3
  <1>5. PICK n \in Nat, v \in Nat : n = number + 1 /\ v = q.a.version + 1
    BY <1>3, <1>4
  <1> DEFINE c == [job.a EXCEPT !.seq = n]
             b == [c EXCEPT !.version = v]
  <1>6. job' = [pc |-> "insert", a |-> b]
    BY <1>1, <1>2, <1>5
  <1>7. /\ c \in Action /\ c.dev = Local /\ c.act = DELETE /\ c.seq = n
        /\ c.file = job.a.file
    BY <1>1, <1>3 DEF Action
  <1> HIDE DEF c
  <1>8. /\ b \in Action /\ b.dev = Local /\ b.act = DELETE /\ b.seq = n
        /\ b.file = job.a.file /\ b.version = v
    BY <1>7 DEF Action
  <1> HIDE DEF b
  <1>9. /\ job' \in [pc : Pcs, a : Action \cup {None}] /\ job'.pc = "insert" /\ job'.a = b
    BY <1>6, <1>8, JobType DEF Pcs
  <1>10. Types' /\ Rows' /\ Applying' /\ Transaction' /\ Shows' /\ OwnRows'
    BY <1>1, <1>3, <1>9, JobMoves DEF IInv, Transaction
  <1>11. JobSound'
    <2>1. /\ job'.a \in Action /\ job'.a.dev = Local /\ job'.pc = "insert"
          /\ job'.a.act = DELETE
          /\ \A r \in log : r.a.file = job'.a.file => r.a.version < job'.a.version
      BY <1>4, <1>5, <1>8, <1>9
    <2> QED
      BY <1>1, <2>1 DEF JobSound, RowsOf, UPDATE, DELETE
  <1>12. NumbersAreLogged'
    <2>1. b # None
      BY <1>8, ActionFields
    <2>2. \A m \in 1..number : m # job.a.seq
      BY <1>3
    <2> QED
      BY <1>1, <1>3, <1>5, <1>8, <1>9, <2>1, <2>2 DEF IInv, NumbersAreLogged
  <1> QED
    BY <1>10, <1>11, <1>12 DEF IInv

\* The transaction ends, and with it a deletion.
LEMMA EndPreserves ==
  ASSUME IInv, EndTransaction
  PROVE  IInv'
  <1>1. /\ job.pc = "end" /\ applying = None /\ txn' = FALSE /\ durable' = log
        /\ UNCHANGED <<log, files, changes, applying, number, torn, halted, burnt, crashes>>
        /\ job' = IF job.a.act = UPDATE THEN [job EXCEPT !.pc = "complete"] ELSE Idle
    BY DEF EndTransaction, LogFree, history
  <1>2. /\ job.a \in Action /\ job.a.dev = Local /\ job.a.act \in {UPDATE, DELETE}
        /\ number \in 0..MaxNumber /\ log \subseteq log /\ UPDATE # DELETE
        /\ job = [pc |-> job.pc, a |-> job.a]
        /\ job.a.act = UPDATE => job.a.hash \in Hash
        /\ job.a.seq # 0 => \E r \in log : r.a = job.a
    BY <1>1, JobFields, ActionFields DEF IInv, JobSound
  <1>3. CASE job.a.act = UPDATE
    <2>1. job' = [pc |-> "complete", a |-> job.a]
      BY <1>1, <1>2, <1>3
    <2>2. job' \in [pc : Pcs, a : Action \cup {None}] /\ job'.pc = "complete" /\ job'.a = job.a
      BY <1>2, <2>1, JobType DEF Pcs
    <2>3. Types' /\ Rows' /\ Applying' /\ Transaction' /\ Shows' /\ OwnRows'
      BY <1>1, <1>2, <2>2, JobMoves
    <2>4. JobSound'
      BY <1>1, <1>2, <1>3, <2>2 DEF JobSound
    <2>5. NumbersAreLogged'
      BY <1>1, <2>2 DEF IInv, NumbersAreLogged
    <2> QED
      BY <2>3, <2>4, <2>5 DEF IInv
  <1>4. CASE job.a.act = DELETE
    <2>1. job' = [pc |-> "idle", a |-> None]
      BY <1>1, <1>2, <1>4 DEF Idle
    <2>2. job' \in [pc : Pcs, a : Action \cup {None}] /\ job'.pc = "idle" /\ job'.a = None
      BY <2>1, JobType DEF Pcs
    <2>3. Types' /\ Rows' /\ Applying' /\ Transaction' /\ Shows' /\ OwnRows'
      BY <1>1, <1>2, <1>4, <2>2, JobMoves
    <2>4. JobSound'
      BY <2>2 DEF JobSound
    <2>5. NumbersAreLogged'
      <3> SUFFICES ASSUME NEW n \in (1..number) \ burnt
                   PROVE  \E r \in log : r.a.dev = Local /\ r.a.seq = n
        BY <1>1 DEF NumbersAreLogged
      <3>1. \/ \E r \in log : r.a.dev = Local /\ r.a.seq = n
            \/ job.a # None /\ job.a.seq = n
        BY DEF IInv, NumbersAreLogged
      <3>2. n # 0
        BY <1>2
      <3> QED
        BY <1>2, <3>1, <3>2
    <2> QED
      BY <2>3, <2>4, <2>5 DEF IInv
  <1> QED
    BY <1>2, <1>3, <1>4

\* SetFileComplete ends an update.
LEMMA CompletePreserves ==
  ASSUME IInv, CompleteLocal
  PROVE  IInv'
  <1> DEFINE f == job.a.file
  <1>1. /\ job.pc = "complete" /\ files' = SetFileComplete(files, f)
        /\ changes' = (IF LogFree THEN 0 ELSE Changes(files, f))
        /\ halted' = halted \ {f} /\ job' = Idle
        /\ UNCHANGED <<log, durable, txn, applying, number, torn, burnt, crashes>>
    BY DEF CompleteLocal
  <1>2. /\ job.a \in Action /\ job.a.dev = Local /\ f \in File /\ files \in Tables
        /\ job.a.act = UPDATE
        /\ job.a.seq # 0 => \E r \in log : r.a = job.a
    BY <1>1, JobFields DEF IInv, JobSound, Types, Tables
  <1>3. job' \in [pc : Pcs, a : Action \cup {None}] /\ job'.pc = "idle" /\ job'.a = None
    BY <1>1, JobType DEF Idle, Pcs
  <1>4. /\ files' \in Tables /\ \A g \in File \ {f} : files'[g] = files[g]
        /\ \/ /\ files[f] # NoRow /\ files'[f] # NoRow /\ files'[f].complete
              /\ files'[f].dev = files[f].dev /\ files'[f].seq = files[f].seq
              /\ files'[f].version = files[f].version /\ files'[f].hash = files[f].hash
           \/ files[f] = NoRow /\ files'[f] = NoRow
    BY <1>1, <1>2, SetFileCompleteEffect DEF Exists
  <1>5. Types'
    <2>1. changes' \in {0, 1} /\ halted' \subseteq File
      BY <1>1 DEF IInv, Types, Changes
    <2> QED
      BY <1>1, <1>3, <1>4, <2>1 DEF IInv, Types, Tables
  <1>6. Rows' /\ Transaction'
    BY <1>1, <1>3 DEF IInv, Rows, Transaction, LogFree
  <1>7. /\ \A g : RowsOf(g)' = RowsOf(g)
        /\ \A b, g : Wins(b, g)' = Wins(b, g)
    BY <1>1 DEF RowsOf, Wins
  <1>8. Applying'
    <2>1. CASE applying = None
      BY <1>1, <2>1 DEF Applying
    <2>2. CASE applying # None
      <3>1. Wins(applying, applying.file)'
        BY <1>1, <2>2 DEF IInv, Applying, Wins, RowsOf
      <3> QED
        BY <1>1, <2>2, <3>1 DEF IInv, Applying
    <2> QED
      BY <2>1, <2>2
  <1>9. Shows'
    <2>1. ASSUME NEW a \in Action, NEW g \in File, Shown(a, files[g]) PROVE Shown(a, files'[g])
      BY <1>4, <2>1 DEF Shown, ShowsAction
    <2>2. files[f] = NoRow => files'[f] = NoRow
      BY <1>4
    <2>3. ASSUME NEW g \in File \ torn, applying # None => applying.file # g
          PROVE  \/ RowsOf(g) = {} /\ files'[g] = NoRow
                 \/ \E r \in RowsOf(g) : Wins(r.a, g) /\ Shown(r.a, files'[g])
      <3>1. \/ RowsOf(g) = {} /\ files[g] = NoRow
            \/ \E r \in RowsOf(g) : Wins(r.a, g) /\ Shown(r.a, files[g])
        BY <2>3 DEF IInv, Shows
      <3>2. \A r \in RowsOf(g) : r.a \in Action
        BY DEF IInv, Types, RowsOf, LogRow
      <3>3. files[g] = NoRow => files'[g] = NoRow
        BY <1>4
      <3> QED
        BY <2>1, <3>1, <3>2, <3>3
    <2> QED
      BY <1>1, <1>7, <2>3 DEF Shows, Shown
  <1>10. JobSound'
    BY <1>3 DEF JobSound
  <1>11. OwnRows'
    <2> SUFFICES ASSUME NEW g \in File \ halted', files'[g].dev = Local, ~files'[g].complete
                 PROVE  FALSE
      BY DEF OwnRows
    <2>1. NoRow.dev # Local
      BY <1>2, RowFields
    <2>2. g # f
      BY <1>4, <2>1
    <2>3. g \in File \ halted /\ files'[g] = files[g]
      BY <1>1, <1>4, <2>2
    <2> QED
      BY <2>2, <2>3 DEF IInv, OwnRows
  <1>12. NumbersAreLogged'
    <2> SUFFICES ASSUME NEW n \in (1..number) \ burnt
                 PROVE  \E r \in log : r.a.dev = Local /\ r.a.seq = n
      BY <1>1 DEF NumbersAreLogged
    <2>1. \/ \E r \in log : r.a.dev = Local /\ r.a.seq = n
          \/ job.a # None /\ job.a.seq = n
      BY DEF IInv, NumbersAreLogged
    <2>2. n # 0
      BY DEF IInv, Types
    <2> QED
      BY <1>2, <2>1, <2>2
  <1> QED
    BY <1>5, <1>6, <1>8, <1>9, <1>10, <1>11, <1>12 DEF IInv

-----------------------------------------------------------------------------
(* The death of the process.                                                *)

\* Files whose rows are rolled back are torn; the others keep their rows.
LEMMA CrashPreserves ==
  ASSUME IInv, Crash
  PROVE  IInv'
  <1>1. /\ crashes < MaxCrash /\ crashes' = crashes + 1 /\ log' = durable /\ txn' = FALSE
        /\ applying' = None /\ job' = Idle /\ changes' = 0
        /\ torn' = torn \cup {r.a.file : r \in log \ durable}
        /\ burnt' = burnt \cup ((1..number) \ {r.a.seq : r \in {q \in durable : q.a.dev = Local}})
        /\ halted' = (IF job.pc \in {"end", "complete"} /\ job.a.act = UPDATE
                      THEN halted \cup {job.a.file} ELSE halted)
        /\ UNCHANGED <<durable, files, number>>
    BY DEF Crash
  <1>2. /\ durable \subseteq log /\ log \subseteq LogRow /\ IsFiniteSet(log)
        /\ number \in 0..MaxNumber
    BY DEF IInv, Types
  <1>3. job' \in [pc : Pcs, a : Action \cup {None}] /\ job'.pc = "idle" /\ job'.a = None
    BY <1>1, JobType DEF Idle, Pcs
  <1>4. Types'
    <2>1. IsFiniteSet(durable)
      BY <1>2, FS_Subset
    <2>2. torn' \subseteq File
      <3>1. \A r \in log : r.a \in Action
        BY <1>2 DEF LogRow
      <3>2. \A r \in log : r.a.file \in File
        BY <3>1, ActionFields
      <3> QED
        BY <1>1, <3>2 DEF IInv, Types
    <2>3. halted' \subseteq File
      BY <1>1, JobFields DEF IInv, Types
    <2>4. burnt' \subseteq 1..MaxNumber /\ crashes' \in 0..MaxCrash
      <3>1. burnt' \subseteq burnt \cup (1..number) /\ burnt \subseteq 1..MaxNumber
        BY <1>1 DEF IInv, Types
      <3>2. 1..number \subseteq 1..MaxNumber
        BY <1>2, BoundAssumption
      <3>3. crashes \in 0..MaxCrash /\ crashes < MaxCrash /\ crashes' = crashes + 1
        BY <1>1 DEF IInv, Types
      <3>4. crashes' \in 0..MaxCrash
        BY <3>3, BoundAssumption
      <3> QED
        BY <3>1, <3>2, <3>4
    <2>5. txn' \in BOOLEAN
      BY <1>1
    <2> QED
      BY <1>1, <1>2, <1>3, <2>1, <2>2, <2>3, <2>4, <2>5 DEF IInv, Types
  <1>5. Rows'
    BY <1>1, <1>2 DEF IInv, Rows
  <1>6. Applying' /\ Transaction' /\ JobSound'
    BY <1>1, <1>3 DEF Applying, Transaction, JobSound
  <1>7. Shows'
    <2> SUFFICES ASSUME NEW f \in File \ torn'
                 PROVE  \/ RowsOf(f)' = {} /\ files'[f] = NoRow
                        \/ \E r \in RowsOf(f)' : Wins(r.a, f)' /\ Shown(r.a, files'[f])
      BY DEF Shows, Shown
    <2>1. f \in File \ torn /\ \A r \in log \ durable : r.a.file # f
      BY <1>1
    <2>2. RowsOf(f)' = RowsOf(f) /\ files' = files
      BY <1>1, <1>2, <2>1 DEF RowsOf
    <2>3. applying # None => applying.file # f
      BY <2>1 DEF IInv, Applying
    <2>4. \/ RowsOf(f) = {} /\ files[f] = NoRow
          \/ \E r \in RowsOf(f) : Wins(r.a, f) /\ Shown(r.a, files[f])
      BY <2>1, <2>3 DEF IInv, Shows
    <2>5. \A r \in RowsOf(f) : Wins(r.a, f)' = Wins(r.a, f)
      BY <2>2 DEF Wins
    <2> QED
      BY <2>2, <2>4, <2>5
  <1>8. OwnRows'
    <2> SUFFICES ASSUME NEW f \in File \ halted', files[f].dev = Local, ~files[f].complete
                 PROVE  FALSE
      BY <1>1 DEF OwnRows
    <2>1. f \in File \ halted
      BY <1>1
    <2>2. job.pc \in {"end", "complete"} /\ job.a.act = UPDATE /\ job.a.file = f
      BY <2>1 DEF IInv, OwnRows
    <2> QED
      BY <1>1, <2>2
  <1>9. NumbersAreLogged'
    BY <1>1 DEF NumbersAreLogged
  <1> QED
    BY <1>4, <1>5, <1>6, <1>7, <1>8, <1>9 DEF IInv

-----------------------------------------------------------------------------
(* The specification.                                                       *)

\* An empty log and no file.
LEMMA InitIInv ==
  ASSUME Init
  PROVE  IInv
  <1> USE DEF Init
  <1>1. \A f : RowsOf(f) = {}
    BY DEF RowsOf
  <1>2. job \in [pc : Pcs, a : Action \cup {None}] /\ job.pc = "idle" /\ job.a = None
    BY JobType DEF Idle, Pcs
  <1>3. Types
    <2>1. IsFiniteSet(log) /\ files \in [File -> Row \cup {NoRow}]
      BY FS_EmptySet
    <2>2. txn \in BOOLEAN
      OBVIOUS
    <2> QED
      BY <1>2, <2>1, <2>2, BoundAssumption DEF Types
  <1>4. Rows /\ Applying /\ Transaction /\ JobSound
    BY <1>2 DEF Rows, Applying, Transaction, JobSound
  <1>5. Shows
    BY <1>1 DEF Shows
  <1>6. OwnRows
    <2>1. NoRow.dev # Local
      BY DeviceAssumption DEF NoRow
    <2> QED
      BY <2>1 DEF OwnRows
  <1>7. NumbersAreLogged
    BY DEF NumbersAreLogged
  <1> QED
    BY <1>3, <1>4, <1>5, <1>6, <1>7 DEF IInv

\* A step that changes nothing.
LEMMA StutterPreserves ==
  ASSUME IInv, UNCHANGED vars
  PROVE  IInv'
  <1>1. /\ UNCHANGED <<log, durable, txn, files, changes, applying, number, job, torn, halted,
                       burnt, crashes>>
    BY DEF vars, databases, history
  <1>2. /\ \A g : RowsOf(g)' = RowsOf(g)
        /\ \A b, g : Wins(b, g)' = Wins(b, g)
    BY <1>1 DEF RowsOf, Wins
  <1>3. Types' /\ Rows' /\ Transaction'
    BY <1>1 DEF IInv, Types, Rows, Transaction
  <1>4. Applying'
    <2>1. applying # None => Wins(applying, applying.file)'
      BY <1>1 DEF IInv, Applying, Wins, RowsOf
    <2> QED
      BY <1>1, <2>1 DEF IInv, Applying
  <1>5. Shows'
    BY <1>1, <1>2 DEF IInv, Shows, Shown
  <1>6. JobSound' /\ OwnRows' /\ NumbersAreLogged'
    BY <1>1, <1>2 DEF IInv, JobSound, OwnRows, NumbersAreLogged
  <1> QED
    BY <1>3, <1>4, <1>5, <1>6 DEF IInv

\* Every step preserves the invariant.
LEMMA StepPreserves ==
  ASSUME IInv, [Next]_vars
  PROVE  IInv'
  <1>1. ASSUME NEW f \in File, NEW h \in Hash, LocalFileAddOrModify(f, h) PROVE IInv'
    BY <1>1, LocalFilePreserves DEF LocalFileAddOrModify
  <1>2. ASSUME NEW f \in File, LocalFileDelete(f) PROVE IInv'
    <2>1. DELETE \in {UPDATE, DELETE} /\ DELETE # UPDATE /\ NoHash \in Hash \cup {NoHash}
      BY DEF UPDATE, DELETE
    <2> QED
      BY <1>2, <2>1, LocalFilePreserves DEF LocalFileDelete
  <1> QED
    BY <1>1, <1>2, BeginPreserves, LatestForUpdatePreserves, NothingToDeletePreserves,
       LatestForDeletePreserves, InsertLocalPreserves, EndPreserves, CompletePreserves,
       UpdateFilePreserves, AddRemotePreserves, CrashPreserves, StutterPreserves
    DEF Next

\* The invariant.
THEOREM Invariance == Spec => []IInv
  <1>1. Init => IInv
    BY InitIInv
  <1>2. IInv /\ [Next]_vars => IInv'
    BY StepPreserves
  <1> QED
    BY <1>1, <1>2, PTL DEF Spec

\* For any devices and actions, whatever the order in which they are inserted,
\* however the bytes behind a name's value vary and whenever the process dies:
\* FileState shows of every file that is not torn, and whose UpdateFile is not
\* under way, the one logged action that no other overrules.
THEOREM WinnersAreShown == Spec => []ShowsWinner
  <1>1. ASSUME IInv PROVE ShowsWinner
    <2> SUFFICES ASSUME NEW f \in File \ torn, applying # None => applying.file # f,
                        NEW acts, acts = {r.a : r \in RowsOf(f)}
                 PROVE  IF acts = {} THEN files[f] = NoRow
                        ELSE \E a \in acts :
                                /\ {c \in acts : \A b \in acts : ~Overruled(c, b)} = {a}
                                /\ IF a.act = DELETE THEN files[f] = NoRow
                                   ELSE ShowsAction(files[f], a)
      BY DEF ShowsWinner
    <2>1. CASE RowsOf(f) = {} /\ files[f] = NoRow
      BY <2>1
    <2>2. ASSUME NEW r \in RowsOf(f), Wins(r.a, f), Shown(r.a, files[f])
          PROVE  \E a \in acts :
                    /\ {c \in acts : \A b \in acts : ~Overruled(c, b)} = {a}
                    /\ IF a.act = DELETE THEN files[f] = NoRow ELSE ShowsAction(files[f], a)
      <3>1. r.a \in acts /\ \A b \in acts : b = r.a \/ Overruled(b, r.a)
        BY <2>2 DEF Wins
      <3>2. \A b \in acts : b \in Action
        BY <1>1 DEF IInv, Types, RowsOf, LogRow
      <3>3. \A b \in acts : ~Overruled(r.a, b)
        BY <3>1, <3>2, OverruledOrder
      <3>4. {c \in acts : \A b \in acts : ~Overruled(c, b)} = {r.a}
        BY <3>1, <3>3
      <3> QED
        BY <2>2, <3>1, <3>4 DEF Shown
    <2>3. acts # {} \/ RowsOf(f) = {}
      OBVIOUS
    <2> QED
      BY <1>1, <2>1, <2>2, <2>3 DEF IInv, Shows
  <1> QED
    BY <1>1, Invariance, PTL

\* For any number of local actions and deaths: every number that was handed out
\* names a logged action unless the process died before the commit, and between
\* notifications the rows of this device are complete unless it died before
\* SetFileComplete, whatever the fetch thread inserts in between.
THEOREM LocalActionsAreSound == Spec => []LocalActionsSound
  <1>1. ASSUME IInv PROVE LocalActionsSound
    <2>1. TypeOK
      <3>1. /\ job.pc \in Pcs /\ job.a \in Action \cup {None}
            /\ applying \in Action \cup {None}
        BY <1>1 DEF IInv, Types, Updates
      <3>2. /\ txn \in BOOLEAN /\ (txn <=> job.pc \in {"latest", "insert", "end"})
            /\ (~txn /\ LogFree => durable = log) /\ (LogFree => changes = 0)
        BY <1>1 DEF IInv, Types, Transaction, LogFree
      <3> QED
        BY <1>1, <3>1, <3>2 DEF IInv, Types, TypeOK, Pcs
    <2>2. OwnRowsComplete
      BY <1>1 DEF IInv, OwnRows, OwnRowsComplete, Idle
    <2> QED
      BY <1>1, <2>1, <2>2 DEF IInv, LocalActionsSound
  <1> QED
    BY <1>1, Invariance, PTL

-----------------------------------------------------------------------------
(* ContentServer: what is served, and under which prefix.                   *)

\* A task has an Interest with the hint taken off (filterAndServe).
Reading(t) ==
    /\ IsPrefix(t.hint, t.interest.path)
    /\ t.name = Without(t.hint, t.interest)

\* The locator is the prefix seen last, and it and the basic prefixes have
\* filters (registerPrefix, UpdateLocalLocator).
PrefixInv ==
    /\ filters \subseteq BasicPrefixes \cup Hint /\ locator \subseteq BasicPrefixes \cup Hint
    /\ assigned \in Hint \cup {<<>>} /\ m_localPrefix \in Hint \cup {<<>>}
    /\ BasicPrefixes \subseteq filters
    /\ locator = IF "located" \in port THEN {EffectiveForwardingHint(m_localPrefix)} ELSE {}
    /\ up => locator \subseteq filters

\* A name has one task, which reads an Interest under the prefix of a filter.
TasksInv ==
    /\ running \subseteq tasks
    /\ \A t, u \in tasks : t.name = u.name => t = u
    /\ \A t \in tasks : t.hint \in filters /\ t.interest \in Interests /\ t.name.ours /\ Reading(t)

\* A content whose ObjectDb is open has segments.
StoreInv == stored \subseteq Items /\ m_dbCache \subseteq {x.key : x \in stored}

\* Counters and histories.
CountInv ==
    /\ port \subseteq Conversions /\ up \in BOOLEAN
    /\ moves \in 0..MaxMove /\ stops \in 0..MaxStop
    /\ asks \in 0..MaxAsk /\ due \cup dropped \subseteq Interests

\* The inductive invariant of the server.
ServerIInv == PrefixInv /\ TasksInv /\ StoreInv /\ CountInv /\ MeantIsServed

\* The prefixes of filters are names, and so are the devices.
LEMMA PrefixesAreNames ==
  /\ \A h \in BasicPrefixes \cup Hint : h \in Seq(Component)
  /\ \A d \in DeviceName : d \in Seq(Component)
  <1>1. <<>> \in Seq(Component)
    OBVIOUS
  <1>2. DeviceName \cup Hint \cup {Broadcast} \subseteq Seq(Component)
    BY ContentServerAssumption
  <1> QED BY <1>1, <1>2, Zenon DEF BasicPrefixes

\* So is the path of an Interest, a hint before a device (Interest).
LEMMA PathsAreNames ==
  \A i \in Interests : i.path \in Seq(Component)
  <1> SUFFICES ASSUME NEW i \in Interests PROVE i.path \in Seq(Component)
    OBVIOUS
  <1>0. PICK r \in Request : i = Interest(r)
    BY DEF Interests
  <1>1. r.hint \in BasicPrefixes \cup Hint /\ r.dev \in DeviceName
    BY ContentServerAssumption DEF BasicPrefixes
  <1>2. r.hint \in Seq(Component) /\ r.dev \in Seq(Component)
    BY <1>1, PrefixesAreNames
  <1>3. i.path = r.hint \o r.dev
    BY <1>0 DEF Interest
  <1> QED BY <1>2, <1>3

\* A name is its prefix before the rest.
LEMMA PrefixAndRest ==
  ASSUME NEW p \in Seq(Component), NEW h \in Seq(Component), IsPrefix(h, p)
  PROVE  /\ SubSeq(p, Len(h) + 1, Len(p)) \in Seq(Component)
         /\ Len(SubSeq(p, Len(h) + 1, Len(p))) = Len(p) - Len(h)
         /\ h \o SubSeq(p, Len(h) + 1, Len(p)) = p
  <1> DEFINE rest == SubSeq(p, Len(h) + 1, Len(p))
  <1>1. Len(h) \in Nat /\ Len(p) \in Nat /\ Len(h) <= Len(p)
    BY DEF IsPrefix
  <1>2. rest \in Seq(Component) /\ Len(rest) = Len(p) - Len(h)
    BY <1>1
  <1>3. \A k \in 1..Len(rest) : rest[k] = p[Len(h) + k]
    BY <1>1, <1>2
  <1>4. \A k \in 1..Len(h) : h[k] = p[k]
    <2>1. \A k \in 1..Len(h) : SubSeq(h, 1, Len(h))[k] = h[k] /\ SubSeq(p, 1, Len(h))[k] = p[k]
      BY <1>1
    <2> QED BY <2>1 DEF IsPrefix
  <1> HIDE DEF rest
  <1>5. h \o rest \in Seq(Component) /\ Len(h \o rest) = Len(p)
    BY <1>1, <1>2
  <1>6. \A k \in 1..Len(p) : (h \o rest)[k] = p[k]
    <2> SUFFICES ASSUME NEW k \in 1..Len(p) PROVE (h \o rest)[k] = p[k]
      OBVIOUS
    <2>1. CASE k <= Len(h)
      BY <1>1, <1>2, <1>4, <2>1
    <2>2. CASE k > Len(h)
      <3>1. k - Len(h) \in 1..Len(rest) /\ (h \o rest)[k] = rest[k - Len(h)]
        BY <1>1, <1>2, <2>2
      <3> QED BY <1>1, <1>3, <2>2, <3>1
    <2>3. k <= Len(h) \/ k > Len(h)
      BY <1>1
    <2> QED BY <2>1, <2>2, <2>3, Zenon
  <1>7. h \o rest = p
    <2> DEFINE q == h \o rest
    <2>1. q \in Seq(Component) /\ Len(q) = Len(p) /\ \A k \in 1..Len(q) : q[k] = p[k]
      BY <1>5, <1>6
    <2> HIDE DEF q
    <2>2. q = p
      BY <2>1, SeqEqual
    <2> QED BY <2>2 DEF q
  <1> QED BY <1>2, <1>7 DEF rest

\* Prefixes of a name that leave as much of it are the same.
LEMMA PrefixesOfOneName ==
  ASSUME NEW p \in Seq(Component), NEW h \in Seq(Component), NEW g \in Seq(Component),
         IsPrefix(h, p), IsPrefix(g, p), Len(h) = Len(g)
  PROVE  h = g
  <1>1. \A k \in 1..Len(h) : h[k] = g[k]
    <2>1. Len(h) \in Nat /\ Len(h) <= Len(p) /\ Len(p) \in Nat
      BY DEF IsPrefix
    <2>2. \A k \in 1..Len(h) : SubSeq(h, 1, Len(h))[k] = h[k] /\ SubSeq(g, 1, Len(g))[k] = g[k]
      BY <2>1
    <2> QED BY <2>2 DEF IsPrefix
  <1> QED BY <1>1, SeqEqual

\* An Interest, field by field.
LEMMA InterestFields ==
  ASSUME NEW r
  PROVE  LET i == Interest(r)
         IN  /\ i.path = r.hint \o r.dev /\ i.kind = r.kind /\ i.key = r.key
             /\ i.n = r.n /\ i.ours = r.ours
  <1> DEFINE p == r.hint \o r.dev
  <1>1. Interest(r) = [path |-> p, kind |-> r.kind, key |-> r.key, n |-> r.n, ours |-> r.ours]
    BY Zenon DEF Interest
  <1> HIDE DEF p
  <1>2. /\ Interest(r).path = p /\ Interest(r).kind = r.kind /\ Interest(r).key = r.key
        /\ Interest(r).n = r.n /\ Interest(r).ours = r.ours
    BY <1>1
  <1> QED BY <1>2 DEF p

\* The hint taken off, field by field.
LEMMA WithoutFields ==
  ASSUME NEW i \in Interests, NEW h
  PROVE  Without(h, i) = [path |-> SubSeq(i.path, Len(h) + 1, Len(i.path)), kind |-> i.kind,
                          key |-> i.key, n |-> i.n, ours |-> i.ours]
  <1>1. PICK r \in Request : i = Interest(r)
    BY DEF Interests
  <1> DEFINE p == r.hint \o r.dev
             rest == SubSeq(p, Len(h) + 1, Len(p))
  <1>2. i = [path |-> p, kind |-> r.kind, key |-> r.key, n |-> r.n, ours |-> r.ours]
    BY <1>1 DEF Interest
  <1>3. Without(h, i) = [i EXCEPT !.path = SubSeq(i.path, Len(h) + 1, Len(i.path))]
    BY Zenon DEF Without
  <1>4. i.path = p
    BY <1>2
  <1>5. Without(h, i) = [i EXCEPT !.path = rest]
    BY <1>3, <1>4
  <1> HIDE DEF p, rest
  <1>6. Without(h, i) = [path |-> rest, kind |-> r.kind, key |-> r.key, n |-> r.n, ours |-> r.ours]
    BY <1>2, <1>5
  <1>7. rest = SubSeq(i.path, Len(h) + 1, Len(i.path))
    BY <1>4 DEF rest
  <1> QED BY <1>2, <1>6, <1>7

\* Nothing is left of a name without a hint but the name itself.
LEMMA WithoutNothing ==
  ASSUME NEW i \in Interests
  PROVE  Without(<<>>, i) = i /\ IsPrefix(<<>>, i.path)
  <1>1. PICK r \in Request : i = Interest(r)
    BY DEF Interests
  <1>2. i.path \in Seq(Component)
    BY PathsAreNames
  <1>3. SubSeq(i.path, 1, Len(i.path)) = i.path
    BY <1>2
  <1>4. SubSeq(<<>>, 1, 0) = <<>> /\ SubSeq(i.path, 1, 0) = <<>> /\ Len(<<>>) = 0
    BY <1>2
  <1>5. Without(<<>>, i) = [path |-> i.path, kind |-> i.kind, key |-> i.key, n |-> i.n, ours |-> i.ours]
    <2>1. Without(<<>>, i) = [path |-> SubSeq(i.path, Len(<<>>) + 1, Len(i.path)), kind |-> i.kind,
                              key |-> i.key, n |-> i.n, ours |-> i.ours]
      BY WithoutFields, Zenon
    <2>2. Len(<<>>) + 1 = 1
      BY <1>4
    <2> QED BY <1>3, <2>1, <2>2, Zenon
  <1>6. i = [path |-> i.path, kind |-> i.kind, key |-> i.key, n |-> i.n, ours |-> i.ours]
    BY <1>1 DEF Interest
  <1>7. 0 <= Len(i.path)
    BY <1>2
  <1> QED BY <1>4, <1>5, <1>6, <1>7 DEF IsPrefix

\* The tasks that an Interest asks for (filterAndServe at every filter).
Asked(i) == {t \in UNION {Tries(hint, i) : hint \in {g \in filters : IsPrefix(g, i.path)}} : Served(t)}

\* Each takes the prefix of a filter off the name.
LEMMA AskedReads ==
  ASSUME NEW i \in Interests, BasicPrefixes \subseteq filters, NEW t \in Asked(i)
  PROVE  t.hint \in filters /\ t = Serves(t.hint, Without(t.hint, i), i) /\ IsPrefix(t.hint, i.path)
  <1>1. PICK h \in filters : IsPrefix(h, i.path) /\ t \in Tries(h, i)
    BY DEF Asked
  <1>2. CASE t = Serves(h, Without(h, i), i)
    BY <1>1, <1>2 DEF Serves
  <1>3. CASE t = Serves(<<>>, i, i)
    <2>1. <<>> \in filters
      BY DEF BasicPrefixes
    <2> QED BY <1>3, <2>1, WithoutNothing DEF Serves
  <1> QED BY <1>1, <1>2, <1>3 DEF Tries

\* No two of them have the same name, although names are tried twice.
LEMMA AskedApart ==
  ASSUME NEW i \in Interests, BasicPrefixes \subseteq filters, filters \subseteq BasicPrefixes \cup Hint,
         NEW t \in Asked(i), NEW u \in Asked(i), t.name = u.name
  PROVE  t = u
  <1>0. /\ t.hint \in filters /\ t = Serves(t.hint, Without(t.hint, i), i) /\ IsPrefix(t.hint, i.path)
        /\ u.hint \in filters /\ u = Serves(u.hint, Without(u.hint, i), i) /\ IsPrefix(u.hint, i.path)
    BY AskedReads, Zenon
  <1>1. t.hint \in Seq(Component) /\ u.hint \in Seq(Component) /\ i.path \in Seq(Component)
    BY <1>0, PathsAreNames, PrefixesAreNames, Zenon
  <1>3. t.name = Without(t.hint, i) /\ u.name = Without(u.hint, i)
    <2>1. \A h : Serves(h, Without(h, i), i).name = Without(h, i)
      BY DEF Serves
    <2> QED BY <1>0, <2>1, Zenon
  <1>4. SubSeq(i.path, Len(t.hint) + 1, Len(i.path)) = SubSeq(i.path, Len(u.hint) + 1, Len(i.path))
    <2>1. \A h : Without(h, i).path = SubSeq(i.path, Len(h) + 1, Len(i.path))
      <3> TAKE h
      <3>1. Without(h, i) = [path |-> SubSeq(i.path, Len(h) + 1, Len(i.path)), kind |-> i.kind,
                             key |-> i.key, n |-> i.n, ours |-> i.ours]
        BY WithoutFields, Zenon
      <3> QED BY <3>1
    <2> QED BY <1>3, <2>1, Zenon
  <1>5. Len(i.path) - Len(t.hint) = Len(i.path) - Len(u.hint)
    <2>1. /\ Len(SubSeq(i.path, Len(t.hint) + 1, Len(i.path))) = Len(i.path) - Len(t.hint)
          /\ Len(SubSeq(i.path, Len(u.hint) + 1, Len(i.path))) = Len(i.path) - Len(u.hint)
      BY <1>0, <1>1, PrefixAndRest, Zenon
    <2> QED BY <1>4, <2>1, Zenon
  <1>6. Len(t.hint) = Len(u.hint)
    <2>1. Len(i.path) \in Int /\ Len(t.hint) \in Int /\ Len(u.hint) \in Int
      BY <1>1
    <2>2. \A a, b, c \in Int : a - b = a - c => b = c
      OBVIOUS
    <2> QED BY <1>5, <2>1, <2>2, Zenon
  <1>7. t.hint = u.hint
    BY <1>0, <1>1, <1>6, PrefixesOfOneName, Zenon
  <1> QED BY <1>0, <1>7, Zenon

\* What a task finds is what its Interest meant: the Interest is a reading of a
\* request, and so is the name of the task before the hint (serve_File_Execute,
\* serve_Action_Execute).
LEMMA FoundIsMeant ==
  ASSUME NEW t, t.interest \in Interests, Reading(t), t.hint \in BasicPrefixes \cup Hint,
         ItemOf(t.name) \in Items
  PROVE  \E r \in Request : Interest(r) = t.interest /\ ItemOf(t.name) = Item(r)
  <1> DEFINE i == t.interest
             name == t.name
  <1>1. PICK q \in Request : i = Interest(q)
    BY DEF Interests
  <1>2. PICK x \in Request : ItemOf(name) = Item(x)
    BY DEF Items
  <1>3. /\ name.path = x.dev /\ name.kind = x.kind /\ name.key = x.key /\ name.n = x.n
    BY <1>2 DEF ItemOf, Item
  <1>4. /\ name.path = SubSeq(i.path, Len(t.hint) + 1, Len(i.path))
        /\ name.kind = i.kind /\ name.key = i.key /\ name.n = i.n /\ name.ours = i.ours
    <2>1. name = [path |-> SubSeq(i.path, Len(t.hint) + 1, Len(i.path)), kind |-> i.kind,
                  key |-> i.key, n |-> i.n, ours |-> i.ours]
      BY WithoutFields, Zenon DEF Reading
    <2> QED BY <2>1
  <1>5. t.hint \in Seq(Component) /\ i.path \in Seq(Component)
    BY PathsAreNames, PrefixesAreNames, Zenon
  <1>6. t.hint \o x.dev = i.path
    <2>1. t.hint \o SubSeq(i.path, Len(t.hint) + 1, Len(i.path)) = i.path
      BY <1>5, PrefixAndRest, Zenon DEF Reading
    <2> QED BY <1>3, <1>4, <2>1
  <1>7. i.path = q.hint \o q.dev /\ i.kind = q.kind /\ i.key = q.key /\ i.n = q.n /\ i.ours = q.ours
    BY <1>1, InterestFields, Zenon
  <1>8. t.hint \in Hint \cup {<<>>, Broadcast} /\ x.dev \in DeviceName
    BY ContentServerAssumption DEF BasicPrefixes
  <1> HIDE DEF i, name
  <1>9. PICK r \in Request : SameName(r, q) /\ r.hint = t.hint /\ r.dev = x.dev
    <2>1. t.hint \o x.dev = q.hint \o q.dev
      BY <1>6, <1>7
    <2> DEFINE Hints == Hint \cup {<<>>, Broadcast}
               Read(h, d) == \E y \in Request : SameName(y, q) /\ y.hint = h /\ y.dev = d
    <2>2. \A h \in Hints, d \in DeviceName : h \o d = q.hint \o q.dev => Read(h, d)
      BY ContentServerAssumption
    <2>3. t.hint \in Hints /\ x.dev \in DeviceName
      BY <1>8
    <2> HIDE DEF Hints, Read
    <2>4. Read(t.hint, x.dev)
      BY <2>1, <2>2, <2>3
    <2> QED BY <2>4 DEF Read
  <1>10. Interest(r) = Interest(q)
    BY <1>6, <1>7, <1>9 DEF Interest, SameName
  <1>11. Item(r) = ItemOf(name)
    BY <1>3, <1>4, <1>7, <1>9 DEF Item, ItemOf, SameName
  <1> QED BY <1>1, <1>10, <1>11 DEF i, name

-----------------------------------------------------------------------------
\* The constructors of the dispatcher and of the server.
LEMMA ServerInitInv == ServerInit => ServerIInv
  <1> SUFFICES ASSUME ServerInit PROVE ServerIInv
    OBVIOUS
  <1>1. PrefixInv
    BY DEF ServerInit, PrefixInv, BasicPrefixes, EffectiveForwardingHint
  <1>2. TasksInv /\ StoreInv /\ MeantIsServed
    BY DEF ServerInit, TasksInv, StoreInv, MeantIsServed
  <1>3. CountInv
    BY ContentServerAssumption DEF ServerInit, CountInv
  <1> QED BY <1>1, <1>2, <1>3 DEF ServerIInv

\* The locator and the filters follow the prefix that CcnxDiscovery sees: a
\* callback that finds the locator in place leaves both, another registers the
\* prefix before it is stored, and a restart sets them back together.
LEMMA PrefixNext == PrefixInv /\ CountInv /\ [ServerNext]_serverVars => PrefixInv'
  <1> SUFFICES ASSUME PrefixInv, CountInv, [ServerNext]_serverVars PROVE PrefixInv'
    OBVIOUS
  <1>1. ASSUME UNCHANGED <<port, up, filters, locator, m_localPrefix>>, assigned' \in Hint \cup {<<>>}
        PROVE  PrefixInv'
    BY <1>1 DEF PrefixInv, EffectiveForwardingHint
  <1>2. CASE UNCHANGED serverVars
    BY <1>1, <1>2 DEF serverVars, prefixes, network, PrefixInv
  <1>3. ASSUME NEW r \in Request, Arrive(r) PROVE PrefixInv'
    BY <1>1, <1>3 DEF Arrive, prefixes, network, PrefixInv
  <1>4. ASSUME NEW t \in tasks, Serve(t) PROVE PrefixInv'
    BY <1>4 DEF Serve, prefixes, network, PrefixInv, EffectiveForwardingHint
  <1>5. ASSUME NEW t \in running, Return(t) PROVE PrefixInv'
    BY <1>1, <1>5 DEF Return, prefixes, network, PrefixInv
  <1>6. ASSUME NEW unused \in SUBSET m_dbCache, FlushStaleDbCache(unused) PROVE PrefixInv'
    BY <1>1, <1>6 DEF FlushStaleDbCache, prefixes, network, PrefixInv
  <1>7. ASSUME NEW x \in Items, Save(x) PROVE PrefixInv'
    BY <1>1, <1>7 DEF Save, prefixes, network, PrefixInv
  <1>8. ASSUME NEW hint \in Hint, Move(hint) PROVE PrefixInv'
    BY <1>1, <1>8 DEF Move
  <1>9. CASE Poll
    <2>1. PICK p \in GetLocalPrefix : PrefixUpdated(p) /\ m_localPrefix' = p
      BY <1>9 DEF Poll
    <2> DEFINE new == EffectiveForwardingHint(p)
    <2>2. p \in Hint \cup {<<>>} /\ new \in BasicPrefixes \cup Hint
      BY <2>1 DEF GetLocalPrefix, PrefixInv, EffectiveForwardingHint, BasicPrefixes
    <2>3. UNCHANGED <<port, assigned>> /\ EffectiveForwardingHint(m_localPrefix)' = new
      BY <1>9, <2>1 DEF Poll, network, EffectiveForwardingHint
    <2> HIDE DEF new
    <2>4. CASE locator = {}
      BY <2>1, <2>2, <2>3, <2>4 DEF PrefixUpdated, PrefixInv
    <2>5. CASE locator = {new}
      BY <1>9, <2>1, <2>2, <2>3, <2>5 DEF Poll, PrefixUpdated, PrefixInv, new
    <2>6. CASE locator # {} /\ locator # {new}
      <3>1. filters' = Registered(new) /\ locator' = UpdatedLocator(new) /\ "located" \in port
        BY <2>1, <2>6 DEF PrefixUpdated, PrefixInv, new
      <3>2. locator' = {new}
        BY <3>1 DEF UpdatedLocator
      <3>3. filters \subseteq filters' /\ new \in filters' /\ filters' \subseteq BasicPrefixes \cup Hint
        BY <2>2, <3>1 DEF Registered, PrefixInv
      <3> QED BY <2>2, <2>3, <3>1, <3>2, <3>3, <2>1 DEF PrefixInv
    <2> QED BY <2>4, <2>5, <2>6
  <1>10. CASE Stop
    BY <1>10 DEF Stop, prefixes, network, PrefixInv, EffectiveForwardingHint
  <1>11. CASE Restart
    <2>1. locator' = IF "located" \in port THEN {<<>>} ELSE {}
      BY <1>11 DEF Restart, UpdatedLocator, PrefixInv
    <2>2. m_localPrefix' = <<>> /\ filters' = BasicPrefixes /\ UNCHANGED <<port, assigned>>
      BY <1>11 DEF Restart, StartDiscovery, network
    <2> QED BY <2>1, <2>2 DEF PrefixInv, BasicPrefixes, EffectiveForwardingHint
  <1> QED BY <1>2, <1>3, <1>4, <1>5, <1>6, <1>7, <1>8, <1>9, <1>10, <1>11 DEF ServerNext, Step

\* A prefix that is registered stays so while the process runs.
LEMMA FiltersGrow ==
  ASSUME Poll PROVE filters \subseteq filters'
  <1>1. PICK p \in GetLocalPrefix : PrefixUpdated(p)
    BY DEF Poll
  <1> QED BY <1>1 DEF PrefixUpdated, Registered

\* A name never gets a second task: what an Interest asks for at all filters has
\* different names, and what is taken is left out (filterAndServe, serve_File,
\* serve_Action).
LEMMA TasksNext == PrefixInv /\ TasksInv /\ [ServerNext]_serverVars => TasksInv'
  <1> SUFFICES ASSUME PrefixInv, TasksInv, [ServerNext]_serverVars PROVE TasksInv'
    OBVIOUS
  <1>1. ASSUME UNCHANGED <<tasks, running>>, filters \subseteq filters' PROVE TasksInv'
    BY <1>1 DEF TasksInv, Reading
  <1>2. CASE UNCHANGED serverVars
    BY <1>1, <1>2 DEF serverVars, prefixes
  <1>3. ASSUME NEW r \in Request, Arrive(r) PROVE TasksInv'
    <2> DEFINE i == Interest(r)
               new == {t \in Asked(i) : ~Taken(t)}
    <2>1. tasks' = tasks \cup new /\ running' = running /\ filters' = filters
      BY <1>3 DEF Arrive, Asked, prefixes
    <2>2. i \in Interests
      BY DEF Interests
    <2> HIDE DEF i
    <2>3. ASSUME NEW t \in new
          PROVE  t.hint \in filters /\ t.interest \in Interests /\ t.name.ours /\ Reading(t)
      <3>1. t.hint \in filters /\ t = Serves(t.hint, Without(t.hint, i), i) /\ IsPrefix(t.hint, i.path)
        BY <2>2, <2>3, AskedReads DEF PrefixInv
      <3>2. t.interest = i /\ t.name = Without(t.hint, i)
        BY <3>1 DEF Serves
      <3>3. t.name.ours
        BY DEF Asked, Served
      <3> QED BY <2>2, <3>1, <3>2, <3>3 DEF Reading
    <2>4. ASSUME NEW t \in new, NEW u \in new, t.name = u.name PROVE t = u
      BY <2>2, <2>4, AskedApart DEF PrefixInv
    <2>5. ASSUME NEW t \in new, NEW u \in tasks PROVE t.name # u.name
      BY <2>5 DEF Taken
    <2> HIDE DEF new
    <2>6. \A t, u \in tasks' : t.name = u.name => t = u
      BY <2>1, <2>4, <2>5 DEF TasksInv
    <2>7. \A t \in tasks' : t.hint \in filters /\ t.interest \in Interests /\ t.name.ours /\ Reading(t)
      BY <2>1, <2>3 DEF TasksInv
    <2>8. running' \subseteq tasks'
      BY <2>1 DEF TasksInv
    <2> QED BY <2>1, <2>6, <2>7, <2>8 DEF TasksInv, Reading
  <1>4. ASSUME NEW t \in tasks, Serve(t) PROVE TasksInv'
    BY <1>4 DEF Serve, prefixes, TasksInv, Reading
  <1>5. ASSUME NEW t \in running, Return(t) PROVE TasksInv'
    BY <1>5 DEF Return, prefixes, TasksInv, Reading
  <1>6. ASSUME NEW unused \in SUBSET m_dbCache, FlushStaleDbCache(unused) PROVE TasksInv'
    BY <1>1, <1>6 DEF FlushStaleDbCache, prefixes
  <1>7. ASSUME NEW x \in Items, Save(x) PROVE TasksInv'
    BY <1>1, <1>7 DEF Save, prefixes
  <1>8. ASSUME NEW hint \in Hint, Move(hint) PROVE TasksInv'
    BY <1>1, <1>8 DEF Move
  <1>9. CASE Poll
    BY <1>1, <1>9, FiltersGrow DEF Poll
  <1>10. CASE Stop
    BY <1>10 DEF Stop, TasksInv
  <1>11. CASE Restart
    BY <1>11 DEF Restart, TasksInv
  <1> QED BY <1>2, <1>3, <1>4, <1>5, <1>6, <1>7, <1>8, <1>9, <1>10, <1>11 DEF ServerNext, Step

\* An ObjectDb is opened for a content of which a segment was found, and closed
\* before the segments would go (serve_File_Execute, flushStaleDbCache).
LEMMA StoreNext == TasksInv /\ StoreInv /\ [ServerNext]_serverVars => StoreInv'
  <1> SUFFICES ASSUME TasksInv, StoreInv, [ServerNext]_serverVars PROVE StoreInv'
    OBVIOUS
  <1>1. ASSUME UNCHANGED stored, m_dbCache' \subseteq m_dbCache PROVE StoreInv'
    BY <1>1 DEF StoreInv
  <1>2. CASE UNCHANGED serverVars
    BY <1>1, <1>2 DEF serverVars
  <1>3. ASSUME NEW r \in Request, Arrive(r) PROVE StoreInv'
    BY <1>1, <1>3 DEF Arrive
  <1>4. ASSUME NEW t \in tasks, Serve(t) PROVE StoreInv'
    <2>1. CASE t.name.kind = "file"
      <3>1. ServeFile(t) /\ UNCHANGED stored
        BY <1>4, <2>1 DEF Serve
      <3>2. m_dbCache' = m_dbCache \/ (Has(t.name) /\ m_dbCache' = m_dbCache \cup {t.name.key})
        BY <3>1 DEF ServeFile
      <3>3. Has(t.name) => t.name.key \in {x.key : x \in stored}
        BY DEF Has
      <3> QED BY <3>1, <3>2, <3>3 DEF StoreInv
    <2>2. CASE t.name.kind # "file"
      BY <1>1, <1>4, <2>2 DEF Serve, ServeAction
    <2> QED BY <2>1, <2>2
  <1>5. ASSUME NEW t \in running, Return(t) PROVE StoreInv'
    BY <1>1, <1>5 DEF Return
  <1>6. ASSUME NEW unused \in SUBSET m_dbCache, FlushStaleDbCache(unused) PROVE StoreInv'
    BY <1>1, <1>6 DEF FlushStaleDbCache
  <1>7. ASSUME NEW x \in Items, Save(x) PROVE StoreInv'
    BY <1>7 DEF Save, StoreInv
  <1>8. ASSUME NEW hint \in Hint, Move(hint) PROVE StoreInv'
    BY <1>1, <1>8 DEF Move
  <1>9. CASE Poll
    BY <1>1, <1>9 DEF Poll
  <1>10. CASE Stop
    BY <1>1, <1>10 DEF Stop
  <1>11. CASE Restart
    BY <1>1, <1>11 DEF Restart
  <1> QED BY <1>2, <1>3, <1>4, <1>5, <1>6, <1>7, <1>8, <1>9, <1>10, <1>11 DEF ServerNext, Step

\* Counters stay within their bounds and histories among the Interests.
LEMMA CountNext == CountInv /\ [ServerNext]_serverVars => CountInv'
  <1> SUFFICES ASSUME CountInv, [ServerNext]_serverVars PROVE CountInv'
    OBVIOUS
  <1>1. ASSUME UNCHANGED <<port, up, moves, stops, asks>>, due' \cup dropped' \subseteq due \cup dropped
        PROVE  CountInv'
    BY <1>1 DEF CountInv
  <1>2. CASE UNCHANGED serverVars
    BY <1>1, <1>2 DEF serverVars, prefixes, network
  <1>3. ASSUME NEW r \in Request, Arrive(r) PROVE CountInv'
    <2>1. Interest(r) \in Interests
      BY DEF Interests
    <2>2. due' \subseteq due \cup {Interest(r)}
      BY <1>3 DEF Arrive
    <2>3. dropped' \subseteq dropped \cup {Interest(r)}
      BY <1>3 DEF Arrive
    <2>4. asks' = asks + 1 /\ asks < MaxAsk /\ UNCHANGED <<port, up, moves, stops>>
      BY <1>3 DEF Arrive, prefixes, network
    <2> QED BY <2>1, <2>2, <2>3, <2>4, ContentServerAssumption DEF CountInv
  <1>4. ASSUME NEW t \in tasks, Serve(t) PROVE CountInv'
    <2>1. up' \in BOOLEAN
      BY <1>4 DEF Serve, ServeFile, ServeAction
    <2> QED BY <1>4, <2>1 DEF Serve, prefixes, network, CountInv
  <1>5. ASSUME NEW t \in running, Return(t) PROVE CountInv'
    BY <1>1, <1>5 DEF Return, prefixes, network
  <1>6. ASSUME NEW unused \in SUBSET m_dbCache, FlushStaleDbCache(unused) PROVE CountInv'
    BY <1>1, <1>6 DEF FlushStaleDbCache, prefixes, network
  <1>7. ASSUME NEW x \in Items, Save(x) PROVE CountInv'
    BY <1>1, <1>7 DEF Save, prefixes, network
  <1>8. ASSUME NEW hint \in Hint, Move(hint) PROVE CountInv'
    BY <1>8, ContentServerAssumption DEF Move, CountInv
  <1>9. CASE Poll
    <2>1. up' \in BOOLEAN
      BY <1>9 DEF Poll, PrefixUpdated
    <2> QED BY <1>9, <2>1 DEF Poll, network, CountInv
  <1>10. CASE Stop
    <2>1. stops' \in 0..MaxStop
      BY <1>10, ContentServerAssumption DEF Stop, CountInv
    <2>2. due' = {} /\ dropped' = {} /\ up' = FALSE /\ UNCHANGED <<port, moves, asks>>
      BY <1>10 DEF Stop, prefixes, network
    <2> QED BY <2>1, <2>2 DEF CountInv
  <1>11. CASE Restart
    BY <1>11 DEF Restart, network, CountInv
  <1> QED BY <1>2, <1>3, <1>4, <1>5, <1>6, <1>7, <1>8, <1>9, <1>10, <1>11 DEF ServerNext, Step

\* What is put is what was meant, under the name of the Interest: whichever way
\* the name was read, a request for what was found has this Interest.
LEMMA PutIsMeant ==
  ASSUME PrefixInv, TasksInv, StoreInv, MeantIsServed,
         NEW t \in tasks, ItemOf(t.name) \in stored, answers' = Put(t)
  PROVE  MeantIsServed'
  <1> DEFINE a == [to |-> t.interest, name |-> NameOfData(t), what |-> ItemOf(t.name)]
  <1>1. PICK r \in Request : Interest(r) = t.interest /\ ItemOf(t.name) = Item(r)
    BY FoundIsMeant DEF PrefixInv, TasksInv, StoreInv
  <1>2. NameOfData(t) \in {NoName, t.interest}
    BY DEF NameOfData
  <1>3. answers' = answers \cup {a} /\ a.to = t.interest /\ a.name = NameOfData(t) /\ a.what = ItemOf(t.name)
    BY DEF Put
  <1> HIDE DEF a
  <1> QED BY <1>1, <1>2, <1>3 DEF MeantIsServed

\* No other step puts a Data.
LEMMA MeantNext ==
  PrefixInv /\ TasksInv /\ StoreInv /\ MeantIsServed /\ [ServerNext]_serverVars => MeantIsServed'
  <1> SUFFICES ASSUME PrefixInv, TasksInv, StoreInv, MeantIsServed, [ServerNext]_serverVars
               PROVE  MeantIsServed'
    OBVIOUS
  <1>1. ASSUME answers' \subseteq answers PROVE MeantIsServed'
    BY <1>1 DEF MeantIsServed
  <1>2. CASE UNCHANGED serverVars
    BY <1>1, <1>2 DEF serverVars
  <1>3. ASSUME NEW r \in Request, Arrive(r) PROVE MeantIsServed'
    BY <1>1, <1>3 DEF Arrive
  <1>4. ASSUME NEW t \in tasks, Serve(t) PROVE MeantIsServed'
    <2>1. answers' = answers \/ (ItemOf(t.name) \in stored /\ answers' = Put(t))
      BY <1>4 DEF Serve, ServeFile, ServeAction, LookupActionPco
    <2> QED BY <1>1, <2>1, PutIsMeant
  <1>5. ASSUME NEW t \in running, Return(t) PROVE MeantIsServed'
    BY <1>1, <1>5 DEF Return
  <1>6. ASSUME NEW unused \in SUBSET m_dbCache, FlushStaleDbCache(unused) PROVE MeantIsServed'
    BY <1>1, <1>6 DEF FlushStaleDbCache
  <1>7. ASSUME NEW x \in Items, Save(x) PROVE MeantIsServed'
    BY <1>1, <1>7 DEF Save
  <1>8. ASSUME NEW hint \in Hint, Move(hint) PROVE MeantIsServed'
    BY <1>1, <1>8 DEF Move
  <1>9. CASE Poll
    BY <1>1, <1>9 DEF Poll
  <1>10. CASE Stop
    BY <1>1, <1>10 DEF Stop
  <1>11. CASE Restart
    BY <1>1, <1>11 DEF Restart
  <1> QED BY <1>2, <1>3, <1>4, <1>5, <1>6, <1>7, <1>8, <1>9, <1>10, <1>11 DEF ServerNext, Step

\* So the invariant holds whatever is asked and wherever the device moves.
LEMMA ServerAlwaysInv == ServerSpec => []ServerIInv
  <1>1. ServerIInv /\ [ServerNext]_serverVars => ServerIInv'
    BY PrefixNext, TasksNext, StoreNext, CountNext, MeantNext DEF ServerIInv
  <1> QED BY ServerInitInv, <1>1, PTL DEF ServerSpec

\* An answer holds what its Interest meant, and a name has one task, for any
\* names of devices, hints and requests (filterAndServe, serve_File_Execute,
\* serve_Action_Execute).
THEOREM AnswersAreSound == ServerSpec => []AnswersSound
  <1>1. ServerIInv => AnswersSound
    BY DEF ServerIInv, AnswersSound, ServerTypeOK, PrefixInv, TasksInv, StoreInv, CountInv
  <1> QED BY ServerAlwaysInv, <1>1, PTL

\* The locator is a prefix with a filter, and the one seen last where the
\* conversion is in place (Did_LocalPrefix_Updated, UpdateLocalLocator).
THEOREM LocatorsAreSound == ServerSpec => []LocatorSound
  <1>1. ServerIInv => LocatorSound
    BY DEF ServerIInv, LocatorSound, LocatorIsServed, LocatorIsDiscovered, PrefixInv
  <1> QED BY ServerAlwaysInv, <1>1, PTL

=============================================================================
