---------------------------- MODULE ContentServer ----------------------------
(***************************************************************************)
(* The server of actions and file segments (src/src/content-server.cc).    *)
(*                                                                         *)
(* The face calls filterAndServe; the one thread of m_scheduler serves.    *)
(* A task is tagged with the name that is left when the forwarding hint is *)
(* taken off, and a request for a tag that is taken is dropped.  The       *)
(* dispatcher fills the action log and the segment store meanwhile, and    *)
(* CcnxDiscovery (src/ccnx/ccnx-discovery.cpp) polls the prefix that the    *)
(* network assigns.                                                        *)
(*                                                                         *)
(* Conversions of the port to ndn-cxx that are unfinished are those of     *)
(* Dispatcher, and one more: the action log stores the content of a Data,  *)
(* and reads it back as a Data ("stored"); the locator of this device is   *)
(* not stored under the key of its row, and a row without one is read      *)
(* through a null pointer ("located").                                     *)
(***************************************************************************)
EXTENDS Naturals, Sequences, SequencesExt

CONSTANTS
    Component,  \* components of names
    DeviceName, \* device names: sequences of components
    User,       \* m_userName
    Broadcast,  \* BROADCAST_DOMAIN
    Hint,       \* the forwarding hints that the network may assign
    Request,    \* what is asked for: the hint used, the device and the rest
    Ports,
    MaxAsk,     \* bound on the Interests that arrive
    MaxMove,    \* bound on the changes of the local prefix
    MaxStop     \* bound on the ends of the process from outside

Conversions == {"printed", "extracted", "keys", "stored", "located"}

\* Requests that the code cannot tell apart once they are Interests.
SameName(q, r) == q.kind = r.kind /\ q.key = r.key /\ q.n = r.n /\ q.ours = r.ours

\* A name that can be read in two ways may be asked for in both.
ASSUME ContentServerAssumption ==
    /\ User \in DeviceName
    /\ DeviceName \cup Hint \cup {Broadcast} \subseteq Seq(Component)
    /\ \A r \in Request : r.hint \in Hint \cup {<<>>, Broadcast} /\ r.dev \in DeviceName /\ r.kind \in {"file", "action"}
    /\ \A r \in Request, h \in Hint \cup {<<>>, Broadcast}, d \in DeviceName :
          h \o d = r.hint \o r.dev => \E q \in Request : SameName(q, r) /\ q.hint = h /\ q.dev = d
    /\ Ports \subseteq SUBSET Conversions
    /\ MaxAsk \in Nat /\ MaxMove \in Nat /\ MaxStop \in Nat

\* What is stored: a segment of a content, whose key is its hash, or an action,
\* whose key is its type.
Item(r) == [kind |-> r.kind, dev |-> r.dev, key |-> r.key, n |-> r.n]
Items == {Item(r) : r \in {q \in Request : q.ours}}

\* The name of an Interest, from its hint on; ours is false for the name of
\* another application, or an action of another shared folder.
Interest(r) == [path |-> r.hint \o r.dev, kind |-> r.kind, key |-> r.key, n |-> r.n, ours |-> r.ours]
Interests == {Interest(r) : r \in Request}
NoName == [path |-> <<>>, kind |-> "none", key |-> 0, n |-> 0, ours |-> FALSE]

VARIABLES
    port,       \* the conversions that work
    up,         \* the process runs
    assigned,   \* the prefix that the network has assigned, <<>> for none
    m_localPrefix, \* the prefix that CcnxDiscovery has seen last
    filters,    \* prefixes for which an Interest filter is set
    locator,    \* last_known_locator of this device, {} when there is none
    stored,     \* segments and actions in the databases
    m_dbCache,  \* contents whose ObjectDb is open
    tasks,      \* tasks of m_scheduler, one for each name
    running,    \* the task that has been carried out and has not returned
    answers,    \* Data that have been put
    asks, moves, stops,
    due,        \* history: Interests for what was stored when they came
    dropped     \* history: Interests dropped because their name was taken

network == <<assigned, moves>>
prefixes == <<network, m_localPrefix, filters, locator>>
serverVars == <<port, up, prefixes, stored, m_dbCache, tasks, running, answers, asks, stops, due, dropped>>

\* registerPrefix for the two prefixes that the dispatcher starts with.
BasicPrefixes == {<<>>, Broadcast}

\* UpdateLocalLocator.
UpdatedLocator(hint) == IF "located" \in port THEN {hint} ELSE locator

ServerInit ==
    /\ port \in Ports
    /\ up = TRUE
    /\ filters = BasicPrefixes
    /\ locator = IF "located" \in port THEN {<<>>} ELSE {}
    /\ assigned = <<>> /\ m_localPrefix = <<>>
    /\ moves = 0 /\ stops = 0
    /\ stored = {} /\ m_dbCache = {}
    /\ tasks = {} /\ running = {}
    /\ answers = {} /\ asks = 0 /\ due = {} /\ dropped = {}

-----------------------------------------------------------------------------
(* The face.                                                                *)

Serves(hint, name, interest) == [hint |-> hint, name |-> name, interest |-> interest]

\* The name with the hint taken off.
Without(hint, i) == [i EXCEPT !.path = SubSeq(@, Len(hint) + 1, Len(@))]

\* Mutant: the hint is taken off once too often.
TriesTwice(hint, i) ==
    {Serves(hint, Without(hint, Without(hint, i)), i)}
    \cup IF Len(hint) > 0 /\ IsPrefix(hint, User) THEN {Serves(<<>>, i, i)} ELSE {}

\* filterAndServe: without the hint when it may be a part of the device's name,
\* and always with it.
Tries(hint, i) ==
    {Serves(hint, Without(hint, i), i)}
    \cup IF Len(hint) > 0 /\ IsPrefix(hint, User) THEN {Serves(<<>>, i, i)} ELSE {}

\* filterAndServeImpl: an action or a file of this application and folder.
Served(t) == t.name.ours

Taken(t) == \E u \in tasks : u.name = t.name

\* An Interest arrives at every filter whose prefix it has, and
\* serve_File or serve_Action schedules a task.
Arrive(r) ==
    /\ up /\ asks < MaxAsk
    /\ asks' = asks + 1
    /\ due' = IF Item(r) \in stored /\ r.hint \in filters THEN due \cup {Interest(r)} ELSE due
    /\ LET i == Interest(r)
           new == {t \in UNION {Tries(hint, i) : hint \in {g \in filters : IsPrefix(g, i.path)}} : Served(t)}
       IN  /\ tasks' = tasks \cup {t \in new : ~Taken(t)}
           /\ dropped' = IF \E t \in new : Taken(t) /\ (t \notin tasks \/ t \in running)
                         THEN dropped \cup {i} ELSE dropped
    /\ UNCHANGED <<port, up, prefixes, stored, m_dbCache, running, answers, stops>>

-----------------------------------------------------------------------------
(* The thread of the scheduler.                                             *)

Has(name) == \E x \in stored : x.dev = name.path /\ x.kind = name.kind /\ x.key = name.key

ItemOf(name) == [kind |-> name.kind, dev |-> name.path, key |-> name.key, n |-> name.n]

\* Mutant: the Data has the name without the hint.
NameOfItem(t) == t.name

\* An answer has the name of the Interest; a segment that is asked for without a
\* hint is put without a name.
NameOfData(t) == IF t.hint = <<>> /\ t.name.kind = "file" THEN NoName ELSE t.interest

Put(t) == answers \cup {[to |-> t.interest, name |-> NameOfData(t), what |-> ItemOf(t.name)]}

\* serve_File_Execute.  Without its digits a hash has no path: substr throws.
\* DoesExist and fetchSegment look for the segments of the device.
ServeFile(t) ==
    LET h == t.name.key
        opened == "printed" \in port
        found == {"extracted", "keys"} \subseteq port /\ Has(t.name)
    IN  /\ up' = (h \in m_dbCache \/ opened)
        /\ m_dbCache' = IF opened /\ found THEN m_dbCache \cup {h} ELSE m_dbCache
        /\ answers' = IF h \in m_dbCache' /\ ItemOf(t.name) \in stored /\ found THEN Put(t) ELSE answers

\* LookupActionPco misses the row of a deletion, which has another encoding of
\* the device as its key.
LookupActionPco(name) ==
    ItemOf(name) \in stored /\ (name.key = "delete" => "keys" \in port)

\* serve_Action_Execute.  What a row holds is not a Data, and to read it as one
\* throws.
ServeAction(t) ==
    LET found == LookupActionPco(t.name)
    IN  /\ up' = (found => "stored" \in port)
        /\ answers' = IF found /\ up' THEN Put(t) ELSE answers
        /\ UNCHANGED m_dbCache

Serve(t) ==
    /\ up /\ running = {} /\ t \in tasks
    /\ running' = {t}
    /\ IF t.name.kind = "file" THEN ServeFile(t) ELSE ServeAction(t)
    /\ UNCHANGED <<port, prefixes, stored, tasks, asks, stops, due, dropped>>

Return(t) ==
    /\ up /\ t \in running
    /\ running' = {} /\ tasks' = tasks \ {t}
    /\ UNCHANGED <<port, up, prefixes, stored, m_dbCache, answers, asks, stops, due, dropped>>

\* flushStaleDbCache closes what has not been used for a while.
FlushStaleDbCache(unused) ==
    /\ up /\ running = {}
    /\ unused # {} /\ unused \subseteq m_dbCache
    /\ m_dbCache' = m_dbCache \ unused
    /\ UNCHANGED <<port, up, prefixes, stored, tasks, running, answers, asks, stops, due, dropped>>

\* The dispatcher logs an action, or commits a segment.
Save(x) ==
    /\ up /\ x \notin stored
    /\ stored' = stored \cup {x}
    /\ UNCHANGED <<port, up, prefixes, m_dbCache, tasks, running, answers, asks, stops, due, dropped>>

-----------------------------------------------------------------------------
(* The local prefix, and the process.                                       *)

\* A hint that the name of this device begins with is not needed.
EffectiveForwardingHint(hint) == IF IsPrefix(hint, User) THEN <<>> ELSE hint

\* registerPrefix, but for the basic prefixes.  deregisterPrefix, for the one
\* that is left, does nothing: its body is commented out.
Registered(hint) == IF hint \in BasicPrefixes THEN filters ELSE filters \cup {hint}

\* The device comes to another network.
Move(hint) ==
    /\ moves < MaxMove
    /\ moves' = moves + 1
    /\ assigned' = hint
    /\ UNCHANGED <<port, up, m_localPrefix, filters, locator, stored, m_dbCache, tasks, running,
                   answers, asks, stops, due, dropped>>

\* What getLocalPrefix may return: the prefix that the daemon announces, or an
\* empty name when it cannot be reached or is silent for two rounds.
GetLocalPrefix == {assigned, <<>>}

\* Did_LocalPrefix_Updated.  LookupLocalLocator throws when there is none.
PrefixUpdated(hint) ==
    /\ up' = (locator # {})
    /\ LET new == EffectiveForwardingHint(hint)
       IN  IF locator \in {{}, {new}}
           THEN UNCHANGED <<filters, locator>>
           ELSE filters' = Registered(new) /\ locator' = UpdatedLocator(new)

\* Mutant: the new prefix is noted and the callback is not called.
PollSilent ==
    /\ up
    /\ \E p \in GetLocalPrefix : p # m_localPrefix /\ m_localPrefix' = p
    /\ UNCHANGED <<port, up, network, filters, locator, stored, m_dbCache, tasks, running,
                   answers, asks, stops, due, dropped>>

\* The periodic task of CcnxDiscovery calls back when the prefix has changed.  In
\* the port the registration of the callback is commented out.
Poll ==
    /\ up
    /\ \E p \in GetLocalPrefix :
           p # m_localPrefix /\ PrefixUpdated(p) /\ m_localPrefix' = p
    /\ UNCHANGED <<port, network, stored, m_dbCache, tasks, running, answers, asks, stops, due, dropped>>

\* CcnxDiscovery starts with "/" and polls at once.
StartDiscovery == m_localPrefix' = <<>>

\* A crash, or the end of the program.  The histories start again.
Stop ==
    /\ up /\ stops < MaxStop
    /\ stops' = stops + 1
    /\ up' = FALSE
    /\ m_dbCache' = {} /\ tasks' = {} /\ running' = {}
    /\ answers' = {} /\ due' = {} /\ dropped' = {}
    /\ UNCHANGED <<port, prefixes, stored, asks>>

\* Mutant: the locator of the last time is kept.
RestartKeepsLocator ==
    /\ ~up
    /\ up' = TRUE
    /\ filters' = BasicPrefixes /\ StartDiscovery
    /\ m_dbCache' = {} /\ tasks' = {} /\ running' = {}
    /\ answers' = {} /\ due' = {} /\ dropped' = {}
    /\ UNCHANGED <<port, network, locator, stored, asks, stops>>

\* The constructors of the dispatcher, the server and SyncCore, which stores "/"
\* as the locator.
Restart ==
    /\ ~up
    /\ up' = TRUE
    /\ filters' = BasicPrefixes /\ StartDiscovery
    /\ locator' = UpdatedLocator(<<>>)
    /\ m_dbCache' = {} /\ tasks' = {} /\ running' = {}
    /\ answers' = {} /\ due' = {} /\ dropped' = {}
    /\ UNCHANGED <<port, network, stored, asks, stops>>

Step ==
    \/ \E t \in tasks : Serve(t)
    \/ \E t \in running : Return(t)

ServerNext ==
    \/ \E r \in Request : Arrive(r)
    \/ Step
    \/ \E unused \in SUBSET m_dbCache : FlushStaleDbCache(unused)
    \/ \E x \in Items : Save(x)
    \/ \E hint \in Hint : Move(hint)
    \/ Poll
    \/ Stop
    \/ Restart

ServerSpec == ServerInit /\ [][ServerNext]_serverVars

\* The scheduler carries out its tasks.
ServerFairSpec == ServerSpec /\ WF_serverVars(Step)

-----------------------------------------------------------------------------
ServerTypeOK ==
    /\ port \subseteq Conversions /\ up \in BOOLEAN
    /\ stored \subseteq Items
    /\ m_dbCache \subseteq {x.key : x \in stored}
    /\ running \subseteq tasks
    /\ \A t, u \in tasks : t.name = u.name => t = u
    /\ \A t \in tasks : t.hint \in filters /\ t.interest \in Interests /\ t.name.ours
    /\ filters \subseteq BasicPrefixes \cup Hint /\ locator \subseteq BasicPrefixes \cup Hint
    /\ assigned \in Hint \cup {<<>>} /\ m_localPrefix \in Hint \cup {<<>>}
    /\ moves \in 0..MaxMove /\ stops \in 0..MaxStop
    /\ asks \in 0..MaxAsk /\ due \cup dropped \subseteq Interests

\* A Data is an answer to an Interest, and what it holds is what the Interest was
\* for, although a name is tried both with its hint and without it and an ObjectDb
\* that is open serves every device.
MeantIsServed ==
    \A a \in answers :
        a.name # NoName =>
            /\ a.name = a.to
            /\ \E r \in Request : Interest(r) = a.to /\ a.what = Item(r)

\* Tasks and answers are sound: at most one task serves a name, under a hint that
\* has a filter, and no answer holds anything else than what its Interest meant
\* (filterAndServe, serve_File_Execute, serve_Action_Execute).
AnswersSound == ServerTypeOK /\ MeantIsServed

\* The locator that this device gives to the others is a prefix that it serves:
\* filters are lost when the process ends and the locator is not, a prefix may be
\* assigned that the device's name makes superfluous, and prefixes come and go.
LocatorIsServed == up => locator \subseteq filters

\* With the conversion in place the locator is what CcnxDiscovery has seen last,
\* or "/" where the name of the device makes the prefix superfluous: the table
\* and the discovery are set back together by a restart and never part.
LocatorIsDiscovered ==
    up /\ "located" \in port => locator = {EffectiveForwardingHint(m_localPrefix)}

\* Peers are told of a prefix under which this device can be reached
\* (Did_LocalPrefix_Updated, poll, UpdateLocalLocator).
LocatorSound == LocatorIsServed /\ LocatorIsDiscovered

\* Interests for what was stored when they came that have no answer.  Left out
\* are a segment that is asked for without a hint, and an Interest for a name that
\* was being served, under another hint or just before the task returned.
Waiting ==
    {i \in due \ dropped : /\ i.kind = "file" => i.path \notin DeviceName
                           /\ \A a \in answers : a.name # i}

\* With all conversions in place what is stored is served to whoever asks for it
\* under a prefix that is registered: whatever has been asked, the tasks come to an
\* end with nothing waiting, or the process ends (serve_File, serve_Action).
AskedIsAnswered == []<>(port = Conversions /\ up => Waiting = {})
=============================================================================
