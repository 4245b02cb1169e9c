# ChronoShare: TLA+ models, model checking and proofs

ChronoShare keeps a folder in sync between devices over Named Data Networking.
Each device records what happens to its files as numbered *actions*, exchanges
with the others only a *digest* of the numbers it knows, and fetches the actions
and then the file segments it misses. The code at this commit is being ported
from CCNx to ndn-cxx; the models describe the code as it is, including the
places where the port has changed what a call does.

Paths start with `src/`, the repository's root, as in `PROJECT.json`, which maps
every definition that models code to its lines.

## 1. Inventory

| Component | State | Operations | Interacts with |
|---|---|---|---|
| Scheduler, tasks, Executor (`src/scheduler/`, `src/executor/`) | map tag -> task, libevent timers, job queue, `m_invoked` of each task | add, delete (by tag or predicate), reschedule (by tag or task), start, shutdown; the timer queues a job, the executor runs it | SyncCore, FetchManager and Fetcher submit tasks and jobs from several threads |
| SyncLog (`src/src/sync-log.cc`) | SQLite tables SyncNodes, SyncLog, SyncStateNodes; hash computed by an SQL aggregate | next local number, update of a device's number, remember the state, difference of two states | shared by SyncCore (two threads) and ActionLog |
| SyncCore (`src/src/sync-core.cc`) | `m_rootHash`, the tasks of its scheduler | sync and recover Interests and Data, local change (delayed), periodic Interest, recovery | face thread, executor thread and application thread; calls Dispatcher with the difference |
| Fetcher (`src/src/fetcher.cc`) | in-order mark, out-of-order set, pipeline set and counter, `m_active`, `m_timedwait` | restart, fill pipeline, data, timeout (re-express or give up), finish | FetchManager starts it again and removes it |
| FetchManager, FetchTaskDb (`src/src/fetch-manager.cc`, `fetch-task-db.cc`) | fetch list, count of parallel fetches, retry times, persisted tasks | enqueue, schedule, no-data timeout, complete, timed wait, resume after restart | Dispatcher enqueues; fetchers call back |
| ActionLog (`src/src/action-log.cc`) | table ActionLog with an insert trigger | local update, local delete, remote action, lookups | Dispatcher's thread and the action fetcher's thread; takes numbers from SyncLog; its trigger writes FileState |
| FileState (`src/src/file-state.cc`) | one row per file: shown action, hash, `is_complete` | update, delete, set complete, lookups | written by ActionLog's trigger and by Dispatcher |
| Dispatcher (`src/src/dispatcher.cc`) | map hash -> open ObjectDb; a one-thread executor | local add/modify/delete, state change, action fetched, segment fetched, file fetched, apply delete | connects everything above with the file system |
| ObjectDb, ObjectManager (`src/src/object-db.cc`, `object-manager.cc`) | segments of a content, one SQLite file per hash, written in one long transaction | save a segment, does it exist, split a file, assemble | Dispatcher, ContentServer, StateServer |
| ContentServer (`src/src/content-server.cc`) | Interest filters, cache of open databases, tasks tagged by name | register a prefix, answer Interests for actions and segments, flush the cache | ActionLog, ObjectDb; the local prefix comes from Dispatcher and its locator from SyncLog |
| FsWatcher (`src/fs-watcher/`) | watched paths, a SQLite table of known files, delayed scans | directory or file changed, scan, scan for removed files | Dispatcher's local-file handlers |
| StateServer (`src/src/state-server.cc`) | a one-thread executor | list actions, list files, restore a version | ActionLog, FileState, ObjectManager |
| ccnx wrapper (`src/ccnx/ccnx-wrapper.cpp`) | connection to the CCNx daemon, recorded filters, pending Interests, closures | set and clear filters, send Interests, get, publish, reconnect, shut down | the GUI and tests still create it; the port replaces it by ndn-cxx |
| HTTP server, GUI, command line tools, ccnx verifier, json_spirit | - | static pages, menus, start-up, dumps | - |

What is hard here, and what makes each part correct:

* **Threads without locks.** `m_rootHash`, the SQLite connections and the task
  map are shared; several operations are sequences of statements that other
  threads may interrupt. Correct: each root is logged, what is learnt is
  reported when it is known, an entry of the log describes one state, FileState
  shows the winner of the logged actions.
* **Deferred work.** Tasks are added, deleted and rescheduled while their timer
  has fired or their callback runs. Correct: a periodic task never dies, a task
  runs at most once per request, sync Interests go on for ever.
* **An unreliable network.** Answers come in any order or not at all, and
  Interests are re-expressed. Correct: the in-order mark never skips a number,
  the pipeline counter is exact, every start of a fetch is answered by one end,
  and every fetch in the list gets its turn.
* **Crashes.** Several databases commit separately. Correct: a settled local
  number is never handed out twice, each number names an action, the file state
  agrees with the log, a published locator is a prefix that is served.
* **The folder is shared with the user.** The dispatcher writes files that the
  watcher reports back, and the user edits them meanwhile. Correct: what the
  dispatcher wrote is not published as an edit, an edit is published, a change is
  reported although watches, scans and signals overlap.
* **Connections come and go.** The ccnx wrapper reconnects under its callers.
  Correct: filters are those last set, pending Interests end in a callback,
  closures outlive the jobs that point to them, shutdown returns.

## 2. Modules and how they correspond to the code

| Module | Models | Composition |
|---|---|---|
| `SyncState` | a state of SyncNodes as a function device -> number, the rule of `UpdateDeviceSeqNo`, the records of `FindStateDifferences` | used by SyncLog, SyncCore |
| `SyncLog` | the SQL statements of SyncLog on one connection shared by threads, transactions, rollback, crash | extends SyncState |
| `Scheduler` | the data structures and operations of the scheduler as action fragments | base of the next two |
| `SchedulerClients` | the scheduler with arbitrary clients, timers and executor | extends Scheduler |
| `SyncCore` | SyncCore's three threads on top of SyncLog (call level) and Scheduler | extends Scheduler, SyncState |
| `FetcherLife` | what a fetcher promises its manager: restarted, failed, completed, waiting, with the two ways in which it departs from that | abstract specification |
| `Fetcher` | one fetcher, its jobs and its outstanding Interests | implements FetcherLife (`ImplementsLife`) |
| `FetchManager` | fetch list, slots, retry pause, hints, timed wait, task table, restart | manages lives of FetcherLife |
| `FileState` | the table FileState, one operator per SQL statement | used by ActionLog |
| `ActionLog` | the action log, its trigger, and Dispatcher's handlers of local changes; two threads, crash | extends FileState |
| `Dispatcher` | the jobs of the dispatcher, the segment store, the folder, the user and the two fetchers | extends FileState |
| `FsWatcher` | Qt's signals, the scans and the table of known files, the user, restarts | stands alone |
| `ContentServer` | Interests under several hints, the tasks that serve, the discovery of prefixes and the locator, restarts | stands alone |
| `StateServer` | paged listings and the restore command over a changing log and folder | stands alone |
| `CcnxWrapper` | application, loop, executor and daemon around one handle | stands alone |
| `Sync_proofs` | theorems of SchedulerClients, SyncCore and SyncLog, which share the lemmas on the scheduler and on states | extends the three |
| `Content_proofs` | theorems of ActionLog and ContentServer: what is logged and what is served | extends the two |
| `Fetcher_proofs`, `FetchManager_proofs`, `Dispatcher_proofs`, `FsWatcher_proofs`, `StateServer_proofs`, `CcnxWrapper_proofs` | theorems | extend the module they are named after |
| `MC*` | constants of the TLC runs | |

Two components of one proof module must not define the same name, so those of
SchedulerClients, SyncLog and ContentServer carry a prefix where others have plain
ones: `ClientsInit`, `LogNext`, `ServerSpec` are `Init`, `Next` and `Spec` elsewhere.

**Scheduler.** A task is a tag and a number, so that two tasks of one tag are
told apart; `TaskPool` bounds the numbers and `MaxQueue` the job queue. `armed`
are the tasks whose libevent timer is pending, `m_queue` the executor's jobs,
`m_invoked` the flags, `running` the task whose callback runs. `addTask` is two
steps because it arms the timer after it has released the lock. The end of a
one-time task is two steps, because `run` sets the flag and `deregisterSelf`
takes the lock afterwards. Destroying a task removes its timer (`Alive`).

**SyncLog.** `db` is what the connection sees, `saved` what is committed while a
transaction is open. `RememberStateInStateLog` is BEGIN, the INSERT of the hash,
the read of `last_insert_rowid`, the INSERT of the rows, and the check with
COMMIT or ROLLBACK, with statements of other threads between any two.
`GetNextLocalSeqNo` is a SELECT and an UPDATE. `Crash` may come at any time.

**SyncCore.** Every read and write of `m_rootHash` is a step, and so is every
statement of SyncLog that another thread can see the effect of.
`RememberStateInStateLog` is two of them: the INSERT of the hash, whose trigger
first deletes an equal hash with its rows (`InsertHash`), and the INSERT of the
rows from what SyncNodes holds by then (`InsertRows`). `m_stateUpdateMutex` keeps
only other calls of the same function out in between (`Remembering`);
`UpdateDeviceSeqNo` and `FindStateDifferences` take no lock, so `rows[h]` may be
empty (`Origin`) or ahead of `h` when a difference is taken. The other three
statements of the function are in `SyncLog`; SyncCore reads the row id together
with the hash, so the case that a new device is inserted between these two (the
rows then go to another state, or the process throws) is there only, as `collided`.
A number may be reported more than once, which the code permits: an
action that is fetched again does not change the log. `overlapped` records the three ways
in which `localStateChanged` makes `handleStateData` lose something: it assigns
`m_rootHash` in its middle, it gives a state rows that hold more of a remote device
than the hash, or the new root is without rows when the difference is taken. The
face thread runs one
handler at a time, so does the executor. Three things follow the code rather
than its names: the hash in an Interest is taken with its TLV header
(`WireHash`) and therefore equals no logged hash; the printed form of a hash is
empty, so all recover tasks share the tag `r-`; `recover` copies into a buffer
of size zero, which is a crash or a name without the hash. Replies are built
but never put on the face and locators are never stored, so neither appears.
`TaskPool` is at least `MaxQueue + 2`, otherwise the bound, and not the code,
would stop a task from being created.

**Fetcher.** The loop of `FillPipeline` is modelled read by read (`FillTest`,
`FillFind`, `FillInsert`, `FillExpress`, `FillAdvance`), because `RestartPipeline`
writes `m_minSendSeqNo` from a thread of the scheduler and neither side holds a lock
for it. `fill` is where the loop is and the value it read last. Within
`expressInterest` the name and the numbers of the two callbacks may come from
different values, and the increment is a load and a store. The two searches
(lines 98 and 101) are one step: `RestartPipeline` only ever writes the number in
front of a gap, for which the first search finds nothing. `torn` records that one
turn has met two values. After that `m_inActivePipeline` may hold a number that is
never requested, and a segment may be requested twice; what still holds is that
the counter equals the Interests and answers on their way (`PipelineAccounting`)
and that the in-order mark skips nothing (`NothingSkipped`).
`pending` is the bag of outstanding Interests (number the callbacks
are bound to, the segment asked for), `jobs` the executor's queue. `noActivity`
stands for the comparison of the clock with the last positive activity. The end
of a fetch is two steps (`OnDataExecute`, `FinishFetch`), because
`ScheduleFetches` on another thread may restart a fetcher that is no longer
active and not yet in timed wait. FetchManager appears only as the environment
that calls `RestartPipeline`, as far as `m_active` and `m_timedwait` let it.
`ImplementsLife` states that the fetcher, seen through `m_active`,
`m_timedwait`, its queued completions and the restarts it still owes an answer
for, is a `FetcherLife`; the two faults that the abstract life admits are Interests
that no attempt needs (`stray`; a torn turn counts as one), and a fetcher that is active with nothing
outstanding (`stalled`). `FillPipeline` sends the former (`Needless`) when it was
queued before the fetcher gave up, and when, after a restart has taken it back to
the first gap, answers that overtake it close that gap: it skips what was received
out of order, but not what has been counted in order meanwhile.

**FetchManager.** Each fetcher is a life of `FetcherLife`, so pipelines and
segments are gone. `ScheduleFetches`, `TimedWait` and the second half of
`Enqueue` hold `m_parellelFetchMutex` and are one step each; the two halves of
`DidNoDataTimeout` and the end of a fetch are separate, because they do not hold
it throughout. A fetcher that has completed may be restarted before it is in timed
wait, and then has nothing to request (`MayEnd`). `m_currentParallelFetches` counts modulo `UintSize`, which stands
for 2^32. The table of tasks keeps `INSERT OR IGNORE` and a `DELETE` whose bound
length only matches when the two names happen to have equal lengths
(`LengthsAgree`, false for the names Dispatcher uses and in the run, so that no row
ever leaves; `test-fetch-task-db.cc:114-136` expects the deletion for such names).
No property is stated about the table: that rows stay is the defect. A restart that finds a row
ends the process, because `foreachTask` takes a length for an address.

**Dispatcher.** `jobs` is the queue of `m_executor`; user, watcher, action
fetcher and file fetcher are actors beside it. `unsaved` are segments in the open
transaction of an ObjectDb, `saved` those that its destruction has committed.
`DoesExist` is true when some segments are there. A write to the action log with
its trigger is one step here, since `ActionLog` has its statements, and so is the
whole of `Did_LocalFile_AddOrModify_Execute` (`LocalFileModify`).
`Did_FetchManager_FileFetchComplete_Execute` is four stages, between which the
thread of the action fetcher logs updates and the user changes files: it closes the
database (`FileFetchComplete`), copies the rows of the content (`AssembleLookup`),
and for each of them compares and writes the file (`AssembleNext`), sets its time and
mode (`AssembleStamp`; if the file is gone, nobody catches the error and the process
ends) and marks by its name whatever row it has by now (`AssembleMark`). A row that
was replaced before it is marked joins `stale`, as does one that was complete when a
remote update came: the content on disk then passes for an edit. What is stored is
not the identity: a segment is bound with more bytes than were read or received, so
that, as long as `sized` is missing, an assembled file is `Padded` and has another
hash than the one it was stored under (`test-object-manager.cc:61-70` asserts the
round trip). A tie of versions with a local deletion goes to the remote update, since
the name of the deletion is compared in its wire form (`Beats`).

**FsWatcher.** Both threads run `DidFileChanged`, the scheduler's from a scan, and
`calls` is where each is with the path it has in hand: the test for existence, the
`removePath`, and the `addPath` or the deletion of the row are steps of their own,
between which the folder changes and the other thread goes on. A scan takes a path
out (`ScanVisit`), puts it back (`ScanWatch`), looks it up in the table (`ScanLook`)
and calls `DidFileChanged` (`ScanNotify`). A tag is taken until its task has returned,
and requests for it are dropped meanwhile. `unseen` records the files of which a change
left no trace: it fell between a `removePath` and the `addPath` while the file was in
the table, where no signal is raised and no scan looks for changes of known files; or
behind the scan that will watch a new folder; or it was dropped with its request; or
the process ended first. `ChangeIsReported` and `GoneLeavesTable` speak of all other
changes; `TableSound` says that no order of these calls leaves a known file unwatched.

**ContentServer.** A name is a path, a kind, a key and a number, and a path a
sequence of components; each Interest is tried with and without its hint and becomes
a task tagged with what is left. A path is a hint followed by a device's name, and
may be read as such in two ways: this device's name begins with the broadcast
domain, and the rest of it may be the name of another device, as that of the peer in
the run is. Requests are closed under such readings (`ContentServerAssumption`), for
a name is all that the server sees of them.
`filters` and `locator` follow `registerPrefix`, `UpdateLocalLocator` and
`Did_LocalPrefix_Updated`. The latter is the callback of `CcnxDiscovery`, whose
`Poll` compares what `getLocalPrefix` returns, the prefix the network has
`assigned` or nothing, with what it has seen last. The port has commented the
registration of the callback out; the model takes it as made. Filters are lost with
the process, the locator is not, and the constructor of SyncCore stores "/".

**StateServer.** `client` reads a listing page by page by offset, while actions
and rows are inserted and rows deleted. A query selects places of a table, and a page
those with as many selected ones before them as OFFSET and LIMIT say (`Before`).
The restore command is four steps, for the user may remove the file between any two
of them: it looks the version up and sees whether there is a file (`RestoreLookup`),
compares it (`RestoreCompare`: contents, time and mode, of which the user may have
changed the last two, so equal contents may be assembled again), assembles it
(`RestoreWrite`), and sets time and mode and replies (`RestoreStamp`; if the file is
gone by then, nobody catches the error and the process ends). Segments are stored per
content and device (`Object`): a content that is whole from one device does not make
up for what is missing from the device of the version asked for. `part` keeps the
objects of which the store has had a part only, and `RestoredIsAsked` lets a file be
cut only if the object of the version asked for is among them.

**CcnxWrapper.** Each section under `m_mutex` is a step, and so is each unlocked
access to `m_connected` in `ccnLoop` and `shutdown`. The library and the daemon
are external: a lost connection makes `ccn_run` fail, filters and pending
Interests stay in the handle, an Interest ends in one upcall and then FINAL.

**The unfinished port.** Every part keeps its face in a null `shared_ptr`
(`m_ndn`, at `sync-core.cc:52`, `fetcher.cc:44`, `fetch-manager.cc:49`,
`content-server.cc:46`, `state-server.cc:44`, `object-manager.cc:42`,
`dispatcher.cc:47`), so the program as it stands ends at its first use of the
network; the models take the faces as created. Eight conversions are unfinished,
and `Ports`, or `Worlds` where it also bounds what happens, enumerates sets of
conversions that work, `{}` being the code as it is and all of them the code once it
is finished:

| Name | What the code does |
|---|---|
| `printed` | `operator<<` of Hash prints nothing, so the path of an ObjectDb cannot be made: `substr` throws, and the process ends |
| `extracted` | a hash is read back from a name component with its TLV header |
| `keys` | ObjectDb saves under `wire()` and looks up under `value()` of the device's name |
| `sized` | a segment is saved with all 1024 bytes of the buffer (`object-manager.cc:82`), and `value()` is bound with the size of the whole block (`object-db.cc:145`) |
| `stored` | the action log stores the Content block of a Data and reads it back as a Data |
| `located` | the locator is stored under a key that no row has, and NULL is read through a pointer |
| `names` | a component is taken for a file name in its escaped form, without slashes |
| `devices` | a binary device name is parsed as a URI |

Safety properties hold whichever conversions work, except that without `sized` what
is assembled is padded, which they say. The liveness properties
`ShownIsAssembled` and `AskedIsAnswered` are claimed for the finished port only:
without the conversions no file is ever assembled and no Interest answered.

**ActionLog and FileState.** A row of the log is an action and the key it is
stored under. The key matters because it decides ties of versions: updates bind
`value()` with the length of the whole block, so bytes behind the buffer become
part of it (`Pad`, any value), and deletions bind `wire()`, which sorts before
every `value()`. A statement on the log holds the connection until its trigger
has returned (`applying`), but `UpdateFile` is several statements on the
connection of FileState, where `SetFileComplete` may come between. FileState
commits by itself; the log commits with END TRANSACTION, or with the statement
when no transaction is open, also for statements of the other thread. A
deletion received from a peer does not decode, because the sender put the memory
of the string object into the Data.

## 3. Runs

Every run finishes within three minutes with two workers. Most invariants are
conjunctions of named parts, one per idea, together with the module's type
invariant; each part has a comment of its own in the module.

| Run | Result | What it shows |
|---|---|---|
| `scheduler` | pass | no registered periodic task dies (`PeriodicAlive`) or is starved (`PeriodicKeepsRunning`), what was added or rescheduled will run unless it is deleted (`GrantedWillRun`), and a callback is entered at most once per add or reschedule (`OneRunPerGrant`), although jobs survive the deletion of their task |
| `synclog` | pass | the log is never ahead of SyncNodes and its rows never fall behind their hash (`EntriesSound`), and a settled local number is not handed out again, whatever rolls back or crashes (`SettledNeverReused`) |
| `synccore_safety` | pass | roots are logged, with rows that cover them unless they are being remembered again, and the logged states form a chain (`RootsLogged`); nothing unknown is reported, and everything learnt is, outside the three overlaps with `localStateChanged` (`ReportsComplete`) |
| `synccore_live` | pass | sync Interests go on for as long as the process lives (`KeepsSendingInterests`) |
| `fetcher` | pass | the pipeline counter equals the outstanding Interests, also when a restart tears the loop, and otherwise nothing on its way is requested twice (`PipelineExact`), the in-order mark skips no number and the finish callback is called once (`FinishSound`), a fetch that loses nothing completes (`CompletesWithoutLoss`), and the fetcher implements `FetcherLife` (`ImplementsLife`) |
| `fetchmanager` | pass | slots are exact and a removed fetcher is quiet (`Accounting`); every fetch is started (`QueuedIsStarted`), leaves the list when it has completed (`CompletedLeaves`), and keeps trying the broadcast hint (`BroadcastIsTried`) |
| `actionlog` | pass | FileState shows the winner of the logged actions whatever their order, with two exceptions that the history variables pin down (`ShowsWinner`, `torn`); own files stay editable and every local number names an action unless the process died (`LocalActionsSound`, `halted`, `burnt`) |
| `dispatcher` | pass | nothing the dispatcher wrote is published as an edit and no file is assembled in part (`FolderSound`), edits and reported actions come to be logged (`EditIsLogged`, `ReportedIsLogged`), shown updates come to be assembled (`ShownIsAssembled`) |
| `fswatcher` | pass | known files come to be watched again, whatever the two threads do with their paths (`TableSound`), changes are reported (`ChangeIsReported`), files that are gone leave the table (`GoneLeavesTable`) |
| `contentserver` | pass | an answer is what was asked for (`AnswersSound`), the locator is a prefix that is served and the one discovered last (`LocatorSound`), what is stored is served (`AskedIsAnswered`) |
| `stateserver` | pass | a listing misses nothing (`ListingIsComplete`) and ends (`ListingEnds`), a restore command is answered once and with the version asked for, whole unless the segments of that very version are missing (`RestoreSound`) |
| `ccnxwrapper` | pass | closures outlive jobs and shutdown leaves no thread behind (`NothingDangles`), filters are those last set (`FilterIsWanted`), published objects are whole (`PublishedIsWhole`), filters are served again after a reconnection and pending Interests end in a callback (`ReconnectionHeals`), shutdown returns (`ShutdownReturns`) |

Where a property carries an exception (`overlapped`, `torn`, `halted`, `burnt`,
`collided`, `stray`, `stale`, `shared`, `skipped`, `unseen`, `dropped`, `raced`, `refused`,
`reunited`, `abandoned`), the exception is a history variable that is set by the
one interleaving or crash that breaks the plain statement, so the run also shows
that nothing else does. A passing run does not show that the exception happens.
These are defects of the code, and so are the following, which the models contain:

* A one-time task that is rescheduled, or added anew, while its callback runs is
  deleted when the callback returns (`one-time-task.cc:38`, against
  `scheduler.h:99`).
* The hash and the rows of one entry of the state log may describe different
  states (`sync-log.cc:178`, against `sync-log.h:68`).
* `localStateChanged` can absorb what `handleStateData` has recorded and not yet
  diffed, and the callback never hears of it (`sync-core.cc:371`); a root that is
  remembered again is without rows for a moment, and a difference taken then reports
  too much or nothing (`sync-log.cc:158`).
* A local change can stay unpublished until the next one: its request is dropped
  while the previous `localStateChanged` runs, or `handleStateData` absorbs it
  (`sync-core.cc:162`, against the comment above it).
* A re-expressed Interest is bound to the next number, so its segment is
  delivered under another one (`fetcher.cc:281`).
* `FillPipeline` and `RestartPipeline` race for `m_minSendSeqNo`: a number may be
  taken for requested that never is (`fetcher.cc:104`).
* A fetcher whose last Interest is answered after others were given up stays
  active with nothing outstanding and keeps its slot (`fetcher.cc:254`).
* A fetcher can be restarted between `m_active = false` and `m_timedwait = true`;
  it then keeps a slot for good (`fetcher.cc:206`).
* After a restart `FillPipeline` may request what has been counted in order
  meanwhile; with five segments the fetch can then finish twice, which takes one
  slot too many off the manager's count (`fetcher.cc:98`).
* Rows of the task table are not deleted when a fetch is done
  (`fetch-task-db.cc:105`), and no fetch is resumed after a restart: the start ends the process when the table
  has a row (`fetch-task-db.cc:122`).
* The segment database is closed when the first of two devices' copies of a
  content is complete; later segments find none (`dispatcher.cc:479`).
* A file found on disk is not marked complete (`dispatcher.cc:504`), and a
  remote update of a complete row leaves it complete (`file-state.cc:73`); an update
  that comes during an assembly is marked complete with the old content
  (`dispatcher.cc:522`).
* A file that is removed while it is assembled, or restored, ends the process
  (`dispatcher.cc:517`, `state-server.cc:524`).
* A change of a known file between `removePath` and `addPath` is never noticed
  (`fs-watcher.cc:174`).
* A scan for removed files at the root of the folder finds none, because its
  pattern is `/%` (`fs-watcher.cc:323`).
* An error during a restore command is answered, and then the outcome as well
  (`state-server.cc:509`).
* `shutdown` of a disconnected wrapper does not join its thread
  (`ccnx-wrapper.cpp:177`), and a second `setInterestFilter` is undone by a
  reconnection (`ccnx-wrapper.cpp:592`).

All runs pass, so none of them exhibits a defect: they either exclude it or say
nothing about it. For the first seven of the list TLC finds a counterexample when the plain
statement is checked in place of the properties of the run:

| Run | Plain statement, which TLC refutes | What the passing run claims instead |
|---|---|---|
| `scheduler` (under `Spec`) | `[][(ExecutorReturn \/ ExecutorDeregister) => (granted \cap cancelled') \subseteq cancelled]_vars`: the end of a callback takes no run away that was granted meanwhile | `GrantedWillRun`, and the theorem `GrantsAreKept`, count such a task as deleted, so they do not promise what `scheduler.h:99` says |
| `synclog` | `\A i \in States : ~Unfinished(i) => RowsOf(i) = {[state_id \|-> i, device \|-> d, seq_no \|-> db.state_hash[i][d]] : d \in {e \in Device : db.state_hash[i][e] # Absent}}`, also if `~collided` is assumed | the rows are not behind the hash (`RowsCoverHash`); they may be ahead of it |
| `synccore_safety` | `face.pc = "idle" => \A d \in Remotes : 1..nodes[d] \subseteq reported[d]` | the same unless `overlapped` |
| `synccore_live` (`MaxLocalSeq` and `MaxSeq` 2, `NoPeerHash`) | `[](nodes[Local] > published => <>(published = nodes[Local] \/ crashed))` | nothing about publication being prompt, or happening at all |
| `fetcher` | `\A i \in BagToSet(pending) : i.seqno = i.name`, also if `reexpressed = 0` is assumed | `FinishSound` speaks of the numbers segments were delivered under, not of their contents |
| `fetcher` | `[]<>(~m_active)` | completion only of a fetch that loses nothing; the stall is named in `FetcherLife` |

### Bounds

* `scheduler`: two clients, one one-time and one periodic tag, a queue of two.
  One task per tag is enough for the races of add, delete, reschedule, fire and
  return; several tasks of one tag are in the proofs (any number).
* `synclog`: two devices and numbers up to 1 or 2, enough for an insert and an
  update of SyncNodes in each gap of one `RememberStateInStateLog`, and for a
  second one after a rollback.
* `synccore_*`: this device and one peer, of which messages tell two numbers or its
  deletion (`Told`; number 0 is left out, as it reports nothing). The races are
  between two threads and three values of the root (old, recorded, remembered), so one
  local number suffices; a second one of the peer lets a state be remembered while
  another is. `synccore_live` leaves the peer's data out
  and keeps its Interests: the tasks, and not the states, are its subject.
* `fetcher`: five segments and a pipeline of two, so that a gap, a full pipeline
  and a remainder coexist, and a restart can request again what is counted before
  the last segment is (four are too few for that); two re-expressions, two starts.
* `fetchmanager`: two fetches of one name and one slot, so that they compete, and
  complete and are recorded under one key; a pause of two doublings; one end too
  many per fetcher, after which the counter is wrong for good. The liveness
  properties need no second slot; that the accounts hold with more is proved.
* `dispatcher`: one file, of which one device publishes a content of two segments and
  then one of one segment, and another device the first content again, in a version
  that ties with the second. Each world takes some of these: the same content from both
  devices, or two contents one after the other (so that a range starts above 0, and an
  update comes during an assembly); with no conversions, with printed hashes only, with
  all but `sized`, and with all. The user's edits and the reports are three together.
* `fswatcher`: a file in the folder and one in a subfolder, three changes, one
  restart.
* `contentserver`: this device, whose name begins with the broadcast domain, and
  a peer, whose name is the rest of it, with the same content; two Interests, one prefix assigned, which the
  discovery may lose and find again, one stop.
* `stateserver`: three actions of two devices on two files, one in a folder, in pages
  of one row; both devices have stored the same content, so that one of them may be
  whole and the other not; one restore command, one removal. The worlds take the
  listings and the restore, and the conversions, in turn; one has both.
* `ccnxwrapper`: one prefix with two callbacks, one Interest sent by `get`, two
  calls about filters, one loss of the connection, `shutdown` and the destructor.
* `actionlog`: two files (the count of one is disturbed by the other), three
  devices with this one in the middle of the order of names, remote versions 0
  and 1 so that local updates and deletions tie with them both ways, two local
  numbers, one crash.

`CHECK_DEADLOCK FALSE` appears where the bounds, or the end of the fetch or of
the process, leave nothing to do.

### Fairness

* The executor and the face thread are single threads in a loop: weak fairness
  of their steps.
* A timer that stays armed fires: libevent's loop runs in its own thread. It is
  strong fairness per tag, since a task may be rescheduled, which disarms and
  arms it, any number of times, and the code does not do so faster than time
  passes.
* A client between the two halves of `addTask` goes on (weak).
* SyncCore: `localStateChanged` gets `m_stateUpdateMutex` in the end, however often
  `handleStateData` takes it in between (strong).
* Fetcher: every Interest is answered or times out, which ndn-cxx guarantees;
  jobs are executed; the period without activity passes if there is none.
  Nothing assumes that an Interest is answered: `CompletesWithoutLoss` excludes
  the runs in which one was given up or re-expressed (`lost`).
* FetchManager: its scheduler and executor run; a pause that stays set passes and
  a started fetch fails, completes or stalls, also if it is restarted in between
  (strong). The restart after a stop is a step of its own that is taken.
* Dispatcher: the watcher reports a change, the executor works off its queue and
  the fetchers, whose part `fetchmanager` is, deliver what they were asked for.
* FsWatcher, ContentServer, StateServer: the thread of the scheduler or executor
  goes on.
* CcnxWrapper: the loop, the executor and a begun shutdown go on; a pending
  Interest is answered or its lifetime passes (strong, since `ccn_run` often
  finds the connection gone). That the daemon comes back is not assumed.
* Peers, clients, users, stops and crashes are never assumed to happen.

## 4. Proofs

TLAPS checks every theorem for all values of the constants that satisfy the named
assumptions. They ask no more than this: bounds are natural numbers, positive where
a queue, page or pool would otherwise be empty; this device is one of the devices,
which are finitely many (SyncLog); the segments form a range and the pipeline holds
at least one; `UintSize` exceeds the number of slots; SyncCore's tags are its own; a
peer numbers its actions once, raises the version of a file with each, and gives an
update the hash of its content (ActionLog); what peers publish in Dispatcher are
updates of the others' devices, each content has a segment, and no content is the
torn or the padded one; a file of FsWatcher is in the root or in a subfolder, and the root is
no file; names of ContentServer are sequences of components, with requests closed under
their readings (section 2); files of StateServer have names, and the table of files
lists them. Bounds such as `MaxRestart` or `MaxCrash` are arbitrary, so the
theorems hold however often those things happen.

| Theorem | Property | Module |
|---|---|---|
| `PeriodicNeverDies`, `RunOncePerGrant`, `GrantsAreKept`, `ClientsTypeCorrect` | `PeriodicAlive`, `OneRunPerGrant`, `GrantedWillRun`, `ClientsTypeOK` | `Sync_proofs` (SchedulerClients) |
| `RootsAreLogged`, `ReportsAreComplete`, `TypeCorrect` | `RootsLogged`, `ReportsComplete`, `TypeOK` | `Sync_proofs` (SyncCore) |
| `EntriesAreSound`, `SettledAreUnique` | `EntriesSound`, `SettledNeverReused` | `Sync_proofs` (SyncLog) |
| `PipelineIsExact`, `FinishIsSound` | `PipelineExact`, `FinishSound` | `Fetcher_proofs` |
| `FetcherImplementsLife` | `ImplementsLife` (refinement) | `Fetcher_proofs` |
| `AccountsAreKept` | `Accounting` | `FetchManager_proofs` |
| `WinnersAreShown`, `LocalActionsAreSound` | `ShowsWinner`, `LocalActionsSound` | `Content_proofs` (ActionLog) |
| `AnswersAreSound`, `LocatorsAreSound` | `AnswersSound`, `LocatorSound` | `Content_proofs` (ContentServer) |
| `FolderIsSound` | `FolderSound` | `Dispatcher_proofs` |
| `WatchedTableIsSound` | `TableSound` | `FsWatcher_proofs` |
| `ListingsAreComplete`, `RestoresAreSound` | `ListingIsComplete`, `RestoreSound` | `StateServer_proofs` |
| `NothingIsFreedTooEarly`, `FiltersAreWanted`, `PublishedAreWhole` | `NothingDangles`, `FilterIsWanted`, `PublishedIsWhole` | `CcnxWrapper_proofs` |

With these, every invariant and every action property of the runs is a theorem.

Hardly one of the properties is inductive as it stands. Each component has
a conjunction `IInv` (`ClientsIInv`, `LogIInv`, `ServerIInv`) that is; its parts, and
why they are needed:

* SchedulerClients. `PeriodicAlive` is inductive together with the type
  invariant; `OneRunPerGrant` speaks of the moment a callback is entered, so it
  needs `JobsAreGranted`: whatever could still enter its callback, an armed timer
  or a queued job whose flag is clear, has an unused grant. `GrantedWillRun` is the
  converse and needs `GrantsHold`: a task that waits for its run has a clear flag
  also while its timer is still pending, for the job that the timer queues would
  otherwise do nothing. The lemmas that each operation of the scheduler keeps its
  structures well formed serve SyncCore as well.
* SyncCore. `StoreInv`; its part `Covered` says, for each point of
  `handleStateData`, which state has been reported up to: the nodes when idle, the
  root while messages are applied, the old hash after it was read, and that root
  and new hash equal the nodes up to the difference. `RowsInv` ties rows to hashes:
  they are not behind except where a thread is between its two statements, only one
  thread is (`WrittenAlone`), and unless `overlapped` they are not ahead of a remote
  device's number (`NotAhead`), so a difference from rows is one from hashes. The lemma `FetchedRange` says
  that the difference of two states covers exactly the numbers between them.
* SyncLog. `Sound` is asked of both the tables as the connection sees them
  and the saved ones, since a rollback or a crash makes the latter the former.
  `Transaction` relates the two while `RememberStateInStateLog` is under way, per
  statement: the state that was inserted has no rows yet, and the row id read is
  its own unless another thread's INSERT came between (`collided`). `Settled` keeps
  the settled numbers within both copies of SyncNodes.
* Fetcher. `OnTheWay` counts copies of Interests in a bag and answers in a
  queue, so most lemmas are about cardinalities of bags and of positions in
  sequences. `FillAt` and `OneTurn` say what each point of the loop of `FillPipeline`
  knows of `m_minSendSeqNo`, the latter only while no turn was torn. `ExactOnTheWay`
  ties the segment set to what is on its way, and to the number that the loop has taken
  and not yet requested, as long as nothing was re-expressed or torn. A fetch finishes once because of `Needed`: once an Interest was
  re-expressed under the next number there is a first number (`FirstLost`) that can
  no longer be answered, below it everything is requested once, and when all is
  received nothing is on its way. The refinement maps each handler to a step of
  FetcherLife or a stutter, one lemma for each.
* FetchManager. A life has at most one completion that the manager has not
  been told of (`CompletesOnce`), the list of fetches has no duplicates
  (`Distinct`), and whatever a `TimedWait` task will
  delete is done and told (`WaitsAreQuiet`).
* ActionLog. `Shows` states what FileState shows of each file in terms of
  the action that no other overrules; it needs that this order is total on logged
  actions (`Rows`, with the lemmas on `Overruled`), that the action whose
  `UpdateFile` is under way wins and is not committed (`Applying`), and when log and
  committed rows are the same (`Transaction`). `JobSound` and `OwnRows` follow a
  local action from its number to `SetFileComplete`.
* Dispatcher. That an echo is not published needs to know why each file is as it is
  on disk (`DiskKnown`): the user wrote it, or it is what a complete row says, or the
  assembly has it in hand and has not marked it yet (`InHand`), or it is one of the
  exceptions. That nothing is assembled in part needs more, because
  `DoesExist` is true with one segment: where one segment of a content is committed all
  are (`SavedWhole`), since the database is only closed, which commits, when the last
  has arrived; a content under way has an open database (`OpenUnderWay`), what a fetch
  no longer lacks is stored or queued (`FetchedArrived`), and a content of which
  something has arrived has all of it or a fetch that goes on (`GroupArrived`). All
  of this stops once a database was closed under another fetch (`shared`). That the
  version of a local action is a number needs the maximum of a finite set of numbers
  to be one of them, which is proved along the inclusion of finite sets.
* FsWatcher. `TableSound` is nearly inductive: it counts a file that a thread has in
  hand as attended to, except at the look into the table, after which nothing brings its
  watch back (`RowsCovered`). The case that needs care is the other thread's `addPath`
  or end of the call while the path is out. It needs `InFolder`, a file on disk is in a
  folder that exists, because a scan of a folder that is gone visits nothing, and
  `NoneExcluded`.
* ContentServer. A task reads an Interest under the prefix of its filter, and has a
  name of this device or one that is left after the hint is taken off (`Reading`, in
  `TasksInv`). The answer is then for the Interest because the two ways to split a path
  into a hint and a device give the same components (`PrefixAndRest`,
  `PrefixesOfOneName`). `PrefixInv` states the locator exactly, as a function of the prefix
  seen last; the two parts of `LocatorSound` follow from it.
* StateServer. `ListInv` says that a row that was there when the listing began was
  seen, or that as many selected rows come before it as pages put so far hold
  (`ToCome`). An insertion into the log adds rows before it and takes none away
  (`Before` is a cardinality, so the lemmas count sets), and a page moves the mark
  past exactly the rows it shows. For the restore, a command is queued at most once
  and answered only when it has left the queue (`JobsInv`, `RestoreInv`), the version
  that was looked up stays in the log until the command returns, and at its last stage
  the file on disk is what the answer may say, or gone (`InHand`).
* CcnxWrapper. `ClosureOutlivesJobs` needs that the job that frees a
  closure is behind all others that point to it and occurs once (`FreedLast`);
  `FilterIsWanted` that a filter is recorded exactly when the last call set one
  (`RecordIsLatest`); `PublishedIsWhole` that an empty object was made
  offline (`EmptyIsOffline`).

TLC checked each of these invariants on the instance of the run before it was proved.
Two of the proofs failed at first, and TLC then found the reason on larger
instances: with five segments a restarted fetch may finish twice, and with two
slots a fetcher restarted before its timed wait could complete a second time in the
model, which the code rules out. `Needless`, `MayEnd` and the bounds of `fetcher`
come from there.

Only model-checked are the properties under fairness (`PeriodicKeepsRunning`,
`KeepsSendingInterests`, `CompletesWithoutLoss`, `QueuedIsStarted`,
`CompletedLeaves`, `BroadcastIsTried`, `EditIsLogged`, `ReportedIsLogged`,
`ShownIsAssembled`, `ChangeIsReported`, `GoneLeavesTable`, `AskedIsAnswered`,
`ListingEnds`, `ReconnectionHeals`, `ShutdownReturns`), since liveness and ENABLED
are outside the prover's reach.

## 5. Plan

1. *Done*: the modules of section 2, the runs of section 3, the proofs of
   section 4.
2. `SyncNet`: several devices exchanging digests and actions. In the code as it
   is no reply is ever put on a face, so there is no exchange to model; the module
   waits for the port.

## 6. Not modelled

* The HTTP server (a copy of the Boost.Asio example), the GUI, the command line
  tools, the ad hoc network helper, packaging, and json_spirit (third party).
* Of CCNx: the verifier and certificates, which nothing calls any more, the
  deregistration of the discovery, and the encodings of names, selectors and content objects.
* ndn-cxx, SQLite, libevent, Boost and Qt are external: an Interest is answered
  or times out, a statement is atomic and its connection is a mutex, a timer
  fires once, a watched path that changes raises a signal.
* Exceptions of a failing `sqlite3_prepare`, except where SyncLog throws
  deliberately, and data races inside containers (`m_objectDbMap`).
* The read transaction that an ObjectDb in the cache of ContentServer keeps open: its
  effect on what the dispatcher commits meanwhile, and on what is read, is left out.
* In CcnxWrapper, the state of `get` on its caller's stack (`ccnx-wrapper.cpp:776-780`),
  to which a callback points that may come after a timeout.
* The JSON that StateServer answers, beyond which rows a page has and whether
  more follow.
* `updateLocalState` has no caller but the tests.
