----------------------------- MODULE StateServer -----------------------------
(***************************************************************************)
(* The server of the local user interface (src/src/state-server.cc) and    *)
(* the lookups in the action log and the file state that it uses.          *)
(*                                                                         *)
(* A client lists the actions, or the files, page by page; another asks    *)
(* for an old version of a file.  m_executor answers one request after the *)
(* other.  Meanwhile actions are logged, files come and go, and the user   *)
(* removes files from the folder.                                          *)
(*                                                                         *)
(* Conversions of the port that are unfinished are those of Dispatcher,    *)
(* "sized" among them: a segment is stored with bytes after it that are    *)
(* not the file's.  There are two more: a component is taken for a file    *)
(* name in its escaped form, in which a path has no slash ("names"), and   *)
(* the binary name of a device is parsed as a URI ("devices").             *)
(***************************************************************************)
EXTENDS Naturals, Sequences, SequencesExt, FiniteSets

CONSTANTS
    Action,     \* the actions that may be logged
    File,       \* the files, as paths, in the order of their names
    Folder,     \* the folders that are listed, <<>> for the shared folder
    Page,       \* number of rows of an answer, 10 in the code
    Restore,    \* the restore commands: file, version, and hash or NoHash
    NoHash,
    Worlds,     \* what works, and which requests are sent
    MaxPage,    \* bound on the pages of a listing
    MaxRemove   \* bound on files that are removed

Conversions == {"printed", "extracted", "keys", "sized", "names", "devices"}
Files == Range(File)

\* The Interests that registerPrefixes sets a filter for.
Registered == {"actions", "file", "files", "restore"}

ASSUME StateServerAssumption ==
    /\ File \in Seq(Files)
    /\ \A a \in Action : a.file \in Files /\ a.version \in Nat
    /\ <<>> \notin Files /\ \A d \in Folder : \E f \in Files : IsPrefix(d, f)
    /\ Page \in Nat \ {0}
    /\ \A r \in Restore : r.file \in Files
    /\ Worlds \subseteq [port : SUBSET Conversions, asked : SUBSET Registered]
    /\ MaxPage \in Nat /\ MaxRemove \in Nat

VARIABLES
    port,       \* the conversions that work
    asked,      \* bound: the requests that are sent
    up,         \* the process runs
    log,        \* the actions, latest time first
    shown,      \* files in the file state
    disk,       \* contents of the folder
    whole,      \* objects whose segments are all in the store
    part,       \* history: objects of which the store had a part only
    jobs,       \* queue of m_executor
    found,      \* the version that cmd_restore_file_Execute is restoring
    client,     \* what the listing client has seen
    replies,    \* replies to each restore command
    removals,
    raced       \* history: commands whose file was removed before it was compared

data == <<log, shown, whole, part>>
vars == <<port, asked, up, data, disk, jobs, found, client, replies, removals, raced>>

Idle == [list |-> "none", folder |-> <<>>, page |-> 0, seen |-> {}, begun |-> {}, gone |-> FALSE, more |-> FALSE]
NoFile == [pc |-> "idle", cmd |-> [file |-> <<>>]]

\* The contents of an action in the store: it is kept for each device.
Object(a) == <<a.hash, a.dev>>

Init ==
    /\ \E w \in Worlds : port = w.port /\ asked = w.asked
    /\ up = TRUE
    /\ log = <<>> /\ shown = {} /\ whole = {} /\ part = {}
    /\ \E h \in {"other"} \cup {a.hash : a \in Action} : disk = [f \in Files |-> h]
    /\ jobs = <<>> /\ found = NoFile /\ client = Idle
    /\ replies = [r \in Restore |-> <<>>]
    /\ removals = 0 /\ raced = {}

-----------------------------------------------------------------------------
(* The rest of the device.                                                  *)

\* An action is logged; that of a peer may be older than others.
Log(a, k) ==
    /\ up /\ a \notin Range(log) /\ k \in 1..(Len(log) + 1)
    /\ log' = InsertAt(log, k, a)
    /\ shown' = shown \cup {a.file}
    /\ UNCHANGED <<port, asked, up, whole, part, disk, jobs, found, client, replies, removals, raced>>

\* Segments of an object are stored: the last that were missing, or some.
Fetched(o) ==
    /\ up /\ "restore" \in asked /\ o \notin whole
    /\ \/ whole' = whole \cup {o} /\ UNCHANGED part
       \/ o \notin part /\ part' = part \cup {o} /\ UNCHANGED whole
    /\ UNCHANGED <<port, asked, up, log, shown, disk, jobs, found, client, replies, removals, raced>>

\* The user removes a file; its row goes when the deletion is logged.
UserRemove(f) ==
    /\ removals < MaxRemove /\ disk[f] # NoHash
    /\ removals' = removals + 1
    /\ disk' = [disk EXCEPT ![f] = NoHash]
    /\ raced' = IF found.pc = "compare" /\ found.cmd.file = f THEN raced \cup {found.cmd} ELSE raced
    /\ UNCHANGED <<port, asked, up, data, jobs, found, client, replies>>

DeleteRow(f) ==
    /\ f \in shown /\ disk[f] = NoHash
    /\ removals < MaxRemove
    /\ removals' = removals + 1
    /\ shown' = shown \ {f}
    /\ client' = [client EXCEPT !.gone = TRUE]
    /\ UNCHANGED <<port, asked, up, log, whole, part, disk, jobs, found, replies, raced>>

-----------------------------------------------------------------------------
(* Listings.                                                                *)

Named(path) == Len(path) > 1 => "names" \in port

DirectoryName(f) == Front(f)
IsDirPrefix(d, dir) == IsPrefix(d, dir)
IsBelow(d, f) == d = <<>> \/ (Named(d) /\ IsDirPrefix(d, DirectoryName(f)))

\* The rows that a query selects, by their places: the actions below a folder,
\* latest first, those of the first file, and the files below a folder, ordered
\* by name.
ActionsInFolder(d) == {k \in DOMAIN log : IsBelow(d, log[k].file)}
ActionsForFile == {k \in DOMAIN log : log[k].file = File[1] /\ Named(log[k].file)}
FilesInFolder(d) == {k \in DOMAIN File : File[k] \in shown /\ IsBelow(d, File[k])}

Rows(list, d) ==
    CASE list = "actions" -> ActionsInFolder(d)
      [] list = "file" -> ActionsForFile
      [] list = "files" -> FilesInFolder(d)

\* The rows at some places of a table, and how many selected rows come before one.
At(list, places) == {(IF list = "files" THEN File ELSE log)[k] : k \in places}
Before(rows, k) == Cardinality({j \in rows : j < k})

\* Mutant: the limit is not one more than what fits.
PageOfShort(rows, n) == {k \in rows : Before(rows, k) \in n * Page..(n * Page + Page - 2)}

\* LIMIT and OFFSET.
PageOf(rows, n) == {k \in rows : Before(rows, k) \in n * Page..(n * Page + Page - 1)}

\* Mutant: there is always another page.
MoreAlways(rows, n) == TRUE

\* A row more than fit is asked for.  When the rows just fit the counter stops
\* at the same value, and an empty page follows.
More(rows, n) == Cardinality(rows) >= (n + 1) * Page

\* The client begins to list; each page but the last makes it ask for the next.
Begin(list, d) ==
    /\ up /\ list \in asked /\ client.list = "none"
    /\ client' = [Idle EXCEPT !.list = list, !.folder = d, !.begun = At(list, Rows(list, d))]
    /\ jobs' = Append(jobs, [do |-> "list"])
    /\ UNCHANGED <<port, asked, up, data, disk, found, replies, removals, raced>>

InfoActions == Begin("file", <<>>) \/ \E d \in Folder : Begin("actions", d)
InfoFilesFolder == \E d \in Folder : Begin("files", d)

\* The visitors: each row of the page is added to the answer.
FormatActionJson(page) == client.seen \cup page
FormatFilestateJson(page) == client.seen \cup page

Listed == Rows(client.list, client.folder)
NextPage == At(client.list, PageOf(Listed, client.page))

\* One page is looked up and put; seen is what the client has after it.
ListPage(seen) ==
    /\ up /\ jobs # <<>> /\ Head(jobs).do = "list" /\ found = NoFile
    /\ client.page < MaxPage
    /\ LET more == More(Listed, client.page)
       IN  /\ client' = [client EXCEPT !.seen = seen, !.page = @ + 1, !.more = more]
           /\ jobs' = IF more THEN Append(Tail(jobs), [do |-> "list"]) ELSE Tail(jobs)
    /\ UNCHANGED <<port, asked, up, data, disk, found, replies, removals, raced>>

InfoActionsExecute == client.list \in {"actions", "file"} /\ ListPage(FormatActionJson(NextPage))
InfoFilesFolderExecute == client.list = "files" /\ ListPage(FormatFilestateJson(NextPage))

-----------------------------------------------------------------------------
(* Restoring a file.                                                        *)

CmdRestoreFile(r) ==
    /\ up /\ "restore" \in asked
    /\ replies[r] = <<>> /\ [do |-> "restore", cmd |-> r] \notin Range(jobs)
    /\ found.cmd # r
    /\ jobs' = Append(jobs, [do |-> "restore", cmd |-> r])
    /\ UNCHANGED <<port, asked, up, data, disk, found, client, replies, removals, raced>>

Reply(r, what) == [replies EXCEPT ![r] = Append(@, what)]

\* is_prefix of the hash asked for, which may be empty, and that of a row.
HashMatches(r, a) == r.hash # NoHash => "extracted" \in port /\ r.hash = a.hash

\* LookupAction of a file, a version and, perhaps, a hash.
LookupAction(r) ==
    {a \in Range(log) : /\ a.file = r.file /\ Named(a.file) /\ a.version = r.version
                        /\ a.hash # NoHash /\ HashMatches(r, a)}

\* cmd_restore_file_Execute looks the version up and sees whether there is a file.
RestoreLookup ==
    /\ up /\ jobs # <<>> /\ Head(jobs).do = "restore" /\ found = NoFile
    /\ LET r == Head(jobs).cmd
       IN  IF LookupAction(r) = {}
           THEN /\ replies' = Reply(r, "not found")
                /\ jobs' = Tail(jobs)
                /\ UNCHANGED found
           ELSE /\ \E a \in LookupAction(r) :
                     found' = [pc |-> "compare", cmd |-> r, item |-> a, exists |-> disk[a.file] # NoHash]
                /\ UNCHANGED <<replies, jobs>>
    /\ UNCHANGED <<port, asked, up, data, disk, client, removals, raced>>

Goes(pc) == found' = [found EXCEPT !.pc = pc] /\ UNCHANGED jobs
Returns == found' = NoFile /\ jobs' = Tail(jobs)

\* Mutant: it goes on when the file is there already.
RestoreCompareOn ==
    /\ up /\ found.pc = "compare"
    /\ replies' = IF disk[found.item.file] = found.item.hash THEN Reply(found.cmd, "exists") ELSE replies
    /\ Goes("write")
    /\ UNCHANGED <<port, asked, up, data, disk, client, removals, raced>>

\* The file that was seen is compared, contents, time and mode; the user may have
\* changed the latter two.  If it has been removed since, that is an error to
\* which it replies, and goes on, or the file has none of the three.
RestoreCompare ==
    /\ up /\ found.pc = "compare"
    /\ LET there == disk[found.item.file]
       IN  \/ /\ found.exists /\ there = found.item.hash
              /\ replies' = Reply(found.cmd, "exists")
              /\ Returns
           \/ /\ found.exists /\ there = NoHash
              /\ replies' = Reply(found.cmd, "failed")
              /\ Goes("write")
           \/ UNCHANGED replies /\ Goes("write")
    /\ UNCHANGED <<port, asked, up, data, disk, client, removals, raced>>

\* Mutant: the segments of all devices are counted.
ObjectsToLocalFileAny(a) ==
    [ok |-> {"keys", "devices"} \subseteq port /\ \E o \in whole \cup part : o[1] = a.hash,
     content |-> IF Object(a) \notin whole THEN "torn" ELSE IF "sized" \in port THEN a.hash ELSE "padded"]

\* objectsToLocalFile.  DoesExist is true when some segments of the device are in
\* the store; the segments are written up to the first that is missing.
ObjectsToLocalFile(a) ==
    [ok |-> {"keys", "devices"} \subseteq port /\ Object(a) \in whole \cup part,
     content |-> IF Object(a) \notin whole THEN "torn" ELSE IF "sized" \in port THEN a.hash ELSE "padded"]

\* The file is assembled.  Without its digits a hash has no path: substr throws.
RestoreWrite ==
    /\ up /\ found.pc = "write"
    /\ LET a == found.item
           object == ObjectsToLocalFile(a)
       IN  \/ /\ "printed" \notin port
              /\ up' = FALSE /\ Returns
              /\ UNCHANGED <<disk, replies>>
           \/ /\ "printed" \in port /\ object.ok
              /\ disk' = [disk EXCEPT ![a.file] = object.content]
              /\ Goes("stamp")
              /\ UNCHANGED <<up, replies>>
           \/ /\ "printed" \in port /\ ~object.ok
              /\ replies' = Reply(found.cmd, "error") /\ Returns
              /\ UNCHANGED <<up, disk>>
    /\ UNCHANGED <<port, asked, data, client, removals, raced>>

\* Time and mode are set, and it replies; nothing catches the error if the file
\* has been removed since it was written.
RestoreStamp ==
    /\ up /\ found.pc = "stamp"
    /\ LET there == disk[found.item.file]
       IN  IF there = NoHash
           THEN up' = FALSE /\ UNCHANGED replies
           ELSE replies' = Reply(found.cmd, there) /\ UNCHANGED up
    /\ Returns
    /\ UNCHANGED <<port, asked, data, disk, client, removals, raced>>

\* cmd_restore_file_Execute.
RestoreExecute == RestoreLookup \/ RestoreCompare \/ RestoreWrite \/ RestoreStamp

Execute == InfoActionsExecute \/ InfoFilesFolderExecute \/ RestoreExecute

Next ==
    \/ \E a \in Action, k \in 1..(Len(log) + 1) : Log(a, k)
    \/ \E a \in Action : a.hash # NoHash /\ Fetched(Object(a))
    \/ \E f \in Files : UserRemove(f) \/ DeleteRow(f)
    \/ InfoActions \/ InfoFilesFolder
    \/ \E r \in Restore : CmdRestoreFile(r)
    \/ Execute

Spec == Init /\ [][Next]_vars

\* The executor works off its queue.
FairSpec == Spec /\ WF_vars(Execute)

-----------------------------------------------------------------------------
\* The last page has been put.
Finished == client.list # "none" /\ client.page > 0 /\ ~client.more

\* The state is well formed; the job of a restore stays at the head of the queue
\* until cmd_restore_file_Execute has returned, so no other one runs meanwhile.
TypeOK ==
    /\ port \subseteq Conversions /\ asked \subseteq Registered /\ up \in BOOLEAN
    /\ Range(log) \subseteq Action /\ IsInjective(log)
    /\ shown \subseteq Files /\ whole \cup part \subseteq {Object(a) : a \in Action}
    /\ DOMAIN disk = Files
    /\ found # NoFile =>
         /\ jobs # <<>> /\ Head(jobs) = [do |-> "restore", cmd |-> found.cmd]
         /\ found.pc \in {"compare", "write", "stamp"}
    /\ Cardinality({k \in DOMAIN jobs : jobs[k].do = "list"}) <= 1
    /\ DOMAIN replies = Restore /\ removals \in 0..MaxRemove /\ raced \subseteq Restore

\* A listing that has come to its end misses nothing that was there when it
\* began, although rows are inserted before and between its pages.  The exception
\* is a listing of files during which a row was deleted: the rows behind it move
\* up, and the first of the next page is skipped.
ListingIsComplete ==
    Finished => client.begun \subseteq client.seen \/ (client.list = "files" /\ client.gone)

\* A listing comes to its end: the flag for more rows, which counts one too many,
\* costs an empty page but never sends the client on for ever.
ListingEnds == (up /\ client.list # "none") ~> (~up \/ Finished)

\* A restore command is answered once (cmd_restore_file_Execute), unless the file was removed while it was compared:
\* the error is answered, and then the outcome as well.
AnsweredOnce ==
    \A r \in Restore : Len(replies[r]) > 1 => r \in raced

\* What a restore command reports to have restored (objectsToLocalFile) is the
\* version that was asked for.  It is cut only if the store had a part only of what
\* the device of that version has stored, whatever it has of the same contents
\* from other devices; and it has bytes after its segments that are not its own
\* as long as segments are stored with such bytes.
RestoredIsAsked ==
    \A r \in Restore : \A k \in DOMAIN replies[r] :
        LET said == replies[r][k]
        IN  \/ said \in {"not found", "failed", "error", "exists"}
            \/ \E a \in Range(log) :
                  /\ a.file = r.file /\ a.version = r.version
                  /\ \/ said = a.hash
                     \/ said = "torn" /\ Object(a) \in part
            \/ said = "padded" /\ "sized" \notin port

\* A restore is sound: no other job runs between its lookup and its answer, the
\* answer is given once, and it tells the truth about the file on disk.
RestoreSound == TypeOK /\ AnsweredOnce /\ RestoredIsAsked

=============================================================================
