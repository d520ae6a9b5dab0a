------------------------------ MODULE Explorer ------------------------------
(***************************************************************************)
(* The file explorer of the browser (atlas.js): the listing with its       *)
(* search and its pages, the details of an entry, and the jobs that work   *)
(* on files: an upload, a download, an operation on a directory.  Access   *)
(* to it comes and goes (WebSession): Lock and Unlock happen at any time,  *)
(* also when a request is refused because the session is over.             *)
(*                                                                         *)
(* A request that reads is answered in one step, from the files as they    *)
(* are then.  One that writes (the commit of an upload, an operation on a  *)
(* directory) is put on the wire, is served later or never, and may be     *)
(* served after the page has stopped waiting.  What a promise does right   *)
(* after its abort happens within the step that aborts it.                 *)
(***************************************************************************)
EXTENDS Integers, Sequences, FiniteSets, FiniteSetsExt

CONSTANTS
    Home,        \* the directory each name is in; 0 is the root
    Folders,     \* the names that are directories
    Matches,     \* the files a search finds
    PageSize,    \* entries of a page
    Null,        \* nothing
    MaxRevision, \* bound: revisions of files, those at the start included
    MaxFiles,    \* files of one upload
    MaxJobs,     \* bound: jobs started
    MaxClicks    \* bound: what the user does in the listing

Names == DOMAIN Home

\* Directories nest no deeper here, and one is there as long as it holds a file.
ASSUME HomeAssumption ==
    /\ Home \in Seq(Folders \union {0}) /\ Folders \subseteq Names
    /\ \A d \in Folders : Home[d] = 0 /\ \E n \in Names \ Folders : Home[n] = d
    /\ Matches \subseteq Names \ Folders
ASSUME BoundsAssumption ==
    /\ {PageSize, MaxFiles} \subseteq Nat \ {0} /\ {MaxRevision, MaxJobs, MaxClicks} \subseteq Nat
    /\ Len(Home) <= MaxRevision

VARIABLES
    rev,       \* server: revision of each file, 0 when it is not there
    last,      \* server: the last revision
    wire,      \* requests to write on their way to the server
    done,      \* server: the requests it has carried out
    unlocked,  \* session
    shown,     \* displayedQuery and displayedEntries with the view they belong to
    listing,   \* listingRequest: the view that is asked for
    retry,     \* retryView
    timer,     \* searchTimer: the view it will ask for
    box,       \* a text is in the search box
    selected,  \* the selected entry, and whether its panel is open
    delayed,   \* detailsTimer: the entry whose panel it will open
    info,      \* directoryInfo() for the panel
    copy,      \* the path of a file that is being written to the clipboard
    picker,    \* pickerContext
    job,       \* upload, transfer or folderAction: each waits for the others to end
    jobs,      \* how many were started
    clicks     \* how much the user has done

listVars == <<shown, listing, retry, timer, box>>
panelVars == <<selected, delayed, info, copy>>
jobVars == <<picker, job, jobs>>
serverVars == <<rev, last, wire, done>>
vars == <<serverVars, unlocked, listVars, panelVars, jobVars, clicks>>

View ==
    {view \in [dir : Folders \union {0}, search : BOOLEAN, page : Nat,
              cursors : Seq(Names \union {0})] : view.page < Len(view.cursors)}
Entry == [name : Names, rev : Nat]
Shown ==
    [dir : Folders \union {0}, search : BOOLEAN, page : Nat, cursors : Seq(Names \union {0}),
     entries : SUBSET Entry, next : Names \union {0}]
Request == [id : 1..MaxJobs, k : 0..MaxFiles, dir : Folders \union {0}, snap : Nat]
\* With what no variable of the page says: a copy that failed opened it for a row that was gone.
Selection == [name : Names, rev : Nat, panel : BOOLEAN, gone : BOOLEAN]
Delayed == [name : Names \ Folders, rev : Nat, connected : BOOLEAN]
Copied == [name : Names \ Folders, rev : Nat, connected : BOOLEAN, stale : BOOLEAN]
Info == [name : Folders, connected : BOOLEAN, stale : BOOLEAN, refresh : BOOLEAN]
Job ==
    [kind : {"upload", "download", "folder"}, id : 1..MaxJobs,
     at : {"authorize", "start", "chunk", "commit", "delete", "session", "info", "ready", "sent",
           "blocked", "ended"},
     k : 0..MaxFiles, dir : Names \union {0}, snap : Nat,
     results : Seq({"sent", "rejected", "unconfirmed"}),
     answer : {"ok", "error", "files_write_required", "directory_changed", "directory_exists",
               Null},
     report : {"complete", "error", "cancelled", "interrupted", Null},
     committing : BOOLEAN, aborted : BOOLEAN, stale : BOOLEAN]

ASSUME NullAssumption ==
    /\ Null \notin Shown
    /\ Null \notin {"ok", "error", "files_write_required", "directory_changed", "directory_exists",
                    "complete", "cancelled", "interrupted"}

ViewOf(dir, search) == [dir |-> dir, search |-> search, page |-> 0, cursors |-> <<0>>]

\* currentView()
CurrentView ==
    IF shown = Null THEN ViewOf(0, FALSE)
    ELSE [dir |-> shown.dir, search |-> shown.search,
          page |-> shown.page, cursors |-> shown.cursors]

TypeOK ==
    /\ last \in 0..MaxRevision /\ rev \in [Names \ Folders -> 0..last]
    /\ wire \subseteq Request /\ done \subseteq (1..MaxJobs) \X (0..MaxFiles)
    /\ unlocked \in BOOLEAN /\ box \in BOOLEAN /\ jobs \in 0..MaxJobs /\ clicks \in 0..MaxClicks
    /\ CurrentView \in View /\ {listing, retry, timer} \subseteq View \union {Null}
    /\ shown \in Shown \union {Null}
    /\ shown # Null => Cardinality(shown.entries) <= PageSize
    /\ selected \in Selection \union {Null} /\ delayed \in Delayed \union {Null}
    /\ info \in Info \union {Null} /\ copy \in Copied \union {Null}
    /\ picker \in Folders \union {0, Null}
    /\ job \in Job \union {Null}

Init ==
    /\ rev = [n \in Names \ Folders |-> n] /\ last = Len(Home) /\ wire = {} /\ done = {}
    /\ unlocked = FALSE /\ shown = Null /\ listing = Null /\ retry = Null /\ timer = Null
    /\ box = FALSE /\ selected = Null /\ delayed = Null /\ info = Null /\ copy = Null
    /\ picker = Null /\ job = Null /\ jobs = 0 /\ clicks = 0
-----------------------------------------------------------------------------
(* What the server answers. *)

Contents(dir) == {n \in Names \ Folders : Home[n] = dir}

\* The state of a directory, which goes with its last file.
Snapshot(dir) == Max({rev[n] : n \in Contents(dir)})
Revision(n) == IF n \in Folders THEN Snapshot(n) ELSE rev[n]

\* Files in a directory, or files that a search finds, after a cursor.
Found(view) ==
    {n \in Names : /\ IF view.search THEN n \in Matches ELSE Home[n] = view.dir
                   /\ Revision(n) > 0 /\ n > view.cursors[view.page + 1]}

\* The first of them, in their order.
FirstPage(view) ==
    {n \in Found(view) : Cardinality({m \in Found(view) : m < n}) < PageSize}

Answer(view) ==
    [dir |-> view.dir, search |-> view.search, page |-> view.page, cursors |-> view.cursors,
     entries |-> {[name |-> n, rev |-> Revision(n)] : n \in FirstPage(view)},
     next |-> IF FirstPage(view) # Found(view) THEN Max(FirstPage(view)) ELSE 0]
-----------------------------------------------------------------------------
(* The listing. *)

\* load(): an earlier request is aborted.  The view is applied when the answer is there.
Load(view) == listing' = view /\ retry' = view /\ delayed' = Null

Navigable(dir) ==
    \/ dir = 0
    \/ shown # Null /\ dir \in {shown.dir} \union {entry.name : entry \in shown.entries}

\* The user does something.
Click == clicks < MaxClicks /\ clicks' = clicks + 1

\* A modal dialog is open: the rest of the page does not react.
Modal == job # Null /\ job.kind = "folder" /\ job.at # "ended"

\* navigate(): nothing to do in the directory that is shown.
Navigate(dir) ==
    /\ unlocked /\ ~Modal /\ Navigable(dir) /\ timer' = Null
    /\ IF /\ shown # Null /\ CurrentView.dir = dir /\ ~CurrentView.search
          /\ listing = Null /\ retry = Null
       THEN UNCHANGED <<listing, retry, delayed, box>>
       ELSE Load(ViewOf(dir, FALSE)) /\ box' = FALSE
    /\ UNCHANGED <<serverVars, unlocked, shown, selected, info, copy, jobVars>>

\* searchChanged(): what is under way is aborted, the new search starts after 180 ms.
SearchChanged(text) ==
    /\ unlocked /\ ~Modal /\ box # text /\ box' = text
    /\ timer' = ViewOf(CurrentView.dir, text) /\ retry' = timer'
    /\ listing' = Null /\ delayed' = Null
    /\ UNCHANGED <<serverVars, unlocked, shown, selected, info, copy, jobVars>>

SearchTimer ==
    /\ timer # Null /\ Load(timer) /\ timer' = Null
    /\ UNCHANGED <<serverVars, unlocked, shown, box, selected, info, copy, jobVars>>

Refresh ==
    /\ unlocked /\ ~Modal /\ listing = Null /\ timer' = Null
    /\ Load(IF retry # Null THEN retry ELSE CurrentView)
    /\ UNCHANGED <<serverVars, unlocked, shown, box, selected, info, copy, jobVars>>

NextPage ==
    /\ ~Modal /\ shown # Null /\ listing = Null /\ shown.next # 0
    /\ LET cursors == Append(SubSeq(shown.cursors, 1, shown.page + 1), shown.next)
       IN Load([CurrentView EXCEPT !.page = @ + 1, !.cursors = cursors])
    /\ UNCHANGED <<serverVars, unlocked, shown, timer, box, selected, info, copy, jobVars>>

PreviousPage ==
    /\ ~Modal /\ shown # Null /\ listing = Null /\ shown.page > 0
    /\ Load([CurrentView EXCEPT !.page = @ - 1])
    /\ UNCHANGED <<serverVars, unlocked, shown, timer, box, selected, info, copy, jobVars>>

Query(view) == <<IF view.search THEN 0 ELSE view.dir, view.search, view.cursors[view.page + 1]>>
Disconnected(x) == IF x = Null THEN x ELSE [x EXCEPT !.connected = FALSE]

Panel(entry, open) == [name |-> entry.name, rev |-> entry.rev, panel |-> open, gone |-> FALSE]

InfoOf(dir, refresh) == [name |-> dir, connected |-> TRUE, stale |-> FALSE, refresh |-> refresh]

\* The selected entry as the new rows have it.
Reselected(entries) ==
    IF selected = Null \/ \A entry \in entries : entry.name # selected.name THEN Null
    ELSE Panel(CHOOSE entry \in entries : entry.name = selected.name, selected.panel)

\* The answer of load().  Unless nothing has changed the rows are built anew: their old
\* buttons are no longer part of the page.
Loaded ==
    LET answer == Answer(listing)
        sameView == shown # Null /\ Query(listing) = Query(CurrentView)
        sameEntries == sameView /\ answer.entries = shown.entries
        kept == IF sameView THEN Reselected(answer.entries) ELSE Null
    IN /\ listing # Null /\ listing' = Null /\ retry' = Null /\ box' = listing.search
       /\ shown' = answer
       /\ IF sameEntries THEN UNCHANGED panelVars
          ELSE /\ selected' = kept
               /\ delayed' = IF selected # Null \/ ~sameView THEN Null ELSE Disconnected(delayed)
               /\ info' = IF kept # Null /\ kept.name \in Folders /\ kept.panel
                          THEN InfoOf(kept.name, TRUE)
                          ELSE Disconnected(info)
               /\ copy' = Disconnected(copy)
       /\ UNCHANGED <<serverVars, unlocked, timer, jobVars>>

\* The previous list is kept, and retryView.
LoadFails ==
    /\ listing # Null /\ listing' = Null
    /\ UNCHANGED <<serverVars, unlocked, shown, retry, timer, box, panelVars, jobVars>>
-----------------------------------------------------------------------------
(* The details of an entry. *)

Rows == IF shown = Null THEN {} ELSE shown.entries

\* A click on a row.  On a narrow screen the panel of a file may wait for a double click.
Select(entry) ==
    /\ ~Modal
    /\ \/ selected' = Panel(entry, entry.name \notin Folders) /\ delayed' = Null
       \/ /\ entry.name \notin Folders /\ UNCHANGED selected
          /\ delayed' = [name |-> entry.name, rev |-> entry.rev, connected |-> TRUE]
    /\ UNCHANGED <<serverVars, unlocked, listVars, info, copy, jobVars>>

\* Mutant of Connected: a button that is no longer part of the page counts.
ConnectedOrNot(x) == TRUE

Connected(x) == x.connected

DetailsTimer ==
    /\ delayed # Null /\ delayed' = Null
    /\ selected' = IF unlocked /\ Connected(delayed) THEN Panel(delayed, TRUE) ELSE selected
    /\ UNCHANGED <<serverVars, unlocked, listVars, info, copy, jobVars>>

\* The properties of a directory, from its menu.
Properties(entry) ==
    /\ ~Modal /\ entry.name \in Folders /\ info = Null            \* bound: one at a time
    /\ selected' = Panel(entry, FALSE) /\ delayed' = Null
    /\ info' = InfoOf(entry.name, FALSE)
    /\ UNCHANGED <<serverVars, unlocked, listVars, copy, jobVars>>

InfoArrives ==
    /\ info # Null /\ info' = Null /\ Snapshot(info.name) > 0
    /\ IF /\ ~info.stale /\ unlocked /\ Connected(info)
          /\ selected # Null /\ selected.name = info.name /\ (info.refresh => selected.panel)
       THEN /\ selected' = [selected EXCEPT !.rev = Snapshot(info.name), !.panel = TRUE]
            /\ delayed' = Null
       ELSE UNCHANGED <<selected, delayed>>
    /\ UNCHANGED <<serverVars, unlocked, listVars, copy, jobVars>>

InfoFails ==
    /\ info # Null /\ info' = Null
    /\ UNCHANGED <<serverVars, unlocked, listVars, selected, delayed, copy, jobVars>>

\* The path of a file goes to the clipboard, from the menu of the row.
CopyPath(entry) ==
    /\ ~Modal /\ entry.name \notin Folders /\ copy = Null           \* bound: one at a time
    /\ copy' = [name |-> entry.name, rev |-> entry.rev, connected |-> TRUE, stale |-> FALSE]
    /\ UNCHANGED <<serverVars, unlocked, listVars, selected, delayed, info, jobVars>>

CopyDone ==
    /\ copy # Null /\ copy' = Null
    /\ UNCHANGED <<serverVars, unlocked, listVars, selected, delayed, info, jobVars>>

\* The path is shown instead, in the details, also when the row has gone in the meantime.
CopyFails ==
    /\ copy # Null /\ copy' = Null
    /\ IF ~copy.stale /\ unlocked
       THEN selected' = [Panel(copy, TRUE) EXCEPT !.gone = ~copy.connected] /\ delayed' = Null
       ELSE UNCHANGED <<selected, delayed>>
    /\ UNCHANGED <<serverVars, unlocked, listVars, info, jobVars>>

CloseDetails ==
    /\ selected # Null /\ selected' = Null /\ delayed' = Null
    /\ UNCHANGED <<serverVars, unlocked, listVars, info, copy, jobVars>>
-----------------------------------------------------------------------------
(* Access. *)

\* Mutant of Live: a job does not look at the epoch.
LiveAlways(j) == TRUE

\* live(): the epoch the job was started in has not ended.
Live(j) == ~j.stale

\* What was begun before lock() ends in an epoch that is over, for a row that is gone.
Forgotten(x) == IF x = Null THEN x ELSE [x EXCEPT !.connected = FALSE, !.stale = TRUE]

\* lock(): all requests are aborted but the one that takes back an upload; nothing stays.
LockPage ==
    /\ unlocked' = FALSE /\ shown' = Null /\ listing' = Null /\ retry' = Null /\ timer' = Null
    /\ box' = FALSE /\ selected' = Null /\ delayed' = Null /\ picker' = Null
    /\ info' = Forgotten(info) /\ copy' = Forgotten(copy)
    /\ job' = IF job # Null /\ job.at = "delete"
              THEN [job EXCEPT !.stale = TRUE, !.aborted = TRUE, !.results = <<>>, !.report = Null]
              ELSE Null

Lock == unlocked /\ LockPage /\ UNCHANGED <<serverVars, jobs>>

\* acceptSession(), and the listing of the directory that the address names.
Unlock(dir) ==
    /\ ~unlocked /\ unlocked' = TRUE /\ Load(ViewOf(dir, FALSE))
    /\ UNCHANGED <<serverVars, shown, timer, box, selected, info, copy, jobVars>>
-----------------------------------------------------------------------------
(* Jobs. *)

Idle == job # Null => job.at = "ended"
On(kind, at) == job # Null /\ job.kind = kind /\ job.at = at

Begin(kind, at, entry, k) ==
    /\ jobs < MaxJobs /\ jobs' = jobs + 1
    /\ job' = [kind |-> kind, id |-> jobs + 1, at |-> at, k |-> k,
               dir |-> entry.name, snap |-> entry.rev,
               results |-> <<>>, answer |-> Null, committing |-> FALSE, aborted |-> FALSE,
               stale |-> FALSE, report |-> Null]

\* An answer to the job that waits for it, if it still does.
Answered(r, answer) ==
    job' = IF job # Null /\ job.id = r.id /\ job.k = r.k /\ job.at \in {"commit", "sent"}
           THEN [job EXCEPT !.answer = answer] ELSE job

\* The server carries out a request, or refuses it.
ServeCommit(r) ==
    /\ r.k > 0 /\ wire' = wire \ {r}
    /\ \/ done' = done \union {<<r.id, r.k>>} /\ Answered(r, "ok")
       \/ UNCHANGED done /\ \E code \in {"error", "files_write_required"} : Answered(r, code)
    /\ UNCHANGED <<rev, last, unlocked, listVars, panelVars, picker, jobs>>

\* A directory is changed as a whole, when it is as the dialog described it.
ServeFolder(r) ==
    /\ r.k = 0 /\ wire' = wire \ {r}
    /\ IF Snapshot(r.dir) # r.snap
       THEN UNCHANGED <<rev, done>> /\ Answered(r, "directory_changed")
       ELSE \/ UNCHANGED <<rev, done>> /\ Answered(r, "directory_exists")
            \/ /\ rev' = [n \in Names \ Folders |-> IF Home[n] = r.dir THEN 0 ELSE rev[n]]
               /\ done' = done \union {<<r.id, r.k>>} /\ Answered(r, "ok")
    /\ UNCHANGED <<last, unlocked, listVars, panelVars, picker, jobs>>

\* Another browser or a device changes or deletes a file.
Foreign(n) ==
    /\ last < MaxRevision /\ last' = last + 1
    /\ \E new \in {0, last'} : rev' = [rev EXCEPT ![n] = new]
    /\ UNCHANGED <<wire, done, unlocked, listVars, panelVars, jobVars>>
-----------------------------------------------------------------------------
(* Uploads. *)

CanUpload ==
    /\ unlocked /\ Idle /\ shown # Null /\ ~shown.search /\ ~box /\ listing = Null /\ retry = Null

BeginUpload(dir) == Begin("upload", "authorize", [name |-> dir, rev |-> 0], 1)

\* Files are dropped on the listing.
Drop ==
    /\ CanUpload /\ BeginUpload(shown.dir)
    /\ UNCHANGED <<serverVars, unlocked, listVars, panelVars, picker>>

PickerOpens ==
    /\ CanUpload /\ picker' = shown.dir
    /\ UNCHANGED <<serverVars, unlocked, listVars, panelVars, job, jobs>>

SameDirectory == shown.dir = picker

\* Files were chosen, for the directory the picker was opened in.
PickerChosen ==
    /\ picker # Null /\ picker' = Null
    /\ IF CanUpload /\ SameDirectory THEN BeginUpload(picker)
       ELSE UNCHANGED <<job, jobs>>
    /\ UNCHANGED <<serverVars, unlocked, listVars, panelVars>>

Stay == UNCHANGED <<serverVars, unlocked, listVars, panelVars, picker, jobs>>

\* The upload is over.  The view that is open is refreshed unless it is being loaded.
Over(final) ==
    /\ job' = IF Live(job) THEN final ELSE Null
    /\ IF Live(job) /\ listing = Null /\ retry = Null THEN Load(CurrentView)
       ELSE UNCHANGED <<listing, retry, delayed>>
    /\ UNCHANGED <<serverVars, unlocked, shown, timer, box, selected, info, copy, picker, jobs>>

End(report) == Over([job EXCEPT !.at = "ended", !.report = report])

\* The next file, with the result of this one.
NextFile(results) ==
    LET told == [job EXCEPT !.results = results, !.committing = FALSE, !.answer = Null]
    IN IF job.k = MaxFiles THEN Over([told EXCEPT !.at = "ended", !.report = "complete"])
       ELSE job' = [told EXCEPT !.at = "start", !.k = @ + 1] /\ Stay

UploadAuthorized == On("upload", "authorize") /\ job' = [job EXCEPT !.at = "start"] /\ Stay
UploadRefused == On("upload", "authorize") /\ End("error")

\* The file is hashed and its upload is created; or its name is refused, or the request.
UploadStarted == On("upload", "start") /\ job' = [job EXCEPT !.at = "chunk"] /\ Stay
StartFails == On("upload", "start") /\ NextFile(Append(job.results, "rejected"))

\* Mutant of ChunksSent: the commit is not marked as begun when it is sent.
ChunksSentUnmarked ==
    /\ On("upload", "chunk") /\ job' = [job EXCEPT !.at = "commit"]
    /\ wire' = wire \union {[id |-> job.id, k |-> job.k, dir |-> job.dir, snap |-> 0]}
    /\ UNCHANGED <<rev, last, done, unlocked, listVars, panelVars, picker, jobs>>

\* The slices of the file are sent one after the other, then the commit.
ChunksSent ==
    /\ On("upload", "chunk") /\ job' = [job EXCEPT !.at = "commit", !.committing = TRUE]
    /\ wire' = wire \union {[id |-> job.id, k |-> job.k, dir |-> job.dir, snap |-> 0]}
    /\ UNCHANGED <<rev, last, done, unlocked, listVars, panelVars, picker, jobs>>

Failed == IF job.committing THEN "unconfirmed" ELSE "rejected"

ChunkFails ==
    /\ On("upload", "chunk") /\ Stay
    /\ job' = [job EXCEPT !.at = "delete", !.results = Append(@, Failed)]

Committed == On("upload", "commit") /\ job.answer = "ok" /\ NextFile(Append(job.results, "sent"))

\* The commit is refused, or its answer does not come in time.
CommitFails ==
    /\ On("upload", "commit") /\ job.answer \in {"error", Null} /\ Stay
    /\ job' = [job EXCEPT !.at = "delete", !.results = Append(@, Failed)]

\* The right to write is gone: the whole upload ends.
UploadDenied ==
    \/ On("upload", "start") /\ End("error")
    \/ /\ \/ On("upload", "chunk")
          \/ On("upload", "commit") /\ job.answer = "files_write_required"
       /\ job' = [job EXCEPT !.at = "delete", !.report = "error"] /\ Stay

UploadCancel ==
    /\ job # Null /\ job.kind = "upload" /\ ~job.aborted
    /\ \/ job.at \in {"authorize", "start"} /\ End("cancelled")
       \/ /\ job.at \in IF job.report = Null THEN {"chunk", "commit"} ELSE {"delete"}
          /\ job' = [job EXCEPT !.at = "delete", !.aborted = TRUE,
                       !.report = IF job.committing THEN "interrupted" ELSE "cancelled"] /\ Stay
       \/ job.at = "delete" /\ job.report = Null /\ job' = [job EXCEPT !.aborted = TRUE] /\ Stay

\* The upload is taken back, if that request is served before the commit.
Deleted ==
    /\ On("upload", "delete")
    /\ \/ job.report # Null /\ End(job.report)
       \/ job.report = Null /\ job.aborted /\ End("cancelled")
       \/ job.report = Null /\ ~job.aborted /\ NextFile(job.results)
-----------------------------------------------------------------------------
(* Downloads. *)

Download(entry) ==
    /\ unlocked /\ Idle /\ entry.name \notin Folders /\ Begin("download", "chunk", entry, 0)
    /\ UNCHANGED <<serverVars, unlocked, listVars, panelVars, picker>>

\* All parts have come, each of the revision that was asked for, and the digest is right.
Downloaded ==
    /\ On("download", "chunk") /\ rev[job.dir] = job.snap
    /\ job' = [job EXCEPT !.at = "session"] /\ Stay

DownloadEnds ==
    /\ job # Null /\ job.kind = "download" /\ job.at # "ended"
    /\ job' = [job EXCEPT !.at = "ended"] /\ Stay

\* The page is left for the editor, never in the middle of a transfer.
OpenEditor(entry) ==
    /\ unlocked /\ Idle /\ entry.name \notin Folders /\ LockPage /\ UNCHANGED <<serverVars, jobs>>
-----------------------------------------------------------------------------
(* Operations on a directory. *)

\* editDirectory(), from the menu of the row.
EditDirectory(entry) ==
    /\ unlocked /\ Idle /\ entry.name \in Folders /\ Begin("folder", "info", entry, 0)
    /\ selected' = Panel(entry, FALSE) /\ delayed' = Null
    /\ UNCHANGED <<serverVars, unlocked, listVars, info, copy, picker>>

Described ==
    /\ On("folder", "info") /\ Snapshot(job.dir) > 0 /\ Stay
    /\ job' = [job EXCEPT !.at = "ready", !.snap = Snapshot(job.dir)]

NotDescribed == On("folder", "info") /\ job' = [job EXCEPT !.at = "blocked"] /\ Stay

Submit ==
    /\ On("folder", "ready") /\ Stay
    /\ job' = [job EXCEPT !.at = "authorize", !.report = Null, !.answer = Null]

FolderRefused == On("folder", "authorize") /\ job' = [job EXCEPT !.at = "ready"] /\ Stay

FolderSent ==
    /\ On("folder", "authorize") /\ job' = [job EXCEPT !.at = "sent"]
    /\ wire' = wire \union {[id |-> job.id, k |-> 0, dir |-> job.dir, snap |-> job.snap]}
    /\ UNCHANGED <<rev, last, done, unlocked, listVars, panelVars, picker, jobs>>

FolderDone ==
    /\ On("folder", "sent") /\ job.answer = "ok"
    /\ job' = [job EXCEPT !.at = "ended", !.report = "complete"] /\ Load(CurrentView)
    /\ UNCHANGED <<serverVars, unlocked, shown, timer, box, selected, info, copy, picker, jobs>>

\* A request whose fate is not known is not repeated.
Retry == job.answer = "directory_exists"

\* An error, or no answer in time.
FolderFails ==
    /\ On("folder", "sent") /\ job.answer # "ok" /\ Stay
    /\ job' = [job EXCEPT !.at = IF Retry THEN "ready" ELSE "blocked",
                 !.report = IF job.answer = Null THEN "interrupted" ELSE "error"]

\* closeFolderDialog(): not while a request is out.
CloseFolderDialog == Modal /\ job.at # "sent" /\ job' = Null /\ Stay
-----------------------------------------------------------------------------
UserNext ==
    /\ Click
    /\ \/ \E dir \in Folders \union {0} : Navigate(dir)
       \/ \E text \in BOOLEAN : SearchChanged(text)
       \/ \E entry \in Rows : Select(entry) \/ Properties(entry) \/ CopyPath(entry)
       \/ Refresh \/ NextPage \/ PreviousPage \/ CloseDetails
PageNext ==
    \/ SearchTimer \/ Loaded \/ LoadFails \/ DetailsTimer \/ InfoArrives \/ InfoFails
    \/ CopyDone \/ CopyFails
    \/ Lock \/ \E dir \in Folders \union {0} : Unlock(dir)
UploadNext ==
    \/ Drop \/ PickerOpens \/ PickerChosen \/ UploadAuthorized \/ UploadRefused \/ UploadStarted
    \/ StartFails \/ ChunksSent \/ ChunkFails \/ Committed \/ CommitFails \/ UploadDenied
    \/ UploadCancel \/ Deleted
DownloadNext ==
    \/ \E entry \in Rows : Download(entry) \/ OpenEditor(entry)
    \/ Downloaded \/ DownloadEnds
FolderNext ==
    \/ \E entry \in Rows : EditDirectory(entry)
    \/ Described \/ NotDescribed \/ Submit \/ FolderRefused \/ FolderSent \/ FolderDone
    \/ FolderFails \/ CloseFolderDialog
ServerNext ==
    \/ \E r \in wire : ServeCommit(r) \/ ServeFolder(r)
    \/ \E n \in Names \ Folders : Foreign(n)
Next ==
    \/ UserNext
    \/ /\ PageNext \/ UploadNext \/ DownloadNext \/ FolderNext \/ ServerNext
       /\ UNCHANGED clicks

Spec == Init /\ [][Next]_vars
-----------------------------------------------------------------------------
(* Properties. *)

\* After lock() the page shows nothing of the files and says nothing of a job, whatever
\* timers fire and answers come later, until access is given again.
HiddenWhenLocked ==
    ~unlocked => /\ shown = Null /\ selected = Null /\ picker = Null
                 /\ job # Null => job.report = Null /\ job.results = <<>>

\* The panel and the selection are about an entry of the rows that are shown, in the
\* revision that is shown, however listings, timers and answers follow each other.
DetailsLinked ==
    selected # Null => \E entry \in Rows :
        entry.name = selected.name /\ (entry.name \in Folders \/ entry.rev = selected.rev)

\* So they are but for the details that a failed copy opens for a row that has gone: those
\* stay no longer than until the rows are built anew or the user does something else.
DetailsMatchListing == (selected # Null /\ ~selected.gone) => DetailsLinked

\* A request of the job to write has been carried out, or may still be.
Out(k) == <<job.id, k>> \in done \/ \E r \in wire : r.id = job.id /\ r.k = k

\* What the page says of a write is true: sent means published, rejected or cancelled means
\* not published and never to be, and only what is called unconfirmed may be either.
ReportsTrue ==
    LET upload == job # Null /\ job.kind = "upload"
    IN /\ upload => \A k \in 1..Len(job.results) :
            /\ job.results[k] = "sent" => <<job.id, k>> \in done
            /\ job.results[k] = "rejected" => ~Out(k)
       /\ (upload /\ job.report = "cancelled") => \A k \in Len(job.results) + 1..MaxFiles : ~Out(k)
       /\ (job # Null /\ job.kind = "folder" /\ job.report # Null) =>
            /\ job.report = "complete" => <<job.id, 0>> \in done
            /\ job.report = "error" => ~Out(0)
-----------------------------------------------------------------------------
(* The inductive invariant. *)

\* Nothing that could bring the files back outlives lock(), but the request that takes back
\* an upload, of which the page will say nothing.
PageHidden ==
    /\ ~unlocked => /\ {shown, listing, timer, selected, delayed, picker} = {Null}
                    /\ job # Null => job.stale
    /\ (job # Null /\ job.stale) => /\ job.at = "delete" /\ job.aborted
                                    /\ job.results = <<>> /\ job.report = Null

\* A button that is part of the page is the one of a row, as it is shown.
DelayedConnected ==
    /\ (delayed # Null /\ delayed.connected) =>
          \E entry \in Rows : entry.name = delayed.name /\ entry.rev = delayed.rev
    /\ (copy # Null /\ copy.connected) =>
          \E entry \in Rows : entry.name = copy.name /\ entry.rev = copy.rev

\* A request is on its way once, and not any more when it has been carried out.
WireSound ==
    /\ \A r \in wire : r.id <= jobs /\ <<r.id, r.k>> \notin done
    /\ \A q, r \in wire : q.id = r.id /\ q.k = r.k => q = r
    /\ \A d \in done : d[1] <= jobs

JobSound ==
    job # Null =>
        /\ job.id = jobs
        /\ job.answer = "ok" => <<job.id, job.k>> \in done

\* How far an upload has come: what can have been sent, and what has been told.
UploadSound ==
    (job # Null /\ job.kind = "upload") =>
        /\ job.k > 0 /\ job.dir \in Folders \union {0}
        /\ job.at \in {"authorize", "start", "chunk", "commit", "delete", "ended"}
        /\ job.at \in {"authorize", "start", "chunk"} => ~job.committing
        /\ job.at = "commit" => job.committing
        /\ job.at \in {"authorize", "start", "chunk", "commit"} =>
              job.report = Null /\ Len(job.results) = job.k - 1
        /\ (job.at = "delete" /\ ~job.stale) =>
              Len(job.results) = IF job.report = Null THEN job.k ELSE job.k - 1
        /\ \A k \in 0..MaxFiles :
              Out(k) => k < job.k \/ (k = job.k /\ (job.at = "ended" \/ job.committing))

\* What can have come of an operation on a directory, at each state of its dialog.
FolderSound ==
    (job # Null /\ job.kind = "folder") =>
        /\ job.k = 0 /\ job.dir \in Folders
        /\ job.at \in {"info", "ready", "authorize", "sent", "blocked", "ended"}
        /\ job.at = "authorize" => job.answer = Null
        /\ job.at \in {"authorize", "sent"} => job.report = Null
        /\ Out(0) => \/ job.at = "sent" /\ job.answer \in {"ok", Null}
                     \/ job.at = "blocked" /\ job.report = "interrupted"
                     \/ job.at = "ended" /\ job.report = "complete"

DownloadSound ==
    (job # Null /\ job.kind = "download") =>
        job.k = 0 /\ job.dir \in Names \ Folders /\ job.at \in {"chunk", "session", "ended"}

Inv ==
    /\ TypeOK /\ PageHidden /\ DelayedConnected /\ DetailsMatchListing
    /\ WireSound /\ JobSound /\ UploadSound /\ FolderSound /\ DownloadSound /\ ReportsTrue
=============================================================================
