# A TLA+ verification of mysync-server and its web pages

mysync keeps the files of one owner on a server that devices synchronise with
and that a browser can open once a device vouches for it.  This directory holds
TLA+ models of the server's storage and access control and of the pages it
serves, the TLC runs that check them on small instances, and TLAPS proofs that
hold for every instance.  `PROJECT.json` lists components, runs, mutants,
hazards and theorems and maps each definition to the lines it models.

## 1. The system

| Component | State | Operations | Talks to |
|---|---|---|---|
| file publication (`src/src/server.rs` upload, commit_upload_checked) | `meta.generation`, table `entries`, directories `blobs/` and `tmp/` | upload, replace, fail, be cancelled | SQLite under one mutex; the file system without one |
| deletion, trash, purge (`server.rs` delete, restore, purge_expired, purge_trash_item) | `entries`, table `trash`, `blobs/` | delete, restore, hourly purge, `mysync-server trash purge` | the last one is another process: it shares the database file, not the mutex |
| startup recovery and service life (`recover_storage`, `serve`) | the service lock, both directories | sweep, purge, listen, stop | everything above, after any crash |
| path namespace (`check_path_namespace`, `model.rs`) | none | no file lies below a file | publication, restore, rename, chunked uploads |
| directories of the browser (`web_files/directories.rs`) | a fingerprint the browser keeps | properties, rename, delete of a whole directory | `entries`, `trash` |
| chunked uploads (`server.rs` begin/chunk/finish, `web_files/uploads.rs`) | tables `uploads`, `web_file_uploads`, `tmp/`, set `active_uploads` | begin or resume, chunk, finish, cancel, purge | publication; write grants |
| device enrolment and requests (`device_auth.rs`) | devices, invitations, sessions, nonces, permits | invite, start, finish, approve, cancel, revoke; admit a signed request | every endpoint; the administrator's process |
| web sessions and grants (`web_status.rs`, `web_files.rs`) | sessions, challenges, grants per scope | challenge, prove, log out | devices prove, browsers use |
| editor and runner (`web_files/editor.rs`) | versions, kept conflicts, one-time tickets | open, save, preserve, run | publication |
| editor page (`web/editor-src/controller.js`, `code.js`) | text, last confirmed revision, save under way, job | type, save, retry, run, poll, stop, leave, lock | editor and runner; the local client |
| file explorer page (`web/atlas.js`) | session, listing, details, one job | navigate, search, page, upload, download, rename or delete a directory, lock | web sessions, listings, chunked uploads, directories; its other tabs |
| status page (`web/status.js`) | a presence that expires | verify, refresh, cancel | web sessions; the local client |
| manifest, download, PDF ranges | none | read | `entries`, `blobs/` |
| local storage of conflicts (`local_fs.rs`) | none | descriptor-relative file operations | - |

**What is hard.**

* A transaction of SQLite is atomic and durable, but the files its rows name are
  not part of it: they are renamed and synced before COMMIT and removed after
  it, without the mutex.  Between those steps come other requests, an
  administrator's process, a cancelled request, an error whose outcome nobody
  knows, a kill, a power loss, and a recovery that may itself be interrupted.
* Chunked uploads have state that outlives requests and restarts, guarded by a
  second mutex; what a request has asked of its file goes on when the request is
  gone, and its reservation with it.
* A start of an enrolment computes a credential without the database and comes
  back to a row that others may have changed; a signed request is checked
  several times while it waits for a permit and for its body; the command line
  works on the same tables in a process that does not know the server's mutex.
* A page goes on between any two awaits: answers come after the page has been
  locked, a save is lost or arrives late, a run is given up and started all the
  same, and the tabs of one browser share cookies that any of them can change.

The full list, each at its line, is `hazards` in `PROJECT.json`.

**What makes each part correct.**

* Publication and trash: a row never names a missing or wrong file; a file
  belongs to one row; nothing that a row names is removed; a revision names one
  version; a stale client overwrites nothing.
* Recovery: it removes exactly what nothing refers to, for good, and the server
  comes up again.
* Namespace and directories: no live file lies below another; a directory moves
  or goes as a whole, as its user saw it.
* Chunked uploads: an acknowledged offset survives everything; what is published
  was verified (both but for the third finding of section 6); a session in use is
  nobody else's; sessions stay within their limit and dead ones go.
* Enrolment: an invitation binds one key, a device has one enrolment, an
  approved key has proved itself.
* Requests: a proof is served once; a device or session that ended before the body
  had come is refused; permits and sessions keep to their limits.
* Web sessions: a tab never shows again what was logged out; the grants of a
  session belong to one device; a refreshed presence stays that device's.
* Explorer: a locked page shows nothing; details match the rows shown (but for a
  failed copy, section 7); what it reports of a write is true.
* Editor: what is called saved is on the server; nothing unseen is overwritten;
  what runs is what was shown; leaving loses nothing without a warning.

## 2. Modules

| Module | Models |
|---|---|
| `PathTree` | paths as sequences of components: below, free namespace, renaming of a directory |
| `VersionedFiles` | the abstract promise: files with revisions and a bin, every operation one step, no blobs, no crashes |
| `SyncStore` | the storage in detail: rows, two directories with what a power loss may leave of them, requests step by step, the administrator, recovery |
| `UploadSessions` | chunked uploads of devices and browsers: rows, temporary files, reservations, purge, grants, restarts |
| `DeviceEnrollment` | invitations, starts, activations, approval, cancellation, revocation |
| `RequestAuth` | signed requests over `DeviceEnrollment`: admission, nonces, bodies, sessions, restarts |
| `WebSession` | the tabs of a browser, their cookies, web sessions, challenges, grants, and the clients that prove a device |
| `Explorer` | the file explorer page and what it asks of the server |
| `EditorPage` | the editor page, the versions of its file, and the runner |
| `SyncStoreProofs`, `SyncStoreRefinement`, `UploadSessionsProofs`, `DeviceEnrollmentProofs`, `RequestAuthProofs`, `WebSessionProofs`, `EditorPageProofs`, `ExplorerProofs` | theorems |
| `MCSyncStore`, `MCUploadSessions`, `MCRequestAuth`, `MCWebSession`, `MCExplorer`, `MCEditorPage` | instances for TLC |

`SyncStore` extends `PathTree` and instantiates `VersionedFiles` (refinement
mapping: a file's content is what its row's blob holds, the bin is the table
`trash`, read the same way); `ImplementsVersionedFiles` says that every step of
the detailed storage, crashes and recovery included, is a step of the abstract
one or invisible to it.  `RequestAuth` extends `DeviceEnrollment`: its steps on
the tables of enrolment are those of `EnrollNext`.  `EditorPage` takes the
verification of `WebSession` as one step (`authorize()`), and `Explorer` takes
it as Lock and Unlock, which happen at any time.

Definitions marked as a mutant are plausible slips; each property has one that
breaks it, and no behaviour uses them.

### SyncStore and the code

State: `generation`, `entries`, `trash` are the tables; a row is a record with
the columns that matter, and a path without a row is `NoRow`.  `blobs[n]` and
`tmp[n]` are what the running system finds under a name; `blobsDisk[n]` and
`tmpDisk[n]` are the *sets* of what a power loss at this moment may leave there.
Writing a file adds `Torn` and its content, a rename adds to both names,
`File::sync_all` removes `Torn`, `sync_directory` reduces the set to what is
visible, and the kernel may write back at any time (`Writeback`).  `db` is who
holds the database over several steps; `req[t]` is a request and where it is.

| Actions | Code |
|---|---|
| UploadBody, SyncFile, BodyFailed, UploadCancelled | `upload` up to its worker; a dropped future leaves the temporary file |
| CommitRename, SyncBlobs, SyncTmp, TxCommit, TxCommitError, CommitFailed, CommitConflict | `commit_upload_checked`; an error of COMMIT may or may not have taken effect |
| UnlinkBlob, UnlinkFailed | removals after a transaction, errors ignored |
| Delete, Restore, DirectoryDelete, DirectoryRename, Properties | one transaction each, as the code has them |
| PurgeExpired, PurgeTrashItem, StartupPurge | purges: transaction, then removals |
| RecoverBlobs, RecoverRemove, RecoverMisses, RecoverFails, RecoverTmp, RecoverDone, Serve, Shutdown | `serve` and `recover_storage`; a file the administrator removes first is missed by the listing or makes the sweep fail |
| Killed, PowerLoss, Writeback, Tick | the environment |

### UploadSessions and the code

A row and its temporary file have the same name.  A file is a sequence of units,
TRUE where the client's unit is and FALSE where a hole is; `disk` is again the
set of what a power loss may leave.  `active` is `active_uploads`, `lock` its
mutex while the purge holds it, `db` the database mutex, `req` the requests.
A chunk is reserved (ChunkStart), its file cut to the stored offset (ChunkCut),
the body written (ChunkWrite), synced (ChunkSync), and the offset stored
(ChunkDone); an error cuts a device's file once more (ChunkFailed, ChunkRecut).
Cutting and writing run on threads of tokio's file: a handler that is dropped
while it waits for one gives its reservation back (ChunkCancelled), and what it
asked for is in `late` until it lands, whatever the file is by then (LateLands).
`cutLate` is a history: the files that a truncation changed after its request was
gone.  Publication is one rename and one commit, because `SyncStore` has its steps.  The
browser's variants differ from the device's as in the code: no resuming, the
database held over the whole chunk, ownership checked again inside the
publishing transaction, the row deleted in it.

### DeviceEnrollment and the code

`enrollments` is the table `device_enrollments`, `revoked` the devices with a
`revoked_at`, `starts` the calls of `enroll_start` between their two looks at
the table.  `handed` and `proved` record which keys were given a credential and
which have opened it.  An activation secret is named by the key it was made for,
an invitation by its row.

| Actions | Code |
|---|---|
| Invite, Approve, Cancel, RevokeRow | `insert_invitation` for its three callers, `approve`, `cancel`, `revoke_device`, each one transaction of the command line |
| StartChecks; StartBinds, StartResumes, StartRefused, StartFails | `enroll_start` before and after the computation |
| FinishEnrollment | `enroll_finish`, retries included |
| StartsLost, Tick | a restart; the clock |

### RequestAuth and the code

`proofs` are what clients have signed, `nonces` and `sessions` the tables,
`req[r]` the stage of a request: verified, waiting (no permit), granted (a
permit after waiting), body, received, checked (the last check is passed), run
(the handler works), session, open and insert (the statements of `session()`).
The last check and `next.run` are two steps, because the mutex is given back in
between.  `void` is a history: the right to the request had ended when its body
had come.  `db` is the server's mutex where it is held over several
statements without a transaction; the administrator's process does not know it.
`sessions` is a set of rows with their rowids, because the query that evicts
orders by expiry and then by rowid.  The lookups before the signature is verified and the
verification are one step, because the admission checks all of them again.  When
a client goes away, the future of the middleware is dropped.  The workers of the
middleware hold the permit themselves and keep it until they end; that of
`session()` does not, so that it goes on without one (`gone`, ClientGone) and
more workers than permits may be under way.  The limit of all blocking workers
(`blocking_limit`) only delays them and is left out.

| Actions | Code |
|---|---|
| Sign, Verify | the client; headers, lookups, `verify_binding` |
| Admit, AdmitRefused, AdmitWaits, Granted, WaitTimeout, RecordAfterWait, RefusedAfterWait | the admission of `middleware`, `record_proof_nonce`, `check_active_session`, SIGNED_ADMISSION_TIMEOUT |
| BodyReceived, BodyFails, Authorize, BodyRefused | the body, its limits and the last check |
| Serve, Handled | `next.run` and the end of the handler |
| SessionStarts, SessionChecks, SessionEvicts, SessionInserts, ClientGone | `session` |
| Revoke, Restart, TimePasses | `revoke_device` with its sessions, a restart, the clock |

### WebSession and the code

`rows` are the web sessions with their grants, `challenges` the challenges,
`jar` the cookies the tabs share.  Of each tab: `session` is what it shows,
`verifying`, `restoring` and `out` the operations under way, `mail` messages of
the BroadcastChannel that have not arrived, `gone` the sessions it knows to be
over.  A verification goes through its stages (session, challenge, local client,
lookup); restore and logout are served in a step of their own, because their
answers can be overtaken.  The code's epoch is an answer that is dropped.  A
proof may arrive at any time after its ticket has been handed out, also when the
page has given up or the challenge belongs to a session that is over.

### Explorer and the code

`rev` and `last` are the server's files; `wire` holds requests that write and
have not been served, `done` those that were.  Requests that read are answered
in one step.  `shown`, `listing`, `retry`, `timer` and `box` are the listing,
`selected`, `delayed`, `info` and `copy` the details panel, `picker` and `job`
what works on files: `upload`, `transfer` and `folderAction` exclude each other in
the code and are one variable here.  `copy` is a path that is being written to
the clipboard: when the clipboard refuses, the click handler opens the details of
the entry whether its row is still shown or not, and `selected.gone` marks such
details.  `Lock` and `Unlock` are the end and the beginning of access.

### EditorPage and the code

`history` are the versions of the file, `conflicts` what `preserve` kept, `late`
a save the page has given up and the network has not.  `entry`, `eol`,
`savedText`, `input` are the page's text, `saving`, `unconfirmed`, `timer` its
saving, `opening`, `retrying`, `starting`, `departing` the handlers that are
waiting, with their stage; `starting` carries the job of its call, as the code
keeps it in a local variable.  Code between two awaits is one step.  Aborting a
request rejects it before the next event, so `LockPage` also does what the
waiting handlers do; likewise what a handler does after `flush()` comes before
any other event (`FlushEnds`).

## 3. Runs

| Run | Instance | Shows |
|---|---|---|
| `store_crash` | 1 path, 3 revisions, 2 blobs, 2 requests, administrator, 2 crashes anywhere, fair | no row loses its blob, what was checked under the mutex still holds at the commit, recovery cleans up, also after a crash during recovery; the refinement; the server comes up again and the database is released |
| `store_tree` | paths that compete as file and directory, 2 contents, 3 revisions, 1 crash | namespace, ownership, fingerprints, revisions, no lost content, and the refinement, with directory renames and deletions inside the steps of a publication |
| `store_admin` | 1 crash, administrator | **violation**: the first finding of section 6 |
| `uploads` | 2 requests, 1 crash; 1 session of 2 units with 1 late write or truncation, or 2 sessions of 1 unit, a quota of 1, a browser with a grant | durability of acknowledged offsets and verified publication (unless a truncation outlived its request), replacement of the base, reservations, files of sessions, the quota shared by device and browser |
| `upload_ends` | 1 session of 1 unit, 2 requests, 1 late operation, 1 crash, fair | dead sessions go and the two mutexes do not block each other |
| `upload_late` | 1 session of 1 unit, 2 requests, 1 late operation | **violation**: the third finding of section 6 |
| `requests` | 1 device; 2 invitations, 2 keys, 2 starts, or 3 proofs of the first key, 2 requests, 1 permit, 3 tokens of which 2 are kept, a client's clock ahead | one enrolment per device, one key per invitation, approval only of a proved key, a start that resumes finds its challenge; a proof is served once, what ended before the body came is refused, permits and sessions have their limits, also when clients go away and workers overlap |
| `web_session` | 2 file tabs or 1 status tab, 2 devices, 3 sessions, 2 challenges | logged out stays logged out; the grants of one device |
| `explorer` | a directory and 2 files, pages of 1 entry, 2 clicks, 1 job of 2 files | a locked page is empty, details match (but those of a failed copy), reports are true |
| `editor_save` | 2 texts, 2 edits, 3 openings, 1 foreign version or deletion | saving, lost and late answers, retry, lock, leaving |
| `editor_run` | 2 edits, 2 openings or locks, 1 foreign version, 1 job, 1 call, fair | what runs was shown; what was typed, also while a save was under way, is saved or reported; operations end |
| `editor_leave` | 1 edit, 3 openings | **violation**: the second finding of section 6 |

**Why the bounds are enough.**

* Storage: two requests give every pairwise race; a third would only wait for the
  same mutex.  Two blobs are the old and the new one; names are used again once
  nothing has or remembers them, so a run is not limited by them.  One crash
  reaches every step, two reach a crash in the recovery from one.  Three revisions
  allow replace twice, or delete and restore.  `store_crash` has the clock,
  `store_tree` two contents, so that a version taken for another one shows.  No
  run tells the second at which an item of the bin expires: `store_tree` has no
  ticks, and `VersionedFiles` lets the administrator destroy any item.
* Uploads: two units of a file are needed for an offset in the middle.  One
  operation that outlives its request and one request that takes the reservation
  after it reach every step of the second one; a truncation that lands late shows
  with a file of one unit, and what holds regardless with two.  `uploads` follows
  one session of any kind (`Single`) and, of those that share a limit, two of one
  unit without late operations (`Shared`), because what a quota counts is the rows.
  `SessionAge = 0` means that one tick makes a session stale: only the order of
  ticks and touches matters.
* Enrolment and requests: a second invitation is the one that must wait for the
  first, a second key the one that comes too late.  `Past`, `Future` and
  `MaxDelay` are 1 and `NonceLife` is 4, the least that exceeds their sum, as the
  code's 120 seconds exceed 60 + 30 and the delay; the clock runs until a nonce
  has expired.  `requests` follows enrolment with all its invitations and keys until
  somebody signs a proof (`Enrolling`), and from there those of one key
  (`Requesting`): the tables of enrolment are changed in the same way by both, and
  that the requests do not disturb them is `RequestsImplementEnrollment`.  The last
  ticks, for the expiry of a nonce, have one proof; a third proof comes early and
  asks for a session, as the others then do.  One
  permit stands for eight: a limit is met by one more request than it allows.  The
  workers of `session()` overlap all the same, because a client that goes away gives
  the permit back, and so a missing mutex shows.  Two of three sessions are kept,
  because a query that orders wrongly, or takes rows that expire together for
  equal, shows only where some rows stay and some go.
* Browser: the pages of the two kinds have cookies of their own, so that they
  need not be open together (`Windows`).  Lives are one tick: an expiry is before
  or after any other step.  Two challenges give a verification and a late or
  foreign proof of another one.
* Explorer: pages of one entry make paging, and two clicks put any two
  operations of the listing against each other and against answers, timers and
  the job.  Two files of an upload give one that is finished and one that is
  not.  There is one job in a run; that a job leaves nothing to the next one is
  only in the theorems.
* Editor: two edits put a change during a save, in `editor_save` for what the page
  says and in `editor_run` for what becomes of it; three openings and locks are a
  lock and a new opening.  One late save at a time, because of two that name the
  same revision only one can be stored.  A departure that waits for a run to stop is
  not in `editor_save`, which has no jobs: the theorem `DepartsOnlySaved` has it.
  `editor_run` follows three of edits, openings, locks and runs together (`Three`):
  an opening with two edits and with an edit and a run, and its lock with one
  of them.  A behaviour that goes beyond is cut off at the user's step, for which no
  fairness is asked, so that every behaviour that stays within ends as the fairness
  demands, and the liveness of those is checked as it would be without the bound.

The constraints of `MCUploadSessions`, `MCRequestAuth` and `MCEditorPage` leave
out behaviours and change no step: what they leave out is not checked by the run,
and what is proved does not know them.

Symmetry is over model values that are only compared (names, contents, tasks, tabs,
devices, uploads, nonces, tokens, requests), and is not used in the fair runs.  `MaxRevision`,
`MaxTime`, `MaxCrashes`, `MaxLate`, `MaxGrants`, `MaxSessions` and
`MaxChallenges` of `WebSession`, `MaxClicks`, `MaxJobs`, `MaxForeign`,
`MaxEdits`, `MaxGenerations` and `MaxCalls` are guards and have no counterpart
in the code.

**Fairness.**  *Server:* a thread that runs on the worker pool and holds or waits
for a mutex goes on (operating-system scheduling; strong fairness where several
wait for one mutex).  A server that is down is started again: systemd has
Restart=on-failure, and a stopped one is started by its operator.  The purge
timer fires hourly and time passes.  Nothing is assumed of clients: a device's
chunk may never arrive, and `PurgeEnds` and `BrokenSessionsGo` hold regardless.
*Editor:* every request has a time limit, timers fire, and a handler goes on when
what it awaits has ended.  Nothing is assumed of the user, the server or other
devices.

## 4. What is proved

Every theorem holds for all values of the constants that satisfy the named
assumptions.  Each rests on an inductive invariant of which TLC found no
violation on the instances of section 3 before it was proved, and on one lemma per
action; the theorems combine them in a last temporal step.

**Storage** (`SyncStoreProofs`).  For every finite set of
paths, all sets of names, contents and tasks, and every bound, from
`ConstantsAssumption` and `NumbersAssumption` of `SyncStore` (the special values
differ from the ordinary ones, the bounds are naturals) and `PathsAssumption` of
`PathTree` (paths are non-empty sequences of components, finitely many):
`TypeCorrect`, `BlobsSurvive` (`ReferencedBlobsIntact`), `BlobsOwned`
(`BlobsOwnedOnce`), `RecoveryCleans` (`RecoveryLeavesNoOrphans`); and, on paths,
that `Below` is transitive, a directory's rename is injective and preserves and
reflects `Below`, and a directory and its new sibling name have nothing in common
below them.

The inductive invariant is `Inv`.  That a row's blob is intact is not inductive:
a publication makes a row name a blob that it renamed three steps ago, so
`StagedBlobOwned` says that this blob is unreferenced, nobody is going to remove
it, and it is durable once `blobs/` is synced; it comes from a temporary file, so
`TempsOwned` says the same of that.  Removals happen outside the mutex, so
`PendingUnlinksUnreferenced` and `BlobsOwnedOnce` carry that what a task is going
to remove can never be named again.  `MutexHeld` makes two staged blobs
impossible, `StartupQuiet` keeps requests out of recovery, and `SweepExact` says
that recovery is going to remove exactly what nothing refers to.

**What the storage promises** (`SyncStoreRefinement`).  `Implements`
(`ImplementsVersionedFiles`): every step of `SyncStore` is one of `VersionedFiles`
or changes nothing of it; a step either leaves entries, trash and the blobs they
name alone or is one of the transactions.  From it and `VersionInv`:
`NamespaceFlat` (`NamespaceSound`) and `ContentsNeverLost` (`NothingLost`), both
stated on the abstract state, `CheckedCurrent` (`CheckedStateCurrent`),
`RevisionsIdentify` (`RevisionsNameVersions`) and `SnapshotsNameContents`
(`SnapshotNamesContents`).  `VersionInv` adds to `Inv` that no row has a revision
beyond `generation` (`RevisionsBounded`), that the rowids of the trash, which
SQLite may give out again, never meet (`TrashIdsUnique`), and that a row whose
path and revision stand in the fingerprint a user holds still has the content it
had then (`SnapshotTrue`); the first makes a new revision new, the last makes a
matching fingerprint worth something however old it is.  That a rename of a
directory checks the namespace at its new root only is enough because of the
lemmas on paths of `SyncStoreProofs`.

**Chunked uploads** (`UploadSessionsProofs`).  From `NamesAssumption`,
`BoundsAssumption` and `RowAssumption` (an absent row is no row): `TypeCorrect`,
`AcknowledgedIsDurable` (`AcknowledgedDurable`), `PublishedIsVerified`
(`PublishedVerified`), `ReservationsHold` (`ReservationHolds`),
`SessionsStayBounded` (`SessionsBounded`), `FilesOfSessionsKept`
(`SessionsKeepFiles`) and `ReplacesTheBase` (`ReplacesItsBase`), for files of every
size and any number of sessions, requests and late writes.  `Inv` says of each file
that whatever a power loss may leave of it is no longer than the announced size
and, unless a truncation has changed it late, whole up to the acknowledged offset
(`FileSound`), so that a file that was hashed and is complete is complete on disk,
although `finish_upload` does not sync it.  `WorkSound` ties a request to the row it
read: equal but for its age, with what the chunk has written whole behind it.  `BeginSound` keeps the room a begin
has counted until its row is inserted, which is where the database mutex over both
steps is needed.  A write or a truncation that outlived its request may land in
any step of another one and after the publication: `LateSound` says that it stays
within the size of session and publication, and `WriteInComplete` that a write
then changes nothing in a complete file.  A truncation does: `AcknowledgedDurable`
and `PublishedVerified` say nothing of the files in `cutLate`, which are those that
lost or gained units to a truncation without a request, and the theorems show
that nothing else breaks them.  Without this exception both are false:
`upload_late` shows it of the offset.

**Enrolment** (`DeviceEnrollmentProofs`).  For all sets of devices, invitations,
keys and starts and all life times, from `EnrollAssumption` and `NewRow`
(the absent value differs from the others, lives are positive):
`EnrollTypeCorrect`, `EnrollmentsUnique` (`OneEnrollmentPerDevice`),
`ApprovedProved` (`ApprovedKeyProved`), `InvitationBound`
(`OneKeyPerInvitation`), `ResumeSafe` (`BoundStartHasChallenge`).  The invariant
`EnrollInv` joins the types, `OneEnrollmentPerDevice` and
`BoundStartHasChallenge` with `BindingSound`: whoever was handed a credential
holds the key that the row is bound to, a bound row's secrets are that key's,
and a verified row's key has proved itself.  A start that comes back from its
computation carries nothing but its key, which is why nothing has to be said of
`starts`.

**Requests** (`RequestAuthProofs`).  `RequestsImplementEnrollment`: the
composition implements `EnrollSpec`, so that the theorems above hold of it.
`ProofsServedOnce` (`ServedOnce`), from `RequestAssumption`, whose arithmetic is
`Past + Future + MaxDelay < NonceLife`.  The invariant `OnceInv` says that a
request's look at a date is recent (`LooksRecent`), that the nonce of a proof
that was let through or is being handled is in the table as long as a copy could
still pass (`NonceKept`), and that one request owns a recorded proof
(`OneOwner`).  `MaxDelay` is an assumption about the code: the time from the look
at the date to the record of the nonce is the admission timeout of 250 ms and
the waits for the database and a worker, which the code does not bound; the
margin is 30 seconds.  `RequestsTypeCorrect` is `TypeOK`, which also bounds the
permits.  `EndedRightsRefused` (`VoidNotServed`) says of a request whose device was
revoked or whose session ended before its body had come, at whatever step, that
it gets to no handler.  It is the check after the body that refuses it, and that
it still finds nothing then is what has to be shown: a revoked device stays
revoked, an approved enrolment keeps its device, and no session gets a token that
a proof names, although `session()` may insert rows between the end of the right and the
check (`RightEnds`).  Of a right that ends after the body nothing is promised: the
check may come before it, and `next.run` after it.  `SessionsKeepLimit`
(`SessionsLimited`) is about a query, ORDER BY expires_at DESC, rowid DESC with an
offset: `KeptByOffset` shows that what is left by it has at most as many elements
as the offset because distinct rows have distinct rowids; without that, rows that
expire together could all be kept.  The room that a worker has made stays its own
until it inserts (`RoomKept`), because it has the mutex of the database (`MutexHeld`)
whether it still has a permit or not, and the administrator only deletes.

**Web sessions** (`WebSessionProofs`).  For every number of tabs, devices, sessions
and challenges, from `LivesAssumption` (lives and bounds are naturals, and there
may be two sessions): `TypeCorrect`, `GrantsAgree` (`GrantsOfOneDevice`), `LogoutHides`
(`HiddenAfterLogout`), `PresenceKeepsDevice` (`RefreshKeepsDevice`).  In `Inv`,
`ToldTrue` says that a tab is told of a logout only once the session is over, and
numbers of sessions are not used again; `RestoreShape` and `LogoutShape` say that
an answer of `restore()` that could bring a session back has been dropped by
then.  `ProvedAsMeant` and `LookupMeant` follow the device from the challenge a
page asked for to the session it looks up.

**Editor** (`EditorPageProofs`).  From `NamesAssumption` and `BoundsAssumption`, for
any number of edits, openings, jobs, calls and foreign versions: `TypeCorrect`,
`ConfirmedServed` (`ConfirmedTextServed`), `ReplacesShown`
(`ReplacesWhatWasShown`), `RunsWhatWasShown` (`RunsSavedText`), `DepartsOnlySaved`
(`DepartsSaved`).  Each part of `Inv` says what a handler that waits knows about the
server whatever happens meanwhile: a save carries the text it was made of and names
a version that was shown (`SavesSound`), an answer to a load is a version there was
(`AnswersSound`), a start names a version with the text of its job, also after it
was given up (`StartsSound`), and a departure that waits for a run has its text
saved (`DepartureSound`).

**File explorer** (`ExplorerProofs`).  For every tree of files and directories,
every page size and any number of files, jobs and clicks, from `HomeAssumption`,
`BoundsAssumption` and `NullAssumption`: `TypeCorrect`, `LockHides`
(`HiddenWhenLocked`), `DetailsAreShown` (`DetailsMatchListing`), `ReportsAreTrue`
(`ReportsTrue`).  `PageHidden` says that nothing which could bring files back
outlives `lock()`; the one job that does, an upload being taken back, has lost
what it could tell.  `DelayedConnected` is why a panel may open half a second
after its click: a button that is still part of the page is the one of a row as
it is shown.  `DetailsMatchListing` leaves out the details that a failed copy opens
for a button that is not (`selected.gone`): of those `DetailsLinked` is false
(section 7), and they go with the next rows or selection.  For the reports,
`UploadSound` bounds what can have been sent by
the file that is worked on and `committing`, `FolderSound` lists the states of
the dialog in which its request may be out, and `WireSound` says that a request
is on its way once, so that a refusal settles it.  That an answer has no more
entries than the page (`PageBounded`) and that a cursor belongs to each page is
part of the types.  The trees have two levels, with a file in every directory
(`HomeAssumption`): the server makes its directories of the paths of its files.

## 5. What is only model-checked

* Liveness, which the prover has no fairness for: `RecoveryCompletes`,
  `DatabaseReleased`, `BrokenSessionsGo`, `PurgeEnds`, `UnsavedSettles`,
  `OperationsEnd`.
* The three properties that are violated.

Of the types, only those of `RequestAuth` are in a run, because they bound the
permits.

## 6. Findings

1. `recover_storage` says "An immediate transaction also excludes concurrent
   administrative mutations" (`src/src/server.rs:196`).  It excludes their
   transactions, not their file removals: `purge_trash_item` commits and then
   removes its blob, so a blob that recovery listed as unreferenced can vanish
   before `remove_file(..)?`, and startup ends with an error.  `store_admin`
   shows it; `RecoveryCompletes` in `store_crash` shows that a later start
   succeeds.
2. "Le navigateur prévient avant de quitter un brouillon non confirmé"
   (`src/docs/web-code-editor.md:91`).  `leave()` sets `leaving` before a logout
   (`src/web/editor-src/controller.js:275`), and nothing resets it.  A page that
   was logged out and verified again keeps it: the handler of `beforeunload`
   returns at once, and a text typed since is dropped without a question.
   `editor_leave` shows it.
3. "Keep the upload reservation until the durable offset update completes, including
   when the requesting task is cancelled" (`src/src/server.rs:915-916`).  The
   reservation is kept by the worker that stores the offset, but not before:
   `set_len` (`src/src/server.rs:879-881`, and 909 after an error) is awaited by the
   handler and carried out by a blocking thread.  A client that goes away drops the
   handler and the reservation, a retry writes, syncs and acknowledges the chunk,
   and the old truncation then removes it.  `upload_late` shows it.  `hash_upload`
   refuses the short file then, unless the truncation is later still: it may land
   when the file has been hashed or is a blob already, and a row then names a
   shorter file than was verified.  `PublishedVerified` leaves such files out.

## 7. Abstractions, and what is left

**Abstracted.**

* Server: SQLite as atomic, durable transactions (WAL, synchronous FULL); an
  uncertain COMMIT as both outcomes; UUIDs and secrets as names nobody uses or
  remembers; SHA-256 as injective; the wall clock as monotone; path strings as
  sequences of components (the rejection of malformed strings is membership in
  `Paths`).
* `UploadSessions`: a client sends the units of one file in a session, so a late
  write repeats bytes that are or will be there; a device works on its own
  sessions; no path lies below another.  Removing a session's row and its file is
  one step under the database mutex: a crash between them leaves a file without
  row, which `BeginFailed` also leaves.
* Enrolment and requests: certificates, TPM credentials and signatures succeed or
  fail; the settings of `auth-configure` are taken as set.
* `WebSession`: expired rows go with the tick of the clock, since nobody looks at
  them again; a request reads its cookie when it is served; the scopes
  files.write, files.manage, files.edit and code.run are granted alike and are
  one; the limits of pending and of recent challenges are one bound.
* `Explorer`: one path is copied at a time.  When the clipboard refuses a path, the
  menu's handler opens the details of the entry without asking whether its button
  is still connected (`src/web/atlas.js:547`), which every other late opening does
  (400, 442, 539): they may be of a row, or a revision, that is not shown any more,
  although "La ligne sélectionnée est repérée en bleu et reste liée au panneau de
  détails" (`src/docs/web-files.md:38`).  The model has this opening, and
  `DetailsMatchListing` leaves its details out.  An upload that is reported as an error
  is one of which the page says nothing certain, so that `ReportsTrue` does not
  constrain it.
* Pages: digests are computed at once; what a promise does right after its abort
  belongs to the step that aborts it; wording, layout and focus are left out, and
  so is the narrow screen's inert list.

**Not modelled.**  The manifest's paging and downloads (reads under the mutex; the
client that joins the pages is elsewhere), PDF ranges (arithmetic of one
request), `local_fs.rs` (a library without state), origin proofs and response
signatures, static assets, the theme, menus and sidebar of the pages, the
configuration of CodeMirror, the build script and its bundle, prompts and
listings of the command line, logging and rate limits.

**Plan.**  All invariants and action properties of the passing runs are proved;
liveness stays with TLC.
