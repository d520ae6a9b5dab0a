------------------------------ MODULE SyncStore ------------------------------
(***************************************************************************)
(* The storage of mysync-server: SQLite rows that name blob files, the     *)
(* file system that keeps those files, the tasks of the server that        *)
(* interleave on one database mutex, the administrator's process beside    *)
(* it, and restarts after a killed process or a power loss.                *)
(*                                                                         *)
(* SQLite transactions are durable and atomic (journal_mode WAL,           *)
(* synchronous FULL).  The file system is not: next to what the running    *)
(* system sees under a name (blobs, tmp) the model keeps everything a      *)
(* power loss at this instant may leave there (blobsDisk, tmpDisk).        *)
(***************************************************************************)
EXTENDS PathTree, FiniteSets, Functions

CONSTANTS
    Contents,          \* what an upload may carry
    Names,             \* the UUIDs that name blobs
    Temps,             \* the UUIDs that name temporary files
    Tasks,             \* requests and background work the server runs at once
    Admin,             \* the process of `mysync-server trash purge`
    Server,            \* holder of the database during startup recovery
    Free,              \* holder of the database when nobody holds it
    Absent,            \* content of a name that no file has
    Torn,              \* content of a file whose data a power loss truncated
    Null,              \* SQL NULL; also: no snapshot
    RetentionSeconds,  \* RETENTION_SECONDS
    FileLimit,         \* FILE_LIMIT of a directory operation
    MaxRevision,       \* bound: revisions handed out
    MaxTime,           \* bound: ticks of the clock
    MaxCrashes         \* bound: kills and power losses

Actors == Tasks \union {Admin}
Holders == Tasks \union {Server, Free}
FileStates == Contents \union {Absent, Torn}

ASSUME ConstantsAssumption ==
    /\ Admin \notin Tasks
    /\ Server \notin Tasks \union {Free}
    /\ Free \notin Tasks
    /\ Absent \notin Contents
    /\ Torn \notin Contents \union {Absent}
    /\ Null \notin Names \union Temps
ASSUME NumbersAssumption ==
    {RetentionSeconds, FileLimit, MaxRevision, MaxTime, MaxCrashes} \subseteq Nat

VARIABLES
    generation,  \* meta.generation
    entries,     \* table entries; a path without a row is NoRow
    trash,       \* table trash: the set of its rows
    blobs,       \* directory blobs: content of each name
    blobsDisk,   \* what a power loss may leave under each name of blobs
    tmp,         \* directory tmp
    tmpDisk,     \* what a power loss may leave under each name of tmp
    db,          \* who is inside a transaction of several steps
    req,         \* what each task, and the administrator, is doing
    phase,       \* where the server process is between start and serving
    sweep,       \* names that startup recovery listed and has yet to remove
    snap,        \* the directory snapshot a browser shows to its user
    now,         \* the wall clock
    crashes      \* kills and power losses so far

fsVars == <<blobs, blobsDisk, tmp, tmpDisk>>
sqlVars == <<generation, entries, trash>>
vars == <<generation, entries, trash, blobs, blobsDisk, tmp, tmpDisk, db, req,
          phase, sweep, snap, now, crashes>>

-----------------------------------------------------------------------------
(* Rows, requests and the file system *)

\* SHA-256 tells contents apart.
Digest(c) == <<"sha256", c>>
Digests == {Digest(c) : c \in Contents}

NoRow == [revision |-> 0, blob |-> Null, sha256 |-> Null, deleted |-> 1]
LiveRow(r, b, d) == [revision |-> r, blob |-> b, sha256 |-> d, deleted |-> 0]
Tombstone(r) == [revision |-> r, blob |-> Null, sha256 |-> Null, deleted |-> 1]

Entry == [revision : Nat, blob : Names \union {Null},
          sha256 : Digests \union {Null}, deleted : {0, 1}]
TrashRow == [id : Nat, path : Paths, blob : Names, sha256 : Digests,
             expires_at : Nat]

Live == {p \in Paths : entries[p].deleted = 0}

\* Mutant of Unreferenced: the query of recovery forgets the trash.
UnreferencedByEntries(n) == \A p \in Live : entries[p].blob # n

\* No row of entries or trash names the blob n.
Unreferenced(n) ==
    /\ \A p \in Live : entries[p].blob # n
    /\ \A i \in trash : i.blob # n

InTransaction == {"renamed", "blobs_synced", "synced"}
Steps == {"idle", "writing", "received", "unlink"} \union InTransaction
Request == [pc : Steps, path : Paths \union {Null}, base : Nat,
            content : Contents \union {Null}, temp : Temps \union {Null},
            blob : Names \union {Null}, unlink : SUBSET Names]
Idle == [pc |-> "idle", path |-> Null, base |-> 0, content |-> Null,
         temp |-> Null, blob |-> Null, unlink |-> {}]

\* After its transaction a task removes the files of the rows it dropped.
Unlinking(S) == IF S = {} THEN Idle ELSE [Idle EXCEPT !.pc = "unlink", !.unlink = S]

\* Uuid::new_v4: a name that nothing in a directory, in a table or in a
\* task still uses.
FreshTemps == {n \in Temps : tmpDisk[n] = {Absent} /\ \A t \in Tasks : req[t].temp # n}
FreshBlobs == {n \in Names : /\ blobsDisk[n] = {Absent} /\ Unreferenced(n)
                             /\ \A t \in Actors : n \notin req[t].unlink}

\* fsync of a directory settles which names it has; the data of a file is
\* settled by the fsync of the file.
Synced(view, disk) ==
    [n \in DOMAIN view |-> IF view[n] = Absent THEN {Absent} ELSE disk[n] \ {Absent}]

\* unlink of n: until the directory is synced, the file may come back.
Unlinked(view, n) == [view EXCEPT ![n] = Absent]
UnlinkedDisk(disk, n) == [disk EXCEPT ![n] = @ \union {Absent}]

Init ==
    /\ generation = 0
    /\ entries = [p \in Paths |-> NoRow]
    /\ trash = {}
    /\ blobs = [n \in Names |-> Absent]
    /\ blobsDisk = [n \in Names |-> {Absent}]
    /\ tmp = [n \in Temps |-> Absent]
    /\ tmpDisk = [n \in Temps |-> {Absent}]
    /\ db = Free
    /\ req = [t \in Actors |-> Idle]
    /\ phase = "down"
    /\ sweep = {}
    /\ snap = Null
    /\ now = 0
    /\ crashes = 0

-----------------------------------------------------------------------------
(* PUT /v1/files: upload, commit_upload and commit_upload_checked *)

\* The body is streamed into a new temporary file, hashed on the way.
UploadBody(t, p, base, c) ==
    /\ phase = "serving"
    /\ req[t] = Idle
    /\ \E n \in FreshTemps :
         /\ tmp' = [tmp EXCEPT ![n] = c]
         /\ tmpDisk' = [tmpDisk EXCEPT ![n] = {Absent, Torn, c}]
         /\ req' = [req EXCEPT ![t] = [pc |-> "writing", path |-> p, base |-> base,
                        content |-> c, temp |-> n, blob |-> Null, unlink |-> {}]]
    /\ UNCHANGED <<sqlVars, blobs, blobsDisk, db, phase, sweep, snap, now, crashes>>

\* file.sync_all: the data is on disk, the name need not be.
SyncFile(t) ==
    /\ req[t].pc = "writing"
    /\ tmpDisk' = [tmpDisk EXCEPT ![req[t].temp] = {Absent, req[t].content}]
    /\ req' = [req EXCEPT ![t].pc = "received"]
    /\ UNCHANGED <<sqlVars, blobs, blobsDisk, tmp, db, phase, sweep, snap, now, crashes>>

\* A broken body, or one that is too large: the temporary file is removed.
BodyFailed(t) ==
    /\ req[t].pc = "writing"
    /\ tmp' = Unlinked(tmp, req[t].temp)
    /\ tmpDisk' = UnlinkedDisk(tmpDisk, req[t].temp)
    /\ req' = [req EXCEPT ![t] = Idle]
    /\ UNCHANGED <<sqlVars, blobs, blobsDisk, db, phase, sweep, snap, now, crashes>>

\* The client goes away: the handler is dropped wherever it waits before its
\* worker has started, and nothing removes the temporary file.
UploadCancelled(t) ==
    /\ req[t].pc \in {"writing", "received"}
    /\ req' = [req EXCEPT ![t] = Idle]
    /\ UNCHANGED <<sqlVars, fsVars, db, phase, sweep, snap, now, crashes>>

\* check_path_namespace and the comparison with the base revision.
MayCommit(t) ==
    /\ NamespaceFree(Live, req[t].path)
    /\ entries[req[t].path].revision = req[t].base

\* Mutant of CommitRename: the mutex is not kept over the file operations.
CommitRenameUnlocked(t) ==
    /\ req[t].pc = "received" /\ db = Free /\ MayCommit(t)
    /\ generation < MaxRevision
    /\ \E b \in FreshBlobs :
         /\ blobs' = [blobs EXCEPT ![b] = tmp[req[t].temp]]
         /\ blobsDisk' = [blobsDisk EXCEPT ![b] = tmpDisk[req[t].temp] \union {Absent}]
         /\ req' = [req EXCEPT ![t].pc = "renamed", ![t].blob = b]
    /\ tmp' = Unlinked(tmp, req[t].temp)
    /\ tmpDisk' = UnlinkedDisk(tmpDisk, req[t].temp)
    /\ UNCHANGED <<sqlVars, db, phase, sweep, snap, now, crashes>>

\* The mutex is taken, the checks pass, the row is written inside the
\* transaction and the temporary file is renamed to a new blob.
CommitRename(t) ==
    /\ req[t].pc = "received"
    /\ db = Free
    /\ MayCommit(t)
    /\ generation < MaxRevision
    /\ \E b \in FreshBlobs :
         /\ blobs' = [blobs EXCEPT ![b] = tmp[req[t].temp]]
         /\ blobsDisk' = [blobsDisk EXCEPT ![b] = tmpDisk[req[t].temp] \union {Absent}]
         /\ req' = [req EXCEPT ![t].pc = "renamed", ![t].blob = b]
    /\ tmp' = Unlinked(tmp, req[t].temp)
    /\ tmpDisk' = UnlinkedDisk(tmpDisk, req[t].temp)
    /\ db' = t
    /\ UNCHANGED <<sqlVars, phase, sweep, snap, now, crashes>>

\* The server version wins: the client must read the manifest again.
CommitConflict(t) ==
    /\ req[t].pc = "received"
    /\ db = Free
    /\ ~MayCommit(t)
    /\ tmp' = Unlinked(tmp, req[t].temp)
    /\ tmpDisk' = UnlinkedDisk(tmpDisk, req[t].temp)
    /\ req' = [req EXCEPT ![t] = Idle]
    /\ UNCHANGED <<sqlVars, blobs, blobsDisk, db, phase, sweep, snap, now, crashes>>

\* Mutant of SyncBlobs: the directory of the blobs is not synced.
SyncBlobsSkipped(t) ==
    /\ req[t].pc = "renamed"
    /\ req' = [req EXCEPT ![t].pc = "blobs_synced"]
    /\ UNCHANGED <<sqlVars, fsVars, db, phase, sweep, snap, now, crashes>>

\* sync_directory(blobs), then sync_directory(tmp).
SyncBlobs(t) ==
    /\ req[t].pc = "renamed"
    /\ blobsDisk' = Synced(blobs, blobsDisk)
    /\ req' = [req EXCEPT ![t].pc = "blobs_synced"]
    /\ UNCHANGED <<sqlVars, blobs, tmp, tmpDisk, db, phase, sweep, snap, now, crashes>>

SyncTmp(t) ==
    /\ req[t].pc = "blobs_synced"
    /\ tmpDisk' = Synced(tmp, tmpDisk)
    /\ req' = [req EXCEPT ![t].pc = "synced"]
    /\ UNCHANGED <<sqlVars, blobs, blobsDisk, tmp, db, phase, sweep, snap, now, crashes>>

\* Mutant of CommitFailed: the failed publication keeps the database.
CommitFailedHolding(t) ==
    /\ \/ req[t].pc = "received" /\ db = Free
       \/ req[t].pc \in {"renamed", "blobs_synced"}
    /\ tmp' = Unlinked(tmp, req[t].temp)
    /\ tmpDisk' = UnlinkedDisk(tmpDisk, req[t].temp)
    /\ req' = [req EXCEPT ![t] = Idle]
    /\ UNCHANGED <<sqlVars, blobs, blobsDisk, db, phase, sweep, snap, now, crashes>>

\* An I/O error before the commit rolls the transaction back; what was
\* renamed stays in blobs, unreferenced, until the next start.
CommitFailed(t) ==
    /\ \/ req[t].pc = "received" /\ db = Free
       \/ req[t].pc \in {"renamed", "blobs_synced"}
    /\ tmp' = Unlinked(tmp, req[t].temp)
    /\ tmpDisk' = UnlinkedDisk(tmpDisk, req[t].temp)
    /\ db' = Free
    /\ req' = [req EXCEPT ![t] = Idle]
    /\ UNCHANGED <<sqlVars, blobs, blobsDisk, phase, sweep, snap, now, crashes>>

\* Mutant of PublishRow: next_revision does not store the generation.
PublishRowUncounted(t) ==
    /\ entries' = [entries EXCEPT ![req[t].path] =
                     LiveRow(generation + 1, req[t].blob, Digest(req[t].content))]
    /\ UNCHANGED <<generation, trash>>

\* The rows of the transaction take effect.
PublishRow(t) ==
    /\ generation' = generation + 1
    /\ entries' = [entries EXCEPT ![req[t].path] =
                     LiveRow(generation + 1, req[t].blob, Digest(req[t].content))]
    /\ UNCHANGED trash

\* The mutex is released before the replaced blob is removed.
TxCommit(t) ==
    /\ req[t].pc = "synced"
    /\ PublishRow(t)
    /\ db' = Free
    /\ req' = [req EXCEPT ![t] = Unlinking({entries[req[t].path].blob} \ {Null})]
    /\ UNCHANGED <<fsVars, phase, sweep, snap, now, crashes>>

\* Mutant of TxCommitError: an uncertain commit is taken for a failed one and
\* the new blob is removed.
TxCommitErrorUnlinks(t) ==
    /\ req[t].pc = "synced"
    /\ PublishRow(t) \/ UNCHANGED sqlVars
    /\ db' = Free
    /\ req' = [req EXCEPT ![t] = Unlinking({req[t].blob})]
    /\ UNCHANGED <<fsVars, phase, sweep, snap, now, crashes>>

\* COMMIT reports an error and its outcome is uncertain: both are possible,
\* and neither the new nor the old blob is removed.
TxCommitError(t) ==
    /\ req[t].pc = "synced"
    /\ PublishRow(t) \/ UNCHANGED sqlVars
    /\ db' = Free
    /\ req' = [req EXCEPT ![t] = Idle]
    /\ UNCHANGED <<fsVars, phase, sweep, snap, now, crashes>>

\* remove_file on a blob no row names any more, outside the mutex ...
UnlinkBlob(t) ==
    \E n \in req[t].unlink :
        /\ blobs' = Unlinked(blobs, n)
        /\ blobsDisk' = UnlinkedDisk(blobsDisk, n)
        /\ req' = [req EXCEPT ![t] = Unlinking(@.unlink \ {n})]
        /\ UNCHANGED <<sqlVars, tmp, tmpDisk, db, phase, sweep, snap, now, crashes>>

\* ... whose failure is ignored.
UnlinkFailed(t) ==
    \E n \in req[t].unlink :
        /\ req' = [req EXCEPT ![t] = Unlinking(@.unlink \ {n})]
        /\ UNCHANGED <<sqlVars, fsVars, db, phase, sweep, snap, now, crashes>>

-----------------------------------------------------------------------------
(* Transactions without file operations run in one step under the mutex *)

\* The rowid SQLite gives the next row: one more than the largest in use.
NextIds == {id \in {1} \union {i.id + 1 : i \in trash} : \A i \in trash : i.id < id}

\* Mutant of TrashRowOf: the row expires at once.
TrashRowUnretained(id, p) == [id |-> id, path |-> p, blob |-> entries[p].blob,
                              sha256 |-> entries[p].sha256, expires_at |-> now]
TrashRowOf(id, p) == [id |-> id, path |-> p, blob |-> entries[p].blob,
                      sha256 |-> entries[p].sha256,
                      expires_at |-> now + RetentionSeconds]

SqlOnly == UNCHANGED <<fsVars, db, req, phase, sweep, now, crashes>>

\* Mutant of Delete: the row of the trash is forgotten.
DeleteUntrashed(p) ==
    /\ phase = "serving" /\ db = Free
    /\ entries[p].deleted = 0
    /\ generation < MaxRevision
    /\ generation' = generation + 1
    /\ entries' = [entries EXCEPT ![p] = Tombstone(generation + 1)]
    /\ SqlOnly /\ UNCHANGED <<trash, snap>>

\* DELETE /v1/files with the revision of a live file.
Delete(p) ==
    /\ phase = "serving" /\ db = Free
    /\ entries[p].deleted = 0
    /\ generation < MaxRevision
    /\ \E id \in NextIds : trash' = trash \union {TrashRowOf(id, p)}
    /\ generation' = generation + 1
    /\ entries' = [entries EXCEPT ![p] = Tombstone(generation + 1)]
    /\ SqlOnly /\ UNCHANGED snap

\* Mutant of Restore: the trash row stays.
RestoreKeepsRow(i) ==
    /\ phase = "serving" /\ db = Free
    /\ i.expires_at > now
    /\ NamespaceFree(Live, i.path) /\ i.path \notin Live
    /\ generation < MaxRevision
    /\ generation' = generation + 1
    /\ entries' = [entries EXCEPT ![i.path] = LiveRow(generation + 1, i.blob, i.sha256)]
    /\ UNCHANGED <<trash, snap>>
    /\ SqlOnly

\* POST /v1/trash/restore of an item that has not expired.
Restore(i) ==
    /\ phase = "serving" /\ db = Free
    /\ i.expires_at > now
    /\ NamespaceFree(Live, i.path) /\ i.path \notin Live
    /\ generation < MaxRevision
    /\ generation' = generation + 1
    /\ entries' = [entries EXCEPT ![i.path] = LiveRow(generation + 1, i.blob, i.sha256)]
    /\ trash' = trash \ {i}
    /\ SqlOnly /\ UNCHANGED snap

\* files() of directories.rs and the fingerprint a browser keeps of them.
FilesBelow(d) == {p \in Live : Below(d, p)}

\* Mutant of Fingerprint: of the paths alone.
FingerprintOfPaths(S) == {<<p, 0>> : p \in S}
Fingerprint(S) == {<<p, entries[p].revision>> : p \in S}

\* GET directory/properties: the browser keeps the fingerprint, which a
\* directory above FILE_LIMIT does not get.  What the files held is remembered
\* only to state SnapshotNamesContents.
Properties(d) ==
    /\ phase = "serving" /\ db = Free
    /\ FilesBelow(d) # {} /\ Cardinality(FilesBelow(d)) <= FileLimit
    /\ snap' = [dir |-> d, snapshot |-> Fingerprint(FilesBelow(d)),
                held |-> [p \in FilesBelow(d) |-> blobs[entries[p].blob]]]
    /\ SqlOnly /\ UNCHANGED sqlVars

\* checked_files: the directory is still the one the browser was shown.
CheckedFiles(S) ==
    /\ phase = "serving" /\ db = Free
    /\ S # {} /\ Cardinality(S) <= FileLimit
    /\ Fingerprint(S) = snap.snapshot

\* The rows are visited one by one, in the order of their paths.
Orders(S) == Bijection(S, 1..Cardinality(S))

\* The rows of S become trash rows and tombstones in one transaction.
DirectoryDelete ==
    /\ snap # Null
    /\ LET S == FilesBelow(snap.dir) IN
         /\ CheckedFiles(S)
         /\ generation + Cardinality(S) <= MaxRevision
         /\ generation' = generation + Cardinality(S)
         /\ \E ord \in Orders(S), id \in NextIds :
              /\ entries' = [p \in Paths |-> IF p \in S
                               THEN Tombstone(generation + ord[p]) ELSE entries[p]]
              /\ trash' = trash \union {TrashRowOf(id + ord[p] - 1, p) : p \in S}
    /\ snap' = Null
    /\ SqlOnly

\* Each row of S becomes a tombstone and its blob moves to a row below target.
\* Only the root of the new tree is checked against the namespace.
DirectoryRename(name) ==
    /\ snap # Null
    /\ LET S == FilesBelow(snap.dir)
           target == Renamed(snap.dir, name)
           From(q) == {p \in S : q = Moved(snap.dir, target, p)}
       IN  /\ CheckedFiles(S)
           /\ target # snap.dir
           /\ NamespaceFree(Live, target) /\ target \notin Live
           /\ \A p \in S : Moved(snap.dir, target, p) \in Paths
           /\ generation + 2 * Cardinality(S) <= MaxRevision
           /\ generation' = generation + 2 * Cardinality(S)
           /\ \E ord \in Orders(S) :
                entries' = [q \in Paths |->
                  IF q \in S THEN Tombstone(generation + 2 * ord[q] - 1)
                  ELSE IF From(q) = {} THEN entries[q]
                  ELSE LET p == CHOOSE p \in S : q = Moved(snap.dir, target, p)
                       IN  LiveRow(generation + 2 * ord[p],
                                   entries[p].blob, entries[p].sha256)]
    /\ snap' = Null
    /\ UNCHANGED trash
    /\ SqlOnly

\* Rows leave the trash in a transaction of actor t; then t removes the files.
DropRows(t, S) ==
    /\ req[t] = Idle /\ db = Free
    /\ S # {}
    /\ trash' = trash \ S
    /\ req' = [req EXCEPT ![t] = Unlinking({i.blob : i \in S})]
    /\ UNCHANGED <<generation, entries, fsVars, db, sweep, snap, now, crashes>>

Expired == {i \in trash : i.expires_at <= now}

\* purge_expired, once an hour.
PurgeExpired(t) ==
    /\ phase = "serving"
    /\ DropRows(t, Expired)
    /\ UNCHANGED phase

\* purge_trash_item: another process, which does not hold the service lock.
PurgeTrashItem(i) ==
    /\ DropRows(Admin, {i})
    /\ UNCHANGED phase

-----------------------------------------------------------------------------
(* serve: recovery at startup, and what ends the process *)

\* recover_storage goes through the blobs that no row names, inside an
\* immediate transaction.
RecoverBlobs ==
    /\ phase = "down" /\ db = Free
    /\ phase' = "sweep_blobs"
    /\ db' = Server
    /\ sweep' = {n \in Names : blobs[n] # Absent /\ Unreferenced(n)}
    /\ UNCHANGED <<sqlVars, fsVars, req, snap, now, crashes>>

\* One of the listed files is removed ...
RecoverRemove(n) ==
    /\ n \in sweep
    /\ \/ /\ phase = "sweep_blobs" /\ blobs[n] # Absent
          /\ blobs' = Unlinked(blobs, n)
          /\ blobsDisk' = UnlinkedDisk(blobsDisk, n)
          /\ UNCHANGED <<tmp, tmpDisk>>
       \/ /\ phase = "sweep_tmp" /\ tmp[n] # Absent
          /\ tmp' = Unlinked(tmp, n)
          /\ tmpDisk' = UnlinkedDisk(tmpDisk, n)
          /\ UNCHANGED <<blobs, blobsDisk>>
    /\ sweep' = sweep \ {n}
    /\ UNCHANGED <<sqlVars, db, req, phase, snap, now, crashes>>

\* ... and a listed file that is gone makes remove_file(...)? end the process.
RecoverFails(n) ==
    /\ n \in sweep
    /\ phase = "sweep_blobs" /\ blobs[n] = Absent
    /\ phase' = "down"
    /\ db' = Free
    /\ sweep' = {}
    /\ UNCHANGED <<sqlVars, fsVars, req, snap, now, crashes>>

\* A file that went before read_dir came to it is not seen at all.
RecoverMisses(n) ==
    /\ n \in sweep
    /\ phase = "sweep_blobs" /\ blobs[n] = Absent
    /\ sweep' = sweep \ {n}
    /\ UNCHANGED <<sqlVars, fsVars, db, req, phase, snap, now, crashes>>

\* Mutant of RecoverTmp: blobs is not synced after its sweep.
RecoverTmpUnsynced ==
    /\ phase = "sweep_blobs" /\ sweep = {}
    /\ phase' = "sweep_tmp"
    /\ sweep' = {n \in Temps : tmp[n] # Absent}
    /\ UNCHANGED <<sqlVars, fsVars, db, req, snap, now, crashes>>

\* blobs is synced; then tmp is swept, where no task of this process has a
\* file yet.
RecoverTmp ==
    /\ phase = "sweep_blobs" /\ sweep = {}
    /\ blobsDisk' = Synced(blobs, blobsDisk)
    /\ phase' = "sweep_tmp"
    /\ sweep' = {n \in Temps : tmp[n] # Absent}
    /\ UNCHANGED <<sqlVars, blobs, tmp, tmpDisk, db, req, snap, now, crashes>>

RecoverDone ==
    /\ phase = "sweep_tmp" /\ sweep = {}
    /\ tmpDisk' = Synced(tmp, tmpDisk)
    /\ phase' = "recovered"
    /\ db' = Free
    /\ UNCHANGED <<sqlVars, blobs, blobsDisk, tmp, req, sweep, snap, now, crashes>>

\* purge_expired before the listener is bound.
StartupPurge(t) ==
    /\ phase = "recovered"
    /\ DropRows(t, Expired)
    /\ phase' = "purging"

\* Mutant of Serve: after a startup purge the listener is not bound.
ServeUnlessPurged ==
    /\ phase = "recovered" /\ Expired = {}
    /\ \A t \in Tasks : req[t] = Idle
    /\ phase' = "serving"
    /\ UNCHANGED <<sqlVars, fsVars, db, req, sweep, snap, now, crashes>>

Serve ==
    /\ \/ phase = "recovered" /\ Expired = {}
       \/ phase = "purging"
    /\ \A t \in Tasks : req[t] = Idle
    /\ phase' = "serving"
    /\ UNCHANGED <<sqlVars, fsVars, db, req, sweep, snap, now, crashes>>

\* SIGTERM: the server stops accepting, drains what it has, and exits.
Shutdown ==
    /\ phase = "serving"
    /\ \A t \in Tasks : req[t] = Idle
    /\ phase' = "down"
    /\ UNCHANGED <<sqlVars, fsVars, db, req, sweep, snap, now, crashes>>

\* The process of the server is killed; the kernel keeps what was written.
Killed ==
    /\ crashes < MaxCrashes
    /\ crashes' = crashes + 1
    /\ phase' = "down"
    /\ db' = Free
    /\ sweep' = {}
    /\ req' = [t \in Actors |-> IF t = Admin THEN req[t] ELSE Idle]
    /\ UNCHANGED <<sqlVars, fsVars, snap, now>>

\* The machine loses power: every name keeps one of its possible contents.
PowerLoss ==
    /\ crashes < MaxCrashes
    /\ crashes' = crashes + 1
    /\ phase' = "down"
    /\ db' = Free
    /\ sweep' = {}
    /\ req' = [t \in Actors |-> Idle]
    /\ blobs' \in {f \in [Names -> FileStates] : \A n \in Names : f[n] \in blobsDisk[n]}
    /\ tmp' \in {f \in [Temps -> FileStates] : \A n \in Temps : f[n] \in tmpDisk[n]}
    /\ blobsDisk' = [n \in Names |-> {blobs'[n]}]
    /\ tmpDisk' = [n \in Temps |-> {tmp'[n]}]
    /\ UNCHANGED <<sqlVars, snap, now>>

\* The kernel writes its cache back in its own time.
Writeback ==
    /\ \/ \E n \in Names : blobsDisk[n] # {blobs[n]}
       \/ \E n \in Temps : tmpDisk[n] # {tmp[n]}
    /\ blobsDisk' = [n \in Names |-> {blobs[n]}]
    /\ tmpDisk' = [n \in Temps |-> {tmp[n]}]
    /\ UNCHANGED <<sqlVars, blobs, tmp, db, req, phase, sweep, snap, now, crashes>>

Tick ==
    /\ now < MaxTime
    /\ now' = now + 1
    /\ UNCHANGED <<sqlVars, fsVars, db, req, phase, sweep, snap, crashes>>

-----------------------------------------------------------------------------
Upload(t) ==
    \/ \E p \in Paths, c \in Contents, base \in 0..generation : UploadBody(t, p, base, c)
    \/ SyncFile(t) \/ BodyFailed(t) \/ UploadCancelled(t)
    \/ CommitConflict(t) \/ CommitRename(t) \/ CommitFailed(t)
    \/ SyncBlobs(t) \/ SyncTmp(t)
    \/ TxCommit(t) \/ TxCommitError(t)

Recovery ==
    \/ RecoverBlobs \/ RecoverTmp \/ RecoverDone \/ Serve
    \/ \E n \in Names \union Temps : RecoverRemove(n) \/ RecoverFails(n) \/ RecoverMisses(n)
    \/ \E t \in Tasks : StartupPurge(t)

Next ==
    \/ \E t \in Tasks : Upload(t) \/ PurgeExpired(t)
    \/ \E t \in Actors : UnlinkBlob(t) \/ UnlinkFailed(t)
    \/ \E p \in Paths : Delete(p) \/ Properties(p)
    \/ \E i \in trash : Restore(i) \/ PurgeTrashItem(i)
    \/ DirectoryDelete
    \/ \E name \in Components : DirectoryRename(name)
    \/ Recovery
    \/ Shutdown \/ Killed \/ PowerLoss \/ Writeback
    \/ Tick

Spec == Init /\ [][Next]_vars

\* A thread that holds the mutex, or has files to remove, is scheduled again.
\* A server that is down is started again: by systemd when it failed
\* (Restart=on-failure), by the operator when it was stopped.
Fairness ==
    /\ WF_vars(Recovery)
    /\ \A t \in Tasks : WF_vars(SyncBlobs(t) \/ SyncTmp(t) \/ TxCommit(t))
    /\ \A t \in Actors : WF_vars(UnlinkBlob(t) \/ UnlinkFailed(t))
FairSpec == Spec /\ Fairness

-----------------------------------------------------------------------------
(* What must hold *)

Snapshot == [dir : Paths, snapshot : SUBSET (Paths \X Nat),
             held : UNION {[S -> FileStates] : S \in SUBSET Paths}]
Phases == {"down", "sweep_blobs", "sweep_tmp", "recovered", "purging", "serving"}

\* The rows, directories and requests have the shape their code gives them.
TypeOK ==
    /\ generation \in Nat
    /\ entries \in [Paths -> Entry]
    /\ trash \subseteq TrashRow
    /\ blobs \in [Names -> FileStates]
    /\ blobsDisk \in [Names -> SUBSET FileStates]
    /\ tmp \in [Temps -> FileStates]
    /\ tmpDisk \in [Temps -> SUBSET FileStates]
    /\ db \in Holders
    /\ req \in [Actors -> Request]
    /\ phase \in Phases
    /\ sweep \subseteq Names \union Temps
    /\ snap \in Snapshot \union {Null}
    /\ now \in Nat
    /\ crashes \in Nat

\* b is on disk whatever happens next, with the content its row describes.
Intact(b, sha256) ==
    \E c \in Contents : blobs[b] = c /\ blobsDisk[b] = {c} /\ Digest(c) = sha256

\* "A durable SQLite reference must never precede its directory entry": the
\* blob of a live file or of a trash row survives every power loss, with the
\* content whose digest the row holds.  Publication, replacement, purge,
\* administrator and recovery all create or remove blobs around this.
ReferencedBlobsIntact ==
    /\ \A p \in Live : Intact(entries[p].blob, entries[p].sha256)
    /\ \A i \in trash : Intact(i.blob, i.sha256)

\* A blob belongs to one row: otherwise replacing, deleting or purging one
\* file would remove the content of another (a rename or a restore moves a
\* blob between rows without copying it).
BlobsOwnedOnce ==
    /\ \A p, q \in Live : entries[p].blob = entries[q].blob => p = q
    /\ \A i, j \in trash : i.blob = j.blob => i = j
    /\ \A p \in Live, i \in trash : entries[p].blob # i.blob

\* Whatever a task is still going to unlink is named by no row, also when the
\* row's blob has moved to another path or came back from the trash since.
PendingUnlinksUnreferenced ==
    \A t \in Actors : \A n \in req[t].unlink : Unreferenced(n)

\* While a publication syncs directories, the state it was checked against
\* (base revision and namespace) is still the current one.
CheckedStateCurrent ==
    \A t \in Tasks : req[t].pc \in InTransaction => MayCommit(t)

\* A directory that still has the fingerprint the user was shown still holds
\* what it held then: a rename or delete never acts on other contents (no ABA).
SnapshotNamesContents ==
    snap # Null /\ Fingerprint(FilesBelow(snap.dir)) = snap.snapshot
    => \A p \in FilesBelow(snap.dir) : blobs[entries[p].blob] = snap.held[p]

\* Recovery leaves neither directory a file of an interrupted operation, and
\* no power loss can bring one back: every unlinked, cancelled, failed or
\* uncertain operation before the restart is cleaned up for good.
RecoveryLeavesNoOrphans ==
    /\ phase = "sweep_tmp" => \A n \in Names : Unreferenced(n) => blobsDisk[n] = {Absent}
    /\ phase = "recovered" => \A n \in Temps : tmpDisk[n] = {Absent}

\* A row changes only to a revision that no row has or had, also where a
\* directory changes several rows at once, and while a row keeps its revision
\* its content is the same, across replacement, restore, rename, crash and
\* recovery: a client that sends the revision it knows cannot overwrite what it
\* has not seen.
RevisionsNameVersions ==
    [][\A p \in Paths :
         \/ \A q \in Paths : /\ entries'[p].revision > entries[q].revision
                             /\ q = p \/ entries'[p].revision # entries'[q].revision
         \/ /\ entries'[p] = entries[p]
            /\ entries[p].deleted = 0 => blobs'[entries[p].blob] = blobs[entries[p].blob]]_vars

-----------------------------------------------------------------------------
(* The inductive invariant behind the safety properties *)

\* A row is live exactly when it names a blob.
RowShape == \A p \in Paths : IF entries[p].deleted = 0 THEN entries[p].blob \in Names
                                                       ELSE entries[p].blob = Null

\* One task at a time is inside a publication, and the mutex knows it.
MutexHeld == \A t \in Tasks : req[t].pc \in InTransaction <=> db = t

\* Files are removed between transactions, and the administrator's process
\* does nothing else.
UnlinkShape ==
    /\ \A t \in Actors : req[t].unlink # {} => req[t].pc = "unlink"
    /\ req[Admin].pc \in {"idle", "unlink"}

\* An upload before its transaction owns its temporary file.
TempsOwned ==
    /\ \A t \in Tasks : req[t].pc \in {"writing", "received"} =>
          /\ req[t].path \in Paths /\ req[t].content \in Contents /\ req[t].temp \in Temps
          /\ tmp[req[t].temp] = req[t].content
          /\ req[t].pc = "received" => tmpDisk[req[t].temp] \ {Absent} = {req[t].content}
    /\ \A t, u \in Tasks : req[t].temp = req[u].temp /\ req[t].temp # Null => t = u

\* A publication owns the blob its row is going to name: no row names it yet,
\* nobody will remove it, and after sync_directory it is durable.
StagedBlobOwned ==
    \A t \in Tasks : req[t].pc \in InTransaction =>
        /\ req[t].path \in Paths /\ req[t].content \in Contents /\ req[t].blob \in Names
        /\ Unreferenced(req[t].blob)
        /\ \A u \in Actors : req[t].blob \notin req[u].unlink
        /\ blobs[req[t].blob] = req[t].content
        /\ blobsDisk[req[t].blob] \ {Absent} = {req[t].content}
        /\ req[t].pc # "renamed" => Absent \notin blobsDisk[req[t].blob]

\* Before the server serves, its tasks do nothing but the startup purge, and
\* recovery alone is in the database.
StartupQuiet ==
    /\ \A t \in Tasks : phase = "purging" => req[t].pc \in {"idle", "unlink"}
    /\ \A t \in Tasks : phase \notin {"purging", "serving"} => req[t].pc = "idle"
    /\ phase \in {"sweep_blobs", "sweep_tmp"} <=> db = Server

\* What recovery is going to remove is exactly what nothing refers to.
SweepExact ==
    /\ phase = "sweep_blobs" =>
          /\ \A n \in sweep : n \in Names /\ Unreferenced(n)
          /\ \A n \in Names : blobs[n] # Absent /\ Unreferenced(n) => n \in sweep
    /\ phase = "sweep_tmp" =>
          /\ \A n \in Temps : tmp[n] # Absent => n \in sweep
          /\ \A n \in Names : Unreferenced(n) => blobs[n] = Absent
    /\ phase = "recovered" => \A n \in Temps : tmp[n] = Absent
    /\ phase \notin {"sweep_blobs", "sweep_tmp"} => sweep = {}

Inv ==
    /\ TypeOK
    /\ RowShape
    /\ ReferencedBlobsIntact
    /\ BlobsOwnedOnce
    /\ PendingUnlinksUnreferenced
    /\ MutexHeld
    /\ UnlinkShape
    /\ TempsOwned
    /\ StagedBlobOwned
    /\ StartupQuiet
    /\ SweepExact
    /\ RecoveryLeavesNoOrphans

\* No row has a revision that was not given out yet.
RevisionsBounded == \A p \in Paths : entries[p].revision <= generation

\* The reused rowids of the trash never meet.
TrashIdsUnique == \A i, j \in trash : i.id = j.id => i = j

\* A row whose path and revision are in the fingerprint the user was shown is
\* live and holds what it held then.
SnapshotTrue ==
    snap # Null =>
        /\ \A e \in snap.snapshot : e[2] <= generation
        /\ \A p \in Paths : <<p, entries[p].revision>> \in snap.snapshot =>
              p \in Live /\ blobs[entries[p].blob] = snap.held[p]

\* With Inv: what the histories of rows and files rest on.
VersionInv ==
    /\ Inv
    /\ CheckedStateCurrent
    /\ RevisionsBounded
    /\ TrashIdsUnique
    /\ SnapshotTrue

-----------------------------------------------------------------------------
\* Every file that startup recovery listed is there when it removes it: "An
\* immediate transaction also excludes concurrent administrative mutations".
\* purge_trash_item removes its file after its transaction, so this fails.
SweepExcludesAdmin ==
    phase = "sweep_blobs" => \A n \in sweep : blobs[n] # Absent

\* A server that is not serving gets there: recovery removes what it finds,
\* or fails because of the administrator and is started again, finitely often.
RecoveryCompletes == phase # "serving" ~> phase = "serving"

\* Nobody keeps the database: every way out of a transaction of several steps,
\* the failures included, releases it.
DatabaseReleased == db # Free ~> db = Free

\* The abstract store this one implements: file contents are read through
\* the blobs the rows name.
Content(b) == IF b = Null THEN Absent ELSE blobs[b]

Abstract == INSTANCE VersionedFiles WITH
    files <- [p \in Paths |-> [revision |-> entries[p].revision,
                               content |-> Content(entries[p].blob)]],
    bin <- {[id |-> i.id, path |-> i.path, content |-> Content(i.blob),
             expires_at |-> i.expires_at] : i \in trash},
    Retention <- RetentionSeconds

\* Publication, deletion, restore, directory rename and delete, and purge take
\* effect at one instant each; every other step, crashes and recovery
\* included, changes no file anyone can read.
ImplementsVersionedFiles == Abstract!Spec

\* No live file lies below another, though a directory moves with all its files
\* after a check of its new root alone.
NamespaceSound == Abstract!NamespaceSound

\* What a live file holds goes away only because a client replaces it: otherwise
\* it is in the trash under its path, or at a path that was free.
NothingLost == Abstract!NothingLost
=============================================================================
