--------------------------- MODULE UploadSessions ---------------------------
(***************************************************************************)
(* Chunked uploads of devices and browsers: the rows of table uploads, the *)
(* temporary files they name, the set of active uploads that guards them,  *)
(* and the publication that ends one.  A row and its file have the same    *)
(* name.  The details of a publication are those of SyncStore; here it is  *)
(* the rename of the file and one commit.                                  *)
(*                                                                         *)
(* A file is the sequence of its units: TRUE where the client's unit is,   *)
(* FALSE where there is a hole or what a power loss left.  The client of a *)
(* session sends the units of one file, the one it announced the digest of *)
(* (honest) or another.  No path lies below another one.                   *)
(*                                                                         *)
(* A definition marked as a mutant of another one is wrong on purpose:     *)
(* what a plausible slip in the code would make of it.  No behaviour uses  *)
(* it; put in its place, it breaks a property.                             *)
(***************************************************************************)
EXTENDS Naturals, Sequences, FiniteSets

CONSTANTS
    Ids,             \* the UUIDs of uploads
    Devices,         \* the devices
    WebDevice,       \* the device whose user granted the browser
    Paths,           \* the paths uploaded to
    Tasks,           \* requests the server runs at once
    Free,            \* holder of a lock that nobody holds
    Null,            \* no row, no upload, no file
    MaxSize,         \* bound: units of a file
    MaxSessions,     \* MAX_UPLOAD_SESSIONS_PER_DEVICE
    MaxWebSessions,  \* uploads of one browser session
    SessionAge,      \* UPLOAD_SESSION_SECONDS
    MaxRevision,     \* bound: revisions of a path
    MaxGrants,       \* bound: write grants of the browser
    MaxLate,         \* bound: file operations that outlive their request
    MaxCrashes       \* bound: kills and power losses

ASSUME NamesAssumption == WebDevice \in Devices /\ Free \notin Tasks /\ Null \notin Ids
ASSUME BoundsAssumption ==
    {MaxSize, MaxSessions, MaxWebSessions, SessionAge, MaxRevision, MaxGrants,
     MaxLate, MaxCrashes} \subseteq Nat

VARIABLES
    rows,      \* table uploads (and web_file_uploads): Null or a row
    file,      \* content of the file that was created under each name
    loc,       \* where that file is: "none", "tmp" or "blobs"
    disk,      \* the contents a power loss may leave in it
    cutLate,   \* history: files that a truncation changed after its request was gone
    active,    \* active_uploads
    lock,      \* who holds the mutex of active_uploads over several steps
    db,        \* who holds the database over several steps
    req,       \* what each task does
    late,      \* writes and truncations under way whose request is gone
    revision,  \* the revision of each path
    shown,     \* the upload each path shows: Null or its row and name
    grant,     \* the last write grant of the browser ...
    granted,   \* ... and whether it still holds
    phase,     \* the server is "down" or "serving"
    crashes

fileVars == <<file, loc, disk, cutLate>>
vars == <<rows, file, loc, disk, cutLate, active, lock, db, req, late, revision, shown, grant,
          granted, phase, crashes>>

Units == UNION {[1..n -> BOOLEAN] : n \in 0..MaxSize}
Row == [device : Devices, path : Paths, base : Nat, size : 0..MaxSize, honest : BOOLEAN,
        received : 0..MaxSize, age : 0..SessionAge + 1, grant : 0..MaxGrants]
ASSUME RowAssumption == Null \notin Row
Steps == {"idle", "purging", "purged", "begin", "cutting", "chunk", "written", "synced",
          "recut", "hashing", "hashed", "renamed", "cleanup", "release"}

\* row: the row of upload_row, or the one a begin is going to insert.
\* count: the units of the chunk.
Request == [pc : Steps, id : Ids \union {Null}, row : Row \union {Null}, count : 0..MaxSize]
Idle == [pc |-> "idle", id |-> Null, row |-> Null, count |-> 0]

\* set_len, and a write of n units at an offset; a gap reads as zeros.
SetLen(f, n) == [i \in 1..n |-> i <= Len(f) /\ f[i]]
LongerOf(m, n) == IF m < n THEN n ELSE m
WriteAt(f, at, n) == [i \in 1..LongerOf(Len(f), at + n) |->
                        i \in at + 1..at + n \/ (i <= Len(f) /\ f[i])]
Complete(n) == [i \in 1..n |-> TRUE]

\* remove_file: nobody sees the content any more.
Removed(S) ==
    /\ loc' = [id \in Ids |-> IF id \in S THEN "none" ELSE loc[id]]
    /\ file' = [id \in Ids |-> IF id \in S THEN <<>> ELSE file[id]]
    /\ disk' = [id \in Ids |-> IF id \in S THEN {<<>>} ELSE disk[id]]
    /\ cutLate' = cutLate \ S

\* Those of S whose file is still a temporary one.
InTmp(S) == {id \in S : loc[id] = "tmp"}

\* Mutant of OfDevice: the sessions of browsers are not counted.
OfDeviceOwn(d) == {id \in Ids : rows[id] # Null /\ rows[id].device = d /\ rows[id].grant = 0}
OfDevice(d) == {id \in Ids : rows[id] # Null /\ rows[id].device = d}
IsWeb(row) == row.grant > 0

\* owned: the upload belongs to the browser's session and to its grant.
Owned(row) == IsWeb(row) /\ granted /\ row.grant = grant

Init ==
    /\ rows = [id \in Ids |-> Null]
    /\ file = [id \in Ids |-> <<>>]
    /\ loc = [id \in Ids |-> "none"]
    /\ disk = [id \in Ids |-> {<<>>}]
    /\ cutLate = {}
    /\ active = {}
    /\ lock = Free
    /\ db = Free
    /\ req = [t \in Tasks |-> Idle]
    /\ late = {}
    /\ revision = [p \in Paths |-> 0]
    /\ shown = [p \in Paths |-> Null]
    /\ grant = 0
    /\ granted = FALSE
    /\ phase = "serving"
    /\ crashes = 0

-----------------------------------------------------------------------------
(* begin_upload, and begin of the browser *)

NewRow(d, p, size, honest, g) ==
    [device |-> d, path |-> p, base |-> revision[p], size |-> size, honest |-> honest,
     received |-> 0, age |-> 0, grant |-> g]

\* The device's own session for the same file: the one touched last.
Existing(new) ==
    {id \in Ids :
       /\ rows[id] # Null
       /\ [rows[id] EXCEPT !.received = 0, !.age = 0] = new
       /\ \A other \in Ids : /\ rows[other] # Null
                             /\ [rows[other] EXCEPT !.received = 0, !.age = 0] = new
                             => rows[id].age <= rows[other].age}

\* Its file is there: the device goes on at the offset it has.
BeginResume(t, new) ==
    /\ phase = "serving" /\ req[t] = Idle /\ db = Free
    /\ \E id \in Existing(new) :
         /\ loc[id] = "tmp"
         /\ rows' = [rows EXCEPT ![id].age = 0]
    /\ UNCHANGED <<fileVars, active, lock, db, req, late, revision, shown, grant, granted,
                   phase, crashes>>

\* create_new and the two syncs put the empty file on disk before its row.
CreateFile(t, new) ==
    \E id \in Ids :
        /\ loc[id] = "none" /\ rows[id] = Null /\ id \notin active
        /\ \A w \in late : w.id # id
        /\ file' = [file EXCEPT ![id] = <<>>]
        /\ loc' = [loc EXCEPT ![id] = "tmp"]
        /\ disk' = [disk EXCEPT ![id] = {<<>>}]
        /\ cutLate' = cutLate \ {id}
        /\ req' = [req EXCEPT ![t] = [Idle EXCEPT !.pc = "begin", !.id = id, !.row = new]]

\* A new session; a row whose file is gone makes room for it.
BeginFile(t, new) ==
    /\ phase = "serving" /\ req[t] = Idle /\ db = Free
    /\ \E broken \in SUBSET {id \in Existing(new) : loc[id] # "tmp"} :
         /\ Cardinality(broken) = (IF Existing(new) = {} THEN 0 ELSE 1)
         /\ Cardinality(OfDevice(new.device) \ broken) < MaxSessions
         /\ rows' = [id \in Ids |-> IF id \in broken THEN Null ELSE rows[id]]
    /\ CreateFile(t, new)
    /\ db' = t
    /\ UNCHANGED <<active, lock, late, revision, shown, grant, granted, phase, crashes>>

\* The browser's begin first purges ...
WebBegin(t, new) ==
    /\ phase = "serving" /\ req[t] = Idle /\ db = Free
    /\ granted /\ lock = Free
    /\ lock' = t
    /\ req' = [req EXCEPT ![t] = [Idle EXCEPT !.pc = "purging", !.row = new]]
    /\ UNCHANGED <<rows, fileVars, active, db, late, revision, shown, grant, granted, phase,
                   crashes>>

\* ... then creates only what does not exist, and never resumes.
WebBeginFile(t) ==
    /\ req[t].pc = "purged" /\ db = Free
    /\ granted /\ shown[req[t].row.path] = Null
    /\ Cardinality(OfDevice(WebDevice)) < MaxSessions
    /\ Cardinality({id \in OfDevice(WebDevice) : IsWeb(rows[id])}) < MaxWebSessions
    /\ CreateFile(t, NewRow(WebDevice, req[t].row.path, req[t].row.size, req[t].row.honest,
                            grant))
    /\ db' = t
    /\ UNCHANGED <<rows, active, lock, late, revision, shown, grant, granted, phase, crashes>>

WebBeginRefused(t) ==
    /\ req[t].pc = "purged" /\ db = Free
    /\ req' = [req EXCEPT ![t] = Idle]
    /\ UNCHANGED <<rows, fileVars, active, lock, db, late, revision, shown, grant, granted,
                   phase, crashes>>

BeginRow(t) ==
    /\ req[t].pc = "begin"
    /\ rows' = [rows EXCEPT ![req[t].id] = req[t].row]
    /\ db' = Free
    /\ req' = [req EXCEPT ![t] = Idle]
    /\ UNCHANGED <<fileVars, active, lock, late, revision, shown, grant, granted, phase,
                   crashes>>

\* The file cannot be synced and stays to the next recovery, or the row cannot
\* be inserted: a device's file is removed, a browser's is left to recovery
\* because the transaction may have been committed.
BeginFailed(t) ==
    /\ req[t].pc = "begin"
    /\ \/ /\ ~IsWeb(req[t].row)
          /\ Removed({req[t].id}) \/ UNCHANGED fileVars
          /\ UNCHANGED rows
       \/ /\ IsWeb(req[t].row)
          /\ rows' \in {rows, [rows EXCEPT ![req[t].id] = req[t].row]}
          /\ UNCHANGED fileVars
    /\ db' = Free
    /\ req' = [req EXCEPT ![t] = Idle]
    /\ UNCHANGED <<active, lock, late, revision, shown, grant, granted, phase,
                   crashes>>

-----------------------------------------------------------------------------
(* upload_chunk, and append of the browser *)

\* What remains of the announced size has room for n units.
Fits(id, n) == n <= rows[id].size - rows[id].received

\* lock_upload, upload_row and the comparison with the offset the client sent.
\* A browser's chunk is one closure on a worker thread and keeps the database to
\* its end; a device's goes on in the handler, which waits for each operation on
\* the file, and releases the database first.
ChunkStart(t, id, n) ==
    /\ phase = "serving" /\ req[t] = Idle /\ db = Free /\ lock = Free
    /\ id \notin active
    /\ rows[id] # Null /\ loc[id] = "tmp"
    /\ IsWeb(rows[id]) => Owned(rows[id])
    /\ Fits(id, n)
    /\ active' = active \union {id}
    /\ db' = IF IsWeb(rows[id]) THEN t ELSE Free
    /\ req' = [req EXCEPT ![t] = [pc |-> "cutting", id |-> id, row |-> rows[id], count |-> n]]
    /\ UNCHANGED <<rows, fileVars, lock, late, revision, shown, grant, granted, phase, crashes>>

\* The file is cut to an offset; a power loss may undo it.
Cut(id, at) ==
    /\ file' = [file EXCEPT ![id] = SetLen(file[id], at)]
    /\ disk' = [disk EXCEPT ![id] = @ \union {SetLen(file[id], at)}]

\* What an earlier, unfinished chunk left beyond the offset goes.
ChunkCut(t) ==
    /\ req[t].pc = "cutting"
    /\ Cut(req[t].id, req[t].row.received)
    /\ req' = [req EXCEPT ![t].pc = "chunk"]
    /\ UNCHANGED <<rows, loc, cutLate, active, lock, db, late, revision, shown, grant, granted,
                   phase, crashes>>

\* Units reach the file; a power loss may leave holes in their place.
Written(id, at, n) ==
    LET new == WriteAt(file[id], at, n) IN
        /\ file' = [file EXCEPT ![id] = new]
        /\ disk' = [disk EXCEPT ![id] = @ \union {SetLen(file[id], Len(new)), new}]

ChunkWrite(t) ==
    /\ req[t].pc = "chunk"
    /\ Written(req[t].id, req[t].row.received, req[t].count)
    /\ req' = [req EXCEPT ![t].pc = "written"]
    /\ UNCHANGED <<rows, loc, cutLate, active, lock, db, late, revision, shown, grant, granted,
                   phase, crashes>>

\* Mutant of ChunkSync: flush instead of sync_all.
ChunkSyncSkipped(t) ==
    /\ req[t].pc = "written"
    /\ req' = [req EXCEPT ![t].pc = "synced"]
    /\ UNCHANGED <<rows, fileVars, active, lock, db, late, revision, shown, grant, granted,
                   phase, crashes>>

\* sync_all: what the file holds is what a power loss leaves.
ChunkSync(t) ==
    /\ req[t].pc = "written"
    /\ disk' = [disk EXCEPT ![req[t].id] = {file[req[t].id]}]
    /\ req' = [req EXCEPT ![t].pc = "synced"]
    /\ UNCHANGED <<rows, file, loc, cutLate, active, lock, db, late, revision, shown, grant,
                   granted, phase, crashes>>

\* The file cannot be cut, the body is broken or oversized, or the file cannot
\* be written or synced: a device's file is going to be cut again.
ChunkFailed(t) ==
    /\ req[t].pc \in {"cutting", "chunk", "written"}
    /\ db' = IF db = t THEN Free ELSE db
    /\ req' = [req EXCEPT ![t].pc = IF req[t].pc = "cutting" \/ IsWeb(req[t].row)
                                   THEN "release" ELSE "recut"]
    /\ UNCHANGED <<rows, fileVars, active, lock, late, revision, shown, grant, granted, phase,
                   crashes>>

\* ... if it can: an error is ignored.
ChunkRecut(t) ==
    /\ req[t].pc = "recut"
    /\ Cut(req[t].id, req[t].row.received) \/ UNCHANGED <<file, disk>>
    /\ req' = [req EXCEPT ![t].pc = "release"]
    /\ UNCHANGED <<rows, loc, cutLate, active, lock, db, late, revision, shown, grant, granted,
                   phase, crashes>>

\* An operation on a file that a thread of its own runs: a write of count units
\* at an offset, or set_len to it if count is zero.
Operation(k, id, at, n) == [thread |-> k, id |-> id, at |-> at, count |-> n]

\* A device's client goes away while the handler waits for the file, the body or
\* a worker: the handler is dropped, and its reservation with it, but what it
\* has asked of the file goes on.
ChunkCancelled(t) ==
    /\ req[t].pc \in {"cutting", "chunk", "written", "synced", "recut"} /\ ~IsWeb(req[t].row)
    /\ \/ UNCHANGED late
       \/ /\ req[t].pc \in {"cutting", "chunk", "recut"}
          /\ \E k \in 1..MaxLate :
               /\ \A w \in late : w.thread # k
               /\ late' = late \union {Operation(k, req[t].id, req[t].row.received,
                                        IF req[t].pc = "chunk" THEN req[t].count ELSE 0)}
    /\ req' = [req EXCEPT ![t].pc = "release"]
    /\ UNCHANGED <<rows, fileVars, active, lock, db, revision, shown, grant, granted, phase,
                   crashes>>

\* Wherever the file is by then: the descriptor is still open.
LateLands(w) ==
    /\ w \in late
    /\ late' = late \ {w}
    /\ \/ loc[w.id] = "none" /\ UNCHANGED fileVars
       \/ /\ loc[w.id] # "none" /\ w.count > 0
          /\ Written(w.id, w.at, w.count)
          /\ UNCHANGED <<loc, cutLate>>
       \/ /\ loc[w.id] # "none" /\ w.count = 0
          /\ Cut(w.id, w.at)
          /\ cutLate' = IF SetLen(file[w.id], w.at) = file[w.id] THEN cutLate
                        ELSE cutLate \union {w.id}
          /\ UNCHANGED loc
    /\ UNCHANGED <<rows, active, lock, db, req, revision, shown, grant, granted, phase,
                   crashes>>

\* Mutant of ChunkDone: the connection's guard outlives the reservation's.
ChunkDoneHolding(t) ==
    /\ req[t].pc = "synced"
    /\ db \in {Free, t}
    /\ rows' = [rows EXCEPT ![req[t].id].received = req[t].row.received + req[t].count]
    /\ db' = t
    /\ req' = [req EXCEPT ![t].pc = "release"]
    /\ UNCHANGED <<fileVars, active, lock, late, revision, shown, grant, granted, phase,
                   crashes>>

\* The offset is stored if it is still the one the chunk started from.
ChunkDone(t) ==
    /\ req[t].pc = "synced"
    /\ db \in {Free, t}
    /\ LET id == req[t].id IN
         rows' = IF rows[id] # Null /\ rows[id].received = req[t].row.received
                 THEN [rows EXCEPT ![id].received = @ + req[t].count, ![id].age = 0]
                 ELSE rows
    /\ db' = Free
    /\ req' = [req EXCEPT ![t].pc = "release"]
    /\ UNCHANGED <<fileVars, active, lock, late, revision, shown, grant, granted, phase,
                   crashes>>

\* Drop for ActiveUpload waits for the mutex of the set.
Release(t) ==
    /\ req[t].pc = "release" /\ lock = Free
    /\ active' = active \ {req[t].id}
    /\ req' = [req EXCEPT ![t] = Idle]
    /\ UNCHANGED <<rows, fileVars, lock, db, late, revision, shown, grant, granted, phase,
                   crashes>>

\* DELETE of the browser.
WebCancel(t, id) ==
    /\ phase = "serving" /\ req[t] = Idle /\ db = Free /\ lock = Free
    /\ id \notin active
    /\ rows[id] # Null /\ Owned(rows[id])
    /\ rows' = [rows EXCEPT ![id] = Null]
    /\ Removed(InTmp({id}))
    /\ active' = active \union {id}
    /\ req' = [req EXCEPT ![t] = [Idle EXCEPT !.pc = "release", !.id = id]]
    /\ UNCHANGED <<lock, db, late, revision, shown, grant, granted, phase, crashes>>

-----------------------------------------------------------------------------
(* finish_upload, and commit of the browser *)

FinishStart(t, id) ==
    /\ phase = "serving" /\ req[t] = Idle /\ db = Free /\ lock = Free
    /\ id \notin active
    /\ rows[id] # Null /\ loc[id] = "tmp"
    /\ IsWeb(rows[id]) => Owned(rows[id])
    /\ rows[id].received = rows[id].size
    /\ active' = active \union {id}
    /\ req' = [req EXCEPT ![t] = [Idle EXCEPT !.pc = "hashing", !.id = id, !.row = rows[id]]]
    /\ UNCHANGED <<rows, fileVars, lock, db, late, revision, shown, grant, granted, phase,
                   crashes>>

\* Mutant of Verified: the size alone is compared.
VerifiedSize(t) == Len(file[req[t].id]) = req[t].row.size
\* hash_upload reads the file: digest and size are the announced ones.
Verified(t) == req[t].row.honest /\ file[req[t].id] = Complete(req[t].row.size)

FinishHash(t) ==
    /\ req[t].pc = "hashing" /\ Verified(t)
    /\ req' = [req EXCEPT ![t].pc = "hashed"]
    /\ UNCHANGED <<rows, fileVars, active, lock, db, late, revision, shown, grant, granted,
                   phase, crashes>>

\* A device's session is dropped, a browser's stays until it is cancelled.
FinishCorrupt(t) ==
    /\ req[t].pc = "hashing" /\ ~Verified(t)
    /\ req' = [req EXCEPT ![t].pc = IF IsWeb(req[t].row) THEN "release" ELSE "cleanup"]
    /\ UNCHANGED <<rows, fileVars, active, lock, db, late, revision, shown, grant, granted,
                   phase, crashes>>

\* Mutant of MayPublish: the base revision is trusted from begin on.
MayPublishOver(t) == IsWeb(req[t].row) => Owned(req[t].row) /\ shown[req[t].row.path] = Null
\* What commit_upload_checked wants, with the browser's authorisation.
MayPublish(t) ==
    /\ revision[req[t].row.path] = req[t].row.base
    /\ IsWeb(req[t].row) => /\ rows[req[t].id] # Null /\ Owned(rows[req[t].id])
                            /\ shown[req[t].row.path] = Null

FinishRename(t) ==
    /\ req[t].pc = "hashed" /\ db = Free
    /\ MayPublish(t)
    /\ revision[req[t].row.path] < MaxRevision
    /\ loc' = [loc EXCEPT ![req[t].id] = "blobs"]
    /\ db' = t
    /\ req' = [req EXCEPT ![t].pc = "renamed"]
    /\ UNCHANGED <<rows, file, disk, cutLate, active, lock, late, revision, shown, grant, granted,
                   phase, crashes>>

FinishConflict(t) ==
    /\ req[t].pc = "hashed" /\ db = Free
    /\ ~MayPublish(t)
    /\ req' = [req EXCEPT ![t].pc = IF IsWeb(req[t].row) THEN "release" ELSE "cleanup"]
    /\ UNCHANGED <<rows, fileVars, active, lock, db, late, revision, shown, grant, granted,
                   phase, crashes>>

\* An error before the commit: the row stays, the file may have been renamed.
FinishFailed(t) ==
    /\ \/ req[t].pc = "hashed" /\ db = Free
       \/ req[t].pc = "renamed"
    /\ db' = Free
    /\ req' = [req EXCEPT ![t].pc = "release"]
    /\ UNCHANGED <<rows, fileVars, active, lock, late, revision, shown, grant, granted, phase,
                   crashes>>

\* The blob that path p shows.
ShownAt(p) == {id \in Ids : shown[p] # Null /\ shown[p].id = id}

\* A browser's row goes in the transaction that publishes its file.
Publish(t) ==
    LET p == req[t].row.path
        id == req[t].id
    IN  /\ revision' = [revision EXCEPT ![p] = @ + 1]
        /\ shown' = [shown EXCEPT ![p] = [id |-> id, size |-> req[t].row.size,
                                          honest |-> req[t].row.honest]]
        /\ rows' = IF IsWeb(req[t].row) THEN [rows EXCEPT ![id] = Null] ELSE rows

FinishTx(t) ==
    /\ req[t].pc = "renamed"
    /\ Publish(t)
    /\ Removed(ShownAt(req[t].row.path))
    /\ db' = Free
    /\ req' = [req EXCEPT ![t].pc = IF IsWeb(req[t].row) THEN "release" ELSE "cleanup"]
    /\ UNCHANGED <<active, lock, late, grant, granted, phase, crashes>>

\* COMMIT reports an error though it took effect: nothing is removed.
FinishUncertain(t) ==
    /\ req[t].pc = "renamed"
    /\ Publish(t)
    /\ db' = Free
    /\ req' = [req EXCEPT ![t].pc = "release"]
    /\ UNCHANGED <<fileVars, active, lock, late, grant, granted, phase, crashes>>

\* A device's row is deleted, and its file if it is still there, in a
\* transaction of their own.
FinishCleanup(t) ==
    /\ req[t].pc = "cleanup" /\ db = Free
    /\ rows' = [rows EXCEPT ![req[t].id] = Null]
    /\ Removed(InTmp({req[t].id}))
    /\ req' = [req EXCEPT ![t].pc = "release"]
    /\ UNCHANGED <<active, lock, db, late, revision, shown, grant, granted, phase,
                   crashes>>

\* Another device replaces or deletes the file at p.
Elsewhere(p) ==
    /\ phase = "serving" /\ db = Free
    /\ revision[p] < MaxRevision
    /\ revision' = [revision EXCEPT ![p] = @ + 1]
    /\ shown' = [shown EXCEPT ![p] = Null]
    /\ Removed(ShownAt(p))
    /\ UNCHANGED <<rows, active, lock, db, req, late, grant, granted, phase,
                   crashes>>

-----------------------------------------------------------------------------
(* purge_upload_sessions, grants, time, and restarts *)

\* Mutant of Stale: only lost grants end a session.
StaleGrant(row) == IsWeb(row) /\ ~Owned(row)
\* Untouched for too long, or of a browser whose grant is gone.
Stale(row) == row.age > SessionAge \/ (IsWeb(row) /\ ~Owned(row))
AllStale == {id \in Ids : rows[id] # Null /\ Stale(rows[id])}

\* Mutant of Purgeable: active uploads are not skipped.
PurgeableAll == AllStale
\* A session that a request works on is left to the next purge.
Purgeable == AllStale \ active

\* The mutex of active_uploads first, the database second.
PurgeStart(t) ==
    /\ phase = "serving" /\ req[t] = Idle /\ lock = Free
    /\ lock' = t
    /\ req' = [req EXCEPT ![t] = [Idle EXCEPT !.pc = "purging"]]
    /\ UNCHANGED <<rows, fileVars, active, db, late, revision, shown, grant, granted, phase,
                   crashes>>

Purged(S) ==
    /\ rows' = [id \in Ids |-> IF id \in S THEN Null ELSE rows[id]]
    /\ Removed(InTmp(S))

PurgeRun(t) ==
    /\ req[t].pc = "purging" /\ db = Free
    /\ Purged(Purgeable)
    /\ lock' = Free
    /\ req' = [req EXCEPT ![t] = IF @.row = Null THEN Idle ELSE [@ EXCEPT !.pc = "purged"]]
    /\ UNCHANGED <<active, db, late, revision, shown, grant, granted, phase,
                   crashes>>

\* A write grant is given to the browser, replaced, or ends.
NewGrant ==
    /\ phase = "serving" /\ db = Free
    /\ grant < MaxGrants
    /\ grant' = grant + 1
    /\ granted' = TRUE
    /\ UNCHANGED <<rows, fileVars, active, lock, db, req, late, revision, shown, phase, crashes>>

EndGrant ==
    /\ granted
    /\ granted' = FALSE
    /\ UNCHANGED <<rows, fileVars, active, lock, db, req, late, revision, shown, grant, phase,
                   crashes>>

\* Time passes for every session; past the limit it makes no difference.
Tick ==
    /\ \E id \in Ids : rows[id] # Null /\ rows[id].age <= SessionAge
    /\ rows' = [id \in Ids |-> IF rows[id] # Null /\ rows[id].age <= SessionAge
                               THEN [rows[id] EXCEPT !.age = @ + 1] ELSE rows[id]]
    /\ UNCHANGED <<fileVars, active, lock, db, req, late, revision, shown, grant, granted,
                   phase, crashes>>

\* The process is killed, or the machine loses power.
Crash ==
    /\ crashes < MaxCrashes
    /\ crashes' = crashes + 1
    /\ phase' = "down"
    /\ \/ UNCHANGED <<file, disk>>
       \/ /\ file' \in {f \in [Ids -> UNION {disk[id] : id \in Ids}] :
                         \A id \in Ids : f[id] \in disk[id]}
          /\ disk' = [id \in Ids |-> {file'[id]}]
    /\ active' = {}
    /\ lock' = Free
    /\ db' = Free
    /\ req' = [t \in Tasks |-> Idle]
    /\ late' = {}
    /\ UNCHANGED <<rows, loc, cutLate, revision, shown, grant, granted>>

\* Mutant of KeptTemps: the sweep of tmp uses the names referenced in blobs.
KeptTempsNone == {}
\* The temporary files that recover_storage finds in table uploads.
KeptTemps == {id \in Ids : rows[id] # Null}

\* recover_storage keeps the files of sessions and of shown uploads; then the
\* sessions are purged.
Startup ==
    /\ phase = "down"
    /\ phase' = "serving"
    /\ rows' = [id \in Ids |-> IF id \in AllStale THEN Null ELSE rows[id]]
    /\ Removed({id \in Ids : \/ loc[id] = "tmp" /\ id \notin KeptTemps \ AllStale
                             \/ loc[id] = "blobs" /\ \A p \in Paths : id \notin ShownAt(p)})
    /\ UNCHANGED <<active, lock, db, req, late, revision, shown, grant, granted,
                   crashes>>

-----------------------------------------------------------------------------
News == {NewRow(d, p, n, h, 0) : d \in Devices, p \in Paths, n \in 0..MaxSize, h \in BOOLEAN}

Chunk(t) ==
    \/ \E id \in Ids, n \in 1..MaxSize : ChunkStart(t, id, n)
    \/ ChunkCut(t) \/ ChunkWrite(t) \/ ChunkSync(t) \/ ChunkFailed(t) \/ ChunkRecut(t)
    \/ ChunkCancelled(t) \/ ChunkDone(t)

Finish(t) ==
    \/ \E id \in Ids : FinishStart(t, id)
    \/ FinishHash(t) \/ FinishCorrupt(t) \/ FinishRename(t) \/ FinishConflict(t)
    \/ FinishFailed(t) \/ FinishTx(t) \/ FinishUncertain(t) \/ FinishCleanup(t)

Begin(t) ==
    \/ \E new \in News : BeginResume(t, new) \/ BeginFile(t, new) \/ WebBegin(t, new)
    \/ WebBeginFile(t) \/ WebBeginRefused(t) \/ BeginRow(t) \/ BeginFailed(t)

Next ==
    \/ \E t \in Tasks : Begin(t) \/ Chunk(t) \/ Finish(t) \/ Release(t)
                         \/ PurgeStart(t) \/ PurgeRun(t)
    \/ \E t \in Tasks, id \in Ids : WebCancel(t, id)
    \/ \E w \in late : LateLands(w)
    \/ \E p \in Paths : Elsewhere(p)
    \/ NewGrant \/ EndGrant \/ Tick \/ Crash \/ Startup

Spec == Init /\ [][Next]_vars

\* What a request does on a worker thread once it runs there: all but what the
\* handler of a device's chunk waits for.
Worker(t) ==
    \/ WebBeginFile(t) \/ WebBeginRefused(t) \/ BeginRow(t) \/ BeginFailed(t)
    \/ PurgeRun(t) \/ ChunkDone(t) \/ Release(t)
    \/ db = t /\ (ChunkCut(t) \/ ChunkWrite(t) \/ ChunkSync(t) \/ ChunkFailed(t))
    \/ FinishHash(t) \/ FinishCorrupt(t) \/ FinishRename(t) \/ FinishConflict(t)
    \/ FinishFailed(t) \/ FinishTx(t) \/ FinishUncertain(t) \/ FinishCleanup(t)

\* Worker threads run, and get the mutexes they wait for; the hourly timer
\* fires; time passes; the service is started again.  Nothing is assumed of
\* clients.
Fairness ==
    /\ WF_vars(Tick) /\ WF_vars(Startup)
    /\ SF_vars(\E t \in Tasks : PurgeStart(t))
    /\ \A t \in Tasks : SF_vars(Worker(t))
FairSpec == Spec /\ Fairness

-----------------------------------------------------------------------------
(* What must hold *)

Published == [id : Ids, size : 0..MaxSize, honest : BOOLEAN]
Operations == [thread : 1..MaxLate, id : Ids, at : 0..MaxSize, count : 0..MaxSize]

\* Rows, files, guards and requests have the shape their code gives them.
TypeOK ==
    /\ rows \in [Ids -> Row \union {Null}]
    /\ file \in [Ids -> Units]
    /\ loc \in [Ids -> {"none", "tmp", "blobs"}]
    /\ disk \in [Ids -> SUBSET Units]
    /\ cutLate \subseteq Ids
    /\ active \subseteq Ids
    /\ lock \in Tasks \union {Free}
    /\ db \in Tasks \union {Free}
    /\ req \in [Tasks -> Request]
    /\ late \subseteq Operations
    /\ revision \in [Paths -> 0..MaxRevision]
    /\ shown \in [Paths -> Published \union {Null}]
    /\ grant \in 0..MaxGrants
    /\ granted \in BOOLEAN
    /\ phase \in {"down", "serving"}
    /\ crashes \in 0..MaxCrashes

\* An offset the server has acknowledged is on disk: retries, cancelled
\* requests whose writes land late, failures and a power loss at any step never
\* leave a hole below received_size.  Only a truncation that outlives its request
\* can, and no other operation (OffsetDurable is what is then lost).
AcknowledgedDurable ==
    \A id \in Ids : rows[id] # Null /\ loc[id] = "tmp" /\ id \notin cutLate =>
        \A f \in disk[id] : SetLen(f, rows[id].received) = Complete(rows[id].received)

\* What a path shows is the file whose digest was announced, whole and on
\* disk, though it was checked before the database was taken and operations of
\* cancelled requests may still reach it: again all but a truncation.
PublishedVerified ==
    \A p \in Paths : shown[p] # Null =>
        LET u == shown[p] IN
            /\ u.honest /\ loc[u.id] = "blobs"
            /\ u.id \notin cutLate =>
                 file[u.id] = Complete(u.size) /\ disk[u.id] = {Complete(u.size)}

\* The offset update of upload_chunk is durable, and the reservation protects it
\* when the requesting task is cancelled: what upload_chunk says of itself.
OffsetDurable ==
    \A id \in Ids : rows[id] # Null /\ loc[id] = "tmp" =>
        SetLen(file[id], rows[id].received) = Complete(rows[id].received)

\* The row a request read before it waited for body, file system or database
\* is still the row, and its file is still there: purge, begin, cancel and
\* other requests leave an active upload alone.
ReservationHolds ==
    \A t \in Tasks :
      req[t].pc \in {"cutting", "chunk", "written", "synced", "recut", "hashing", "hashed"} =>
        LET id == req[t].id IN
            /\ rows[id] # Null /\ loc[id] = "tmp"
            /\ [rows[id] EXCEPT !.age = 0] = [req[t].row EXCEPT !.age = 0]
            /\ \A u \in Tasks \ {t} : req[u].id # id

\* Devices and browsers together stay within the sessions of a device.
SessionsBounded ==
    \A d \in Devices :
        Cardinality({id \in Ids : rows[id] # Null /\ rows[id].device = d}) <= MaxSessions

\* A session's file goes nowhere but into its publication, restarts and their
\* recovery included: what a client was told to resume is there.
SessionsKeepFiles ==
    [][\A id \in Ids : rows[id] # Null /\ rows'[id] # Null /\ loc[id] = "tmp"
                        => loc'[id] \in {"tmp", "blobs"}]_vars

\* A publication replaces the version that its client saw when the session
\* began, however many sessions, restarts and other devices came between.
ReplacesItsBase ==
    [][\A p \in Paths : shown'[p] \notin {Null, shown[p]} =>
            /\ rows[shown'[p].id] # Null
            /\ rows[shown'[p].id].base = revision[p] /\ revision'[p] > revision[p]]_vars

\* A session that can never finish, its file published or lost in a failed
\* commit, does not count against its device for ever.
BrokenSessionsGo ==
    \A id \in Ids : rows[id] # Null /\ loc[id] # "tmp" ~> rows[id] = Null \/ loc[id] = "tmp"

\* The purge holds the set of active uploads and wants the database, others
\* hold the database and then want the set: they do not wait for each other.
PurgeEnds == lock # Free ~> lock = Free
-----------------------------------------------------------------------------
(* The inductive invariant behind the safety properties. *)

\* The first n units are there.
Whole(f, n) == n <= Len(f) /\ \A i \in 1..n : f[i]

\* The same session, touched at another time.
SameRow(r, s) ==
    /\ r.device = s.device /\ r.path = s.path /\ r.base = s.base /\ r.size = s.size
    /\ r.honest = s.honest /\ r.received = s.received /\ r.grant = s.grant

Chunking == {"cutting", "chunk", "written", "synced", "recut"}
Reserved == Chunking \union {"hashing", "hashed"}
Holding == Reserved \union {"renamed", "cleanup", "release"}

\* What a power loss may leave is never longer than the session's file, and never less
\* than what was acknowledged unless a late truncation changed it.
FileSound(id) ==
    /\ file[id] \in disk[id]
    /\ rows[id] # Null =>
         /\ rows[id].received <= rows[id].size
         /\ \A f \in disk[id] : Len(f) <= rows[id].size
         /\ loc[id] = "tmp" /\ id \notin cutLate =>
              \A f \in disk[id] : Whole(f, rows[id].received)

\* A begin has an empty file that nobody else knows of, and room for its session.
BeginSound(t) ==
    LET new == req[t].row IN
        /\ db = t /\ req[t].id \in Ids \ active /\ new # Null /\ new.received = 0
        /\ rows[req[t].id] = Null /\ loc[req[t].id] = "tmp" /\ disk[req[t].id] = {<<>>}
        /\ \A w \in late : w.id # req[t].id
        /\ Cardinality(OfDevice(new.device)) < MaxSessions

\* A request that works on a session has its row, and what it has written or read holds.
WorkSound(t) ==
    LET id == req[t].id
        row == req[t].row
        end == row.received + req[t].count
    IN  /\ id \in Ids /\ row # Null /\ rows[id] # Null /\ SameRow(rows[id], row)
        /\ req[t].pc \in Reserved => loc[id] = "tmp"
        /\ req[t].pc \in Chunking => req[t].count > 0 /\ end <= row.size
        /\ req[t].pc = "written" /\ id \notin cutLate => Whole(file[id], end)
        /\ req[t].pc = "synced" /\ id \notin cutLate => \A f \in disk[id] : Whole(f, end)
        /\ req[t].pc \in {"hashing", "hashed"} => row.received = row.size
        /\ req[t].pc = "hashed" => row.honest
        /\ req[t].pc = "hashed" /\ id \notin cutLate => file[id] = Complete(row.size)

\* Between the rename and the commit the file is whole, unpublished, and may be published.
RenamedSound(t) ==
    LET id == req[t].id
        row == req[t].row
    IN  /\ db = t /\ row.honest /\ loc[id] = "blobs"
        /\ id \notin cutLate => file[id] = Complete(row.size) /\ disk[id] = {Complete(row.size)}
        /\ \A p \in Paths : shown[p] # Null => shown[p].id # id
        /\ revision[row.path] = row.base /\ revision[row.path] < MaxRevision

RequestSound(t) ==
    /\ req[t].pc = "purged" => req[t].row # Null
    /\ req[t].pc = "begin" => BeginSound(t)
    /\ req[t].pc \in Holding => req[t].id \in active
    /\ req[t].pc \in Reserved \union {"renamed"} => WorkSound(t)
    /\ req[t].pc = "renamed" => RenamedSound(t)
    /\ req[t].pc \in {"idle", "purging", "purged"} => req[t].id = Null

HoldersDistinct ==
    \A t, u \in Tasks :
        t # u /\ {req[t].pc, req[u].pc} \subseteq Holding => req[t].id # req[u].id

\* Operations that outlive their request stay within the file they were meant for.
LateSound ==
    \A w \in late :
        /\ w.at + w.count <= MaxSize
        /\ rows[w.id] # Null => w.at + w.count <= rows[w.id].size
        /\ \A p \in Paths : shown[p] # Null /\ shown[p].id = w.id => w.at + w.count <= shown[p].size

OneFilePerPath ==
    \A p, q \in Paths : p # q /\ shown[p] # Null /\ shown[q] # Null => shown[p].id # shown[q].id

DownIdle == phase = "down" => active = {} /\ late = {} /\ req = [t \in Tasks |-> Idle]

Inv ==
    /\ TypeOK
    /\ \A id \in Ids : FileSound(id)
    /\ \A t \in Tasks : RequestSound(t)
    /\ HoldersDistinct /\ LateSound /\ PublishedVerified /\ OneFilePerPath /\ DownIdle
    /\ \A d \in Devices : IsFiniteSet(OfDevice(d)) /\ Cardinality(OfDevice(d)) <= MaxSessions
=============================================================================
