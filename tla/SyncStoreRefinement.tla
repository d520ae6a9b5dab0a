------------------------- MODULE SyncStoreRefinement -------------------------
(***************************************************************************)
(* Proofs about what the rows and files of SyncStore say over time, for    *)
(* every value of its constants: publications are checked against the      *)
(* current rows, revisions name contents, and the storage implements       *)
(* VersionedFiles, with the promises that rest on it.                      *)
(***************************************************************************)
EXTENDS SyncStoreProofs

-----------------------------------------------------------------------------
(* What one step does to rows and contents *)

\* A commit that took effect.
Published(t) ==
    /\ req[t].pc = "synced"
    /\ PublishRow(t)
    /\ UNCHANGED <<blobs, snap, now>>

\* Rows left the trash.
Dropped(S) ==
    /\ trash' = trash \ S
    /\ UNCHANGED <<generation, entries, blobs, snap, now>>

\* Every step on the rows is one of these; what the other steps do to blobs
\* is the matter of ContentsKept.
LEMMA StepKinds ==
    ASSUME [Next]_vars
    PROVE  \/ UNCHANGED <<generation, entries, trash, snap, now>>
           \/ Tick
           \/ \E t \in Tasks : Published(t)
           \/ \E p \in Paths : Delete(p) \/ Properties(p)
           \/ \E i \in trash : Restore(i) \/ Dropped({i})
           \/ Dropped(Expired)
           \/ DirectoryDelete
           \/ \E name \in Components : DirectoryRename(name)
<1> DEFINE Quiet == UNCHANGED <<generation, entries, trash, snap, now>>
<1>1. ASSUME NEW t \in Tasks, Upload(t) PROVE Quiet \/ Published(t)
  <2>1. CASE TxCommit(t) \/ TxCommitError(t)
    BY <2>1 DEF TxCommit, TxCommitError, Published, fsVars, sqlVars
  <2>2. CASE \/ SyncFile(t) \/ BodyFailed(t) \/ UploadCancelled(t) \/ CommitConflict(t)
             \/ CommitRename(t) \/ CommitFailed(t) \/ SyncBlobs(t) \/ SyncTmp(t)
    BY <2>2 DEF SyncFile, BodyFailed, UploadCancelled, CommitConflict, CommitRename,
                CommitFailed, SyncBlobs, SyncTmp, sqlVars
  <2>3. CASE \E p \in Paths, c \in Contents, base \in 0..generation : UploadBody(t, p, base, c)
    BY <2>3 DEF UploadBody, sqlVars
  <2> QED BY <1>1, <2>1, <2>2, <2>3 DEF Upload
<1>2. ASSUME NEW t \in Actors, NEW S, DropRows(t, S) PROVE Dropped(S)
  BY <1>2 DEF DropRows, Dropped, fsVars
<1>3. ASSUME Recovery PROVE Quiet \/ Dropped(Expired)
  <2>1. CASE RecoverBlobs \/ RecoverTmp \/ RecoverDone \/ Serve
    BY <2>1 DEF RecoverBlobs, RecoverTmp, RecoverDone, Serve, sqlVars
  <2>2. CASE \E n \in Names \union Temps : RecoverRemove(n) \/ RecoverFails(n) \/ RecoverMisses(n)
    BY <2>2 DEF RecoverRemove, RecoverFails, RecoverMisses, sqlVars
  <2>3. CASE \E t \in Tasks : StartupPurge(t)
    BY <1>2, <2>3 DEF StartupPurge, Actors
  <2> QED BY <1>3, <2>1, <2>2, <2>3 DEF Recovery
<1>4. ASSUME NEW t \in Actors, UnlinkBlob(t) \/ UnlinkFailed(t) PROVE Quiet
  BY <1>4 DEF UnlinkBlob, UnlinkFailed, sqlVars
<1>5. ASSUME Shutdown \/ Killed \/ PowerLoss \/ Writeback \/ UNCHANGED vars PROVE Quiet
  BY <1>5 DEF Shutdown, Killed, PowerLoss, Writeback, vars, sqlVars
<1>6. \A t \in Tasks : PurgeExpired(t) => Dropped(Expired)
  BY <1>2 DEF PurgeExpired, Actors
<1>7. \A i \in trash : PurgeTrashItem(i) => Dropped({i})
  BY <1>2 DEF PurgeTrashItem, Actors
<1> QED BY <1>1, <1>3, <1>4, <1>5, <1>6, <1>7, Zenon DEF Next

\* No step changes the content of a blob that a row names: not the rename of
\* a publication, an unlink outside the mutex, recovery or a power loss.
LEMMA ContentsKept ==
    ASSUME Inv, [Next]_vars, NEW n \in Names, ~Unreferenced(n)
    PROVE  blobs'[n] = blobs[n]
<1> USE ConstantsAssumption
<1>1. ASSUME NEW t \in Tasks, Upload(t) PROVE blobs'[n] = blobs[n]
  <2>1. CASE CommitRename(t)
    <3>1. PICK b \in FreshBlobs : blobs' = [blobs EXCEPT ![b] = tmp[req[t].temp]]
      BY <2>1 DEF CommitRename
    <3>2. b # n
      BY DEF FreshBlobs
    <3> QED BY <3>1, <3>2 DEF Inv, TypeOK
  <2>2. CASE ~CommitRename(t)
    BY <1>1, <2>2
       DEF Upload, UploadBody, SyncFile, BodyFailed, UploadCancelled, CommitConflict,
           CommitFailed, SyncBlobs, SyncTmp, TxCommit, TxCommitError, fsVars
  <2> QED BY <2>1, <2>2
<1>2. ASSUME NEW t \in Actors, UnlinkBlob(t) \/ UnlinkFailed(t) PROVE blobs'[n] = blobs[n]
  <2>1. PICK m \in req[t].unlink : blobs' = blobs \/ blobs' = Unlinked(blobs, m)
    BY <1>2 DEF UnlinkBlob, UnlinkFailed, fsVars
  <2>2. m # n
    BY DEF Inv, PendingUnlinksUnreferenced
  <2> QED BY <2>1, <2>2 DEF Inv, TypeOK, Unlinked
<1>3. ASSUME NEW m \in Names \union Temps, RecoverRemove(m) PROVE blobs'[n] = blobs[n]
  <2>1. CASE phase = "sweep_blobs"
    <3>1. blobs' = Unlinked(blobs, m) /\ m # n
      BY <1>3, <2>1 DEF RecoverRemove, Inv, SweepExact
    <3> QED BY <3>1 DEF Inv, TypeOK, Unlinked
  <2>2. CASE phase # "sweep_blobs"
    BY <1>3, <2>2 DEF RecoverRemove
  <2> QED BY <2>1, <2>2
<1>4. ASSUME PowerLoss PROVE blobs'[n] = blobs[n]
  <2>1. blobs'[n] \in blobsDisk[n]
    BY <1>4 DEF PowerLoss
  <2>2. \E c \in Contents : blobs[n] = c /\ blobsDisk[n] = {c}
    BY DEF Inv, ReferencedBlobsIntact, Intact, Unreferenced
  <2> QED BY <2>1, <2>2
<1>5. ASSUME \E t \in Actors, S \in SUBSET trash : DropRows(t, S) PROVE blobs'[n] = blobs[n]
  BY <1>5 DEF DropRows, fsVars
<1>6. ASSUME Recovery, \A m \in Names \union Temps : ~RecoverRemove(m)
      PROVE  blobs'[n] = blobs[n]
  BY <1>6 DEF Recovery, RecoverBlobs, RecoverTmp, RecoverDone, Serve, RecoverFails,
              RecoverMisses, StartupPurge, DropRows, fsVars
<1>7. ASSUME NEW p \in Paths, Delete(p) \/ Properties(p) PROVE blobs'[n] = blobs[n]
  BY <1>7 DEF Delete, Properties, SqlOnly, fsVars
<1>8. ASSUME NEW i \in trash, Restore(i) \/ PurgeTrashItem(i) PROVE blobs'[n] = blobs[n]
  BY <1>8 DEF Restore, PurgeTrashItem, DropRows, SqlOnly, fsVars
<1>9. ASSUME DirectoryDelete \/ \E name \in Components : DirectoryRename(name)
      PROVE  blobs'[n] = blobs[n]
  BY <1>9 DEF DirectoryDelete, DirectoryRename, SqlOnly, fsVars
<1>10. ASSUME NEW t \in Tasks, PurgeExpired(t) PROVE blobs'[n] = blobs[n]
  BY <1>10 DEF PurgeExpired, DropRows, fsVars
<1>11. ASSUME Shutdown \/ Killed \/ Writeback \/ Tick \/ UNCHANGED vars
       PROVE  blobs'[n] = blobs[n]
  BY <1>11 DEF Shutdown, Killed, Writeback, Tick, vars, fsVars
<1> QED BY <1>1, <1>2, <1>3, <1>4, <1>6, <1>7, <1>8, <1>9, <1>10, <1>11, Zenon DEF Next, Recovery

-----------------------------------------------------------------------------
(* Publications are checked against the current rows *)

\* A task inside its transaction has just been checked, or nothing that it was
\* checked against moves.
LEMMA TransactionStep ==
    ASSUME Inv, [Next]_vars, NEW t \in Tasks, req'[t].pc \in InTransaction
    PROVE  /\ entries' = entries
           /\ req'[t].path = req[t].path /\ req'[t].base = req[t].base
           /\ req[t].pc \in InTransaction \/ MayCommit(t)
<1> USE ConstantsAssumption
<1>1. /\ db' = t /\ t # Free /\ t # Server /\ t # Admin /\ t \in Actors
      /\ req \in [Actors -> Request] /\ req[t] \in Request
  BY NextInv DEF Inv, TypeOK, MutexHeld, Actors
<1>2. ASSUME UNCHANGED req PROVE req[t].pc \in InTransaction /\ db = t
  BY <1>2 DEF Inv, MutexHeld
<1>3. ASSUME NEW u \in Tasks, Upload(u), u # t
      PROVE  entries' = entries /\ req'[t] = req[t]
  <2>1. req'[t] = req[t]
    BY <1>1, <1>3
       DEF Upload, UploadBody, SyncFile, BodyFailed, UploadCancelled, CommitConflict,
           CommitRename, CommitFailed, SyncBlobs, SyncTmp, TxCommit, TxCommitError
  <2>2. ~(TxCommit(u) \/ TxCommitError(u))
    BY <1>1, <1>3, <2>1 DEF TxCommit, TxCommitError, Inv, MutexHeld, InTransaction
  <2> QED BY <1>3, <2>1, <2>2
          DEF Upload, UploadBody, SyncFile, BodyFailed, UploadCancelled, CommitConflict,
              CommitRename, CommitFailed, SyncBlobs, SyncTmp, sqlVars
<1>4. ASSUME Upload(t)
      PROVE  /\ entries' = entries
             /\ req'[t].path = req[t].path /\ req'[t].base = req[t].base
             /\ req[t].pc \in InTransaction \/ MayCommit(t)
  <2>1. ~\E p \in Paths, c \in Contents, base \in 0..generation : UploadBody(t, p, base, c)
    BY <1>1 DEF UploadBody, InTransaction
  <2>2. ~SyncFile(t)
    BY <1>1 DEF SyncFile, InTransaction, Request
  <2>3. ~(BodyFailed(t) \/ UploadCancelled(t) \/ CommitConflict(t) \/ CommitFailed(t))
    BY <1>1, IdleRequest
       DEF BodyFailed, UploadCancelled, CommitConflict, CommitFailed, InTransaction
  <2>4. ~(TxCommit(t) \/ TxCommitError(t))
    BY <1>1 DEF TxCommit, TxCommitError
  <2>5. CASE CommitRename(t)
    BY <1>1, <2>5 DEF CommitRename, sqlVars, Request
  <2>6. CASE SyncBlobs(t) \/ SyncTmp(t)
    BY <1>1, <2>6 DEF SyncBlobs, SyncTmp, sqlVars, InTransaction, Request
  <2> QED BY <1>4, <2>1, <2>2, <2>3, <2>4, <2>5, <2>6 DEF Upload
<1>5. ASSUME NEW u \in Actors, NEW S, DropRows(u, S)
      PROVE  entries' = entries /\ req'[t] = req[t]
  <2>1. db = Free /\ db' = db
    BY <1>5 DEF DropRows
  <2> QED BY <1>1, <2>1
<1>6. ASSUME NEW u \in Actors, UnlinkBlob(u) \/ UnlinkFailed(u)
      PROVE  entries' = entries /\ req'[t] = req[t]
  <2>1. db = t /\ db' = db /\ entries' = entries
    BY <1>1, <1>6 DEF UnlinkBlob, UnlinkFailed, sqlVars
  <2>2. req[t].unlink = {}
    BY <1>1, <2>1 DEF Inv, MutexHeld, UnlinkShape, InTransaction
  <2>3. u # t
    BY <1>6, <2>2 DEF UnlinkBlob, UnlinkFailed
  <2> QED BY <1>1, <1>6, <2>1, <2>3 DEF UnlinkBlob, UnlinkFailed
<1>7. ~\E p \in Paths : Delete(p) \/ Properties(p)
  BY <1>1 DEF Delete, Properties, SqlOnly
<1>8. ~\E i \in trash : Restore(i)
  BY <1>1 DEF Restore, SqlOnly
<1>9. ~(DirectoryDelete \/ \E name \in Components : DirectoryRename(name))
  BY <1>1 DEF DirectoryDelete, DirectoryRename, CheckedFiles, SqlOnly
<1>10. ASSUME Recovery PROVE entries' = entries /\ req'[t] = req[t]
  <2>1. CASE RecoverBlobs \/ RecoverTmp \/ RecoverDone \/ Serve
    BY <2>1 DEF RecoverBlobs, RecoverTmp, RecoverDone, Serve, sqlVars
  <2>2. CASE \E n \in Names \union Temps : RecoverRemove(n) \/ RecoverFails(n) \/ RecoverMisses(n)
    BY <2>2 DEF RecoverRemove, RecoverFails, RecoverMisses, sqlVars
  <2>3. CASE \E u \in Tasks : StartupPurge(u)
    BY <1>5, <2>3 DEF StartupPurge, Actors
  <2> QED BY <1>10, <2>1, <2>2, <2>3 DEF Recovery
<1>11. ~(Killed \/ PowerLoss)
  BY <1>1 DEF Killed, PowerLoss
<1>12. ASSUME Shutdown \/ Writeback \/ Tick \/ UNCHANGED vars
       PROVE  entries' = entries /\ req' = req
  BY <1>12 DEF Shutdown, Writeback, Tick, vars, sqlVars
<1>13. CASE \E u \in Tasks : Upload(u)
  <2>1. PICK u \in Tasks : Upload(u)
    BY <1>13
  <2>2. CASE u = t
    BY <1>4, <2>1, <2>2
  <2>3. CASE u # t
    BY <1>3, <2>1, <2>3
  <2> QED BY <2>2, <2>3
<1>14. CASE ~\E u \in Tasks : Upload(u)
  <2>1. entries' = entries /\ req'[t] = req[t]
    BY <1>5, <1>6, <1>7, <1>8, <1>9, <1>10, <1>11, <1>12, <1>14
       DEF Next, PurgeExpired, PurgeTrashItem, Actors
  <2> QED BY <2>1
<1> QED BY <1>13, <1>14

\* What was checked when the mutex was taken still holds.
LEMMA CheckedStep ==
    ASSUME Inv, CheckedStateCurrent, [Next]_vars
    PROVE  CheckedStateCurrent'
<1> SUFFICES ASSUME NEW t \in Tasks, req'[t].pc \in InTransaction
             PROVE  MayCommit(t)'
  BY DEF CheckedStateCurrent
<1>1. MayCommit(t)
  BY TransactionStep DEF CheckedStateCurrent
<1>2. /\ entries' = entries
      /\ req'[t].path = req[t].path /\ req'[t].base = req[t].base
  BY TransactionStep
<1> QED BY <1>1, <1>2 DEF MayCommit, Live

-----------------------------------------------------------------------------
(* Revisions *)

\* The row of p gets a revision of its own that was not given out before.
Renewed(p) ==
    /\ entries'[p].revision > generation
    /\ entries'[p].revision <= generation'
    /\ \A q \in Paths : q # p => entries'[p].revision # entries'[q].revision

RowStep == /\ generation <= generation'
           /\ \A p \in Paths : Renewed(p) \/ entries'[p] = entries[p]

LEMMA RowFields ==
    /\ \A r : /\ Tombstone(r).revision = r /\ Tombstone(r).blob = Null
              /\ Tombstone(r).deleted = 1
    /\ \A r, b, d : LiveRow(r, b, d).revision = r /\ LiveRow(r, b, d).blob = b
BY DEF Tombstone, LiveRow

\* A step that writes one row with the next revision.
LEMMA OneRow ==
    ASSUME Inv, RevisionsBounded, NEW p \in Paths, NEW row \in Entry,
           row.revision = generation + 1, generation' = generation + 1,
           entries' = [entries EXCEPT ![p] = row]
    PROVE  RowStep
<1>1. generation \in Nat /\ \A q \in Paths : entries[q].revision \in Nat
  BY DEF Inv, TypeOK, Entry
<1>2. entries'[p] = row /\ \A q \in Paths : q # p => entries'[q] = entries[q]
  BY DEF Inv, TypeOK
<1>3. \A q \in Paths : entries[q].revision <= generation
  BY DEF RevisionsBounded
<1> HIDE DEF Inv
<1>4. Renewed(p)
  <2>1. entries'[p].revision = generation + 1
    BY <1>2
  <2>2. \A q \in Paths : q # p => entries'[q].revision <= generation
    BY <1>2, <1>3
  <2>3. \A q \in Paths : q # p => entries'[p].revision # entries'[q].revision
    BY <1>1, <1>2, <2>1, <2>2
  <2> QED BY <1>1, <2>1, <2>3 DEF Renewed
<1> QED BY <1>1, <1>2, <1>4 DEF RowStep

\* Directory operations: the rows of S get different new revisions.
LEMMA ManyRows ==
    ASSUME Inv, RevisionsBounded, NEW S \in SUBSET Paths,
           generation' \in Nat, generation <= generation',
           \A p \in S : /\ entries'[p].revision \in Nat
                        /\ entries'[p].revision > generation
                        /\ entries'[p].revision <= generation',
           \A p, q \in S : entries'[p].revision = entries'[q].revision => p = q,
           \A p \in Paths : p \notin S => entries'[p] = entries[p]
    PROVE  RowStep
<1>1. generation \in Nat /\ \A q \in Paths : entries[q].revision \in Nat
  BY DEF Inv, TypeOK, Entry
<1>2. \A q \in Paths : entries[q].revision <= generation
  BY DEF RevisionsBounded
<1>3. ASSUME NEW p \in S PROVE Renewed(p)
  <2>1. ASSUME NEW q \in Paths, q # p PROVE entries'[p].revision # entries'[q].revision
    <3>1. CASE q \in S
      BY <2>1, <3>1
    <3>2. CASE q \notin S
      BY <1>1, <1>2, <3>2
    <3> QED BY <3>1, <3>2
  <2> QED BY <2>1 DEF Renewed
<1> QED BY <1>3 DEF RowStep

LEMMA PublishedRows ==
    ASSUME Inv, RevisionsBounded, NEW t \in Tasks, Published(t)
    PROVE  /\ RowStep
           /\ req[t].path \in Paths /\ req[t].content \in Contents /\ req[t].blob \in Names
           /\ blobs[req[t].blob] = req[t].content
<1>1. /\ req[t].path \in Paths /\ req[t].content \in Contents /\ req[t].blob \in Names
      /\ blobs[req[t].blob] = req[t].content
  BY DEF Published, Inv, StagedBlobOwned, InTransaction
<1> DEFINE row == LiveRow(generation + 1, req[t].blob, Digest(req[t].content))
<1>2. row \in Entry /\ row.revision = generation + 1
  BY <1>1 DEF LiveRow, Entry, Digests, Inv, TypeOK
<1> HIDE DEF row
<1>3. generation' = generation + 1 /\ entries' = [entries EXCEPT ![req[t].path] = row]
  BY DEF Published, PublishRow, row
<1> QED BY <1>1, <1>2, <1>3, OneRow

LEMMA DeletedRows ==
    ASSUME Inv, RevisionsBounded, NEW p \in Paths, Delete(p)
    PROVE  RowStep
<1>1. Tombstone(generation + 1) \in Entry /\ Tombstone(generation + 1).revision = generation + 1
  BY DEF Tombstone, Entry, Inv, TypeOK
<1> QED BY <1>1, OneRow DEF Delete

LEMMA RestoredRows ==
    ASSUME Inv, RevisionsBounded, NEW i \in trash, Restore(i)
    PROVE  RowStep
<1> DEFINE row == LiveRow(generation + 1, i.blob, i.sha256)
<1>1. i.path \in Paths /\ row \in Entry /\ row.revision = generation + 1
  BY LiveRowTypes DEF LiveRow, Entry, Inv, TypeOK
<1> HIDE DEF row
<1>2. generation' = generation + 1 /\ entries' = [entries EXCEPT ![i.path] = row]
  BY DEF Restore, row
<1> QED BY <1>1, <1>2, OneRow

\* What a directory delete does, row by row.
LEMMA DirectoryDeleteRows ==
    ASSUME Inv, DirectoryDelete, NEW S, S = FilesBelow(snap.dir)
    PROVE  /\ snap.dir \in Paths /\ S \subseteq Live /\ S \subseteq Paths
           /\ Cardinality(S) \in Nat /\ generation' = generation + Cardinality(S)
           /\ snap' = Null /\ now' = now /\ blobs' = blobs
           /\ \E ord \in Orders(S), id \in NextIds :
                /\ \A p \in S : entries'[p] = Tombstone(generation + ord[p])
                /\ \A p \in Paths : p \notin S => entries'[p] = entries[p]
                /\ trash' = trash \union {TrashRowOf(id + ord[p] - 1, p) : p \in S}
<1>1. snap \in Snapshot
  BY DEF Inv, TypeOK, DirectoryDelete
<1>2. snap.dir \in Paths /\ S \subseteq Live /\ S \subseteq Paths
  BY <1>1 DEF Snapshot, FilesBelow, Live
<1>3. /\ generation' = generation + Cardinality(S)
      /\ snap' = Null /\ now' = now /\ blobs' = blobs
  BY DEF DirectoryDelete, SqlOnly, fsVars
<1>4. PICK ord \in Orders(S), id \in NextIds :
        /\ entries' = [p \in Paths |-> IF p \in S
                         THEN Tombstone(generation + ord[p]) ELSE entries[p]]
        /\ trash' = trash \union {TrashRowOf(id + ord[p] - 1, p) : p \in S}
  BY DEF DirectoryDelete
<1>5. Cardinality(S) \in Nat
  BY <1>2, <1>4, OrdersRange
<1>6. /\ \A p \in S : entries'[p] = Tombstone(generation + ord[p])
      /\ \A p \in Paths : p \notin S => entries'[p] = entries[p]
  BY <1>2, <1>4
<1> QED BY <1>2, <1>3, <1>4, <1>5, <1>6

LEMMA DirectoryDeletedRows ==
    ASSUME Inv, RevisionsBounded, DirectoryDelete
    PROVE  RowStep
<1> DEFINE S == FilesBelow(snap.dir)
<1>1. /\ S \subseteq Paths /\ Cardinality(S) \in Nat
      /\ generation' = generation + Cardinality(S)
  BY DirectoryDeleteRows
<1>2. PICK ord \in Orders(S) :
        /\ \A p \in S : entries'[p] = Tombstone(generation + ord[p])
        /\ \A p \in Paths : p \notin S => entries'[p] = entries[p]
  BY DirectoryDeleteRows
<1> HIDE DEF S
<1>3. /\ \A p \in S : ord[p] \in 1..Cardinality(S)
      /\ \A p, q \in S : ord[p] = ord[q] => p = q
  BY <1>1, OrdersRange
<1>4. generation \in Nat
  BY DEF Inv, TypeOK
<1>5. \A p \in S : entries'[p].revision = generation + ord[p]
  BY <1>2, RowFields
<1>6. \A p, q \in S : entries'[p].revision = entries'[q].revision => p = q
  BY <1>3, <1>4, <1>5
<1>7. generation' \in Nat /\ generation <= generation'
  BY <1>1, <1>4
<1>8. \A p \in S : /\ entries'[p].revision \in Nat
                   /\ entries'[p].revision > generation
                   /\ entries'[p].revision <= generation'
  BY <1>1, <1>3, <1>4, <1>5
<1> QED BY <1>1, <1>2, <1>6, <1>7, <1>8, ManyRows

\* What a directory rename does, row by row.
LEMMA DirectoryRenameRows ==
    ASSUME Inv, NEW name \in Components, DirectoryRename(name),
           NEW S, S = FilesBelow(snap.dir), NEW d, d = snap.dir, NEW tgt, tgt = Renamed(d, name)
    PROVE  /\ S \subseteq Paths
           /\ Cardinality(S) \in Nat /\ generation' = generation + 2 * Cardinality(S)
           /\ snap' = Null /\ trash' = trash /\ now' = now /\ blobs' = blobs
           /\ \E ord \in Orders(S) :
                /\ \A p \in S : entries'[p] = Tombstone(generation + 2 * ord[p] - 1)
                /\ \A p \in S : entries'[Moved(d, tgt, p)] =
                        LiveRow(generation + 2 * ord[p], entries[p].blob, entries[p].sha256)
                /\ \A q \in Paths :
                      q \notin S /\ (\A p \in S : q # Moved(d, tgt, p)) => entries'[q] = entries[q]
<1>1. /\ S \subseteq Live
      /\ \A p \in S : Moved(d, tgt, p) \in Paths /\ Moved(d, tgt, p) \notin S
      /\ \A p, q \in S : Moved(d, tgt, p) = Moved(d, tgt, q) => p = q
  BY RenameRows
<1>2. S \subseteq Paths
  BY <1>1 DEF Live
<1>3. /\ generation' = generation + 2 * Cardinality(S)
      /\ snap' = Null /\ trash' = trash /\ now' = now /\ blobs' = blobs
  BY DEF DirectoryRename, SqlOnly, fsVars
<1> DEFINE From(q) == {p \in S : q = Moved(d, tgt, p)}
           To(q) == CHOOSE p \in S : q = Moved(d, tgt, p)
<1>4. PICK ord \in Orders(S) :
        entries' = [q \in Paths |->
                  IF q \in S THEN Tombstone(generation + 2 * ord[q] - 1)
                  ELSE IF From(q) = {} THEN entries[q]
                  ELSE LiveRow(generation + 2 * ord[To(q)],
                               entries[To(q)].blob, entries[To(q)].sha256)]
  BY DEF DirectoryRename
<1>5. Cardinality(S) \in Nat
  BY <1>2, <1>4, OrdersRange
<1>6. \A p \in S : entries'[p] = Tombstone(generation + 2 * ord[p] - 1)
  BY <1>2, <1>4
<1>7. ASSUME NEW p \in S
      PROVE  entries'[Moved(d, tgt, p)] =
                LiveRow(generation + 2 * ord[p], entries[p].blob, entries[p].sha256)
  <2> DEFINE q == Moved(d, tgt, p)
  <2>1. q \in Paths /\ q \notin S /\ p \in From(q)
    BY <1>1
  <2>2. To(q) = p
    BY <1>1
  <2> HIDE DEF q, From, To
  <2>3. entries'[q] = LiveRow(generation + 2 * ord[To(q)],
                              entries[To(q)].blob, entries[To(q)].sha256)
    BY <1>4, <2>1
  <2> QED BY <2>2, <2>3 DEF q
<1>8. ASSUME NEW q \in Paths, q \notin S, \A p \in S : q # Moved(d, tgt, p)
      PROVE  entries'[q] = entries[q]
  <2>1. From(q) = {}
    BY <1>8
  <2> HIDE DEF From, To
  <2> QED BY <1>4, <1>8, <2>1
<1> QED BY <1>2, <1>3, <1>4, <1>5, <1>6, <1>7, <1>8

LEMMA DirectoryRenamedRows ==
    ASSUME Inv, RevisionsBounded, NEW name \in Components, DirectoryRename(name)
    PROVE  RowStep
<1> DEFINE S == FilesBelow(snap.dir)
           d == snap.dir
           tgt == Renamed(d, name)
           M(p) == Moved(d, tgt, p)
           T == S \union {M(p) : p \in S}
<1>1. /\ S \subseteq Paths
      /\ Cardinality(S) \in Nat /\ generation' = generation + 2 * Cardinality(S)
  BY DirectoryRenameRows
<1>2. PICK ord \in Orders(S) :
        /\ \A p \in S : entries'[p] = Tombstone(generation + 2 * ord[p] - 1)
        /\ \A p \in S : entries'[M(p)] =
                LiveRow(generation + 2 * ord[p], entries[p].blob, entries[p].sha256)
        /\ \A q \in Paths :
              q \notin S /\ (\A p \in S : q # M(p)) => entries'[q] = entries[q]
  BY DirectoryRenameRows
<1>3. \A p \in S : M(p) \in Paths
  BY RenameRows
<1> HIDE DEF S, M
<1>4. /\ \A p \in S : ord[p] \in 1..Cardinality(S)
      /\ \A p, q \in S : ord[p] = ord[q] => p = q
  BY <1>1, OrdersRange
<1>5. generation \in Nat
  BY DEF Inv, TypeOK
<1>6. /\ \A p \in S : entries'[p].revision = generation + 2 * ord[p] - 1
      /\ \A p \in S : entries'[M(p)].revision = generation + 2 * ord[p]
  BY <1>2, RowFields
<1>7. ASSUME NEW p \in T
      PROVE  /\ entries'[p].revision \in Nat
             /\ entries'[p].revision > generation
             /\ entries'[p].revision <= generation'
  BY <1>1, <1>4, <1>5, <1>6
<1>8. ASSUME NEW p \in T, NEW q \in T, entries'[p].revision = entries'[q].revision
      PROVE  p = q
  <2>1. \A a, b \in S : generation + 2 * ord[a] - 1 # generation + 2 * ord[b]
    BY <1>4, <1>5
  <2>2. \A a, b \in S : 2 * ord[a] = 2 * ord[b] => a = b
    BY <1>4
  <2>3. CASE p \in S /\ q \in S
    BY <1>4, <1>5, <1>6, <1>8, <2>3
  <2>4. CASE p \in S /\ q \notin S
    BY <1>6, <1>8, <2>1, <2>4
  <2>5. CASE p \notin S /\ q \in S
    BY <1>6, <1>8, <2>1, <2>5
  <2>6. CASE p \notin S /\ q \notin S
    <3>1. PICK a \in S, b \in S : p = M(a) /\ q = M(b)
      BY <2>6
    <3>2. generation + 2 * ord[a] = generation + 2 * ord[b]
      BY <1>6, <1>8, <3>1
    <3>3. ord[a] \in Nat /\ ord[b] \in Nat
      BY <1>4
    <3> QED BY <1>5, <2>2, <3>1, <3>2, <3>3
  <2> QED BY <2>3, <2>4, <2>5, <2>6
<1>9. \A q \in Paths : q \notin T => entries'[q] = entries[q]
  BY <1>2
<1>10. T \subseteq Paths /\ generation' \in Nat /\ generation <= generation'
  BY <1>1, <1>3, <1>5
<1> HIDE DEF T
<1> QED BY <1>7, <1>8, <1>9, <1>10, ManyRows

LEMMA RowStepHolds ==
    ASSUME Inv, RevisionsBounded, [Next]_vars
    PROVE  RowStep
<1>1. generation \in Nat
  BY DEF Inv, TypeOK
<1>2. ASSUME UNCHANGED <<generation, entries>> PROVE RowStep
  BY <1>1, <1>2 DEF RowStep
<1>3. ASSUME Tick \/ \E S : Dropped(S) PROVE RowStep
  BY <1>2, <1>3 DEF Tick, Dropped, sqlVars
<1>4. ASSUME NEW p \in Paths, Properties(p) PROVE RowStep
  BY <1>2, <1>4 DEF Properties, sqlVars
<1> QED BY <1>2, <1>3, <1>4, StepKinds, PublishedRows, DeletedRows, RestoredRows,
           DirectoryDeletedRows, DirectoryRenamedRows

\* A row that is not renewed is the same, and so is what a live one names.
LEMMA LiveContentKept ==
    ASSUME Inv, [Next]_vars, NEW p \in Live
    PROVE  blobs'[entries[p].blob] = blobs[entries[p].blob]
<1>1. entries[p].blob \in Names /\ ~Unreferenced(entries[p].blob)
  BY LiveRowTypes DEF Unreferenced
<1> QED BY <1>1, ContentsKept

LEMMA BoundedStep ==
    ASSUME Inv, RevisionsBounded, [Next]_vars
    PROVE  RevisionsBounded'
<1>1. /\ generation \in Nat /\ generation' \in Nat
      /\ \A p \in Paths : entries[p].revision \in Nat /\ entries'[p].revision \in Nat
  BY NextInv DEF Inv, TypeOK, Entry
<1> QED BY <1>1, RowStepHolds DEF RowStep, Renewed, RevisionsBounded

\* Rows enter the trash above all identifiers in use.
LEMMA TrashIdsStep ==
    ASSUME Inv, TrashIdsUnique, [Next]_vars
    PROVE  TrashIdsUnique'
<1>1. ASSUME trash' \subseteq trash PROVE TrashIdsUnique'
  BY <1>1 DEF TrashIdsUnique
<1>2. \A i \in trash : i.id \in Nat
  BY DEF Inv, TypeOK, TrashRow
<1>3. ASSUME NEW p \in Paths, Delete(p) PROVE TrashIdsUnique'
  <2>1. PICK id \in NextIds : trash' = trash \union {TrashRowOf(id, p)}
    BY <1>3 DEF Delete
  <2>2. TrashRowOf(id, p).id = id /\ id \in Nat /\ \A i \in trash : i.id < id
    BY LiveRowTypes DEF TrashRowOf, NextIds
  <2> QED BY <1>2, <2>1, <2>2 DEF TrashIdsUnique
<1>4. ASSUME DirectoryDelete PROVE TrashIdsUnique'
  <2> DEFINE S == FilesBelow(snap.dir)
  <2>1. S \subseteq Paths
    BY <1>4, DirectoryDeleteRows
  <2>2. PICK ord \in Orders(S), id \in NextIds :
          trash' = trash \union {TrashRowOf(id + ord[p] - 1, p) : p \in S}
    BY <1>4, DirectoryDeleteRows
  <2> HIDE DEF S
  <2>3. /\ \A p \in S : ord[p] \in Nat \ {0}
        /\ \A p, q \in S : ord[p] = ord[q] => p = q
    BY <2>1, OrdersRange
  <2>4. id \in Nat /\ \A i \in trash : i.id < id
    BY LiveRowTypes DEF NextIds
  <2> DEFINE Row(p) == TrashRowOf(id + ord[p] - 1, p)
  <2>5. \A p \in S : Row(p).id = id + ord[p] - 1
    BY DEF TrashRowOf
  <2>6. \A i \in trash' : i \in trash \/ \E p \in S : i = Row(p)
    BY <2>2
  <2> HIDE DEF Row
  <2>7. ASSUME NEW i \in trash, NEW p \in S PROVE i.id < Row(p).id
    BY <1>2, <2>3, <2>4, <2>5
  <2>8. ASSUME NEW p \in S, NEW q \in S, Row(p).id = Row(q).id PROVE Row(p) = Row(q)
    <3>1. id + ord[p] - 1 = id + ord[q] - 1
      BY <2>5, <2>8
    <3>2. ord[p] = ord[q]
      BY <2>3, <2>4, <3>1
    <3> QED BY <2>3, <3>2
  <2>9. \A i \in trash : i.id \in Nat
    BY <1>2
  <2>10. ASSUME NEW i \in trash, NEW p \in S PROVE i.id # Row(p).id
    <3>1. Row(p).id \in Nat
      BY <2>3, <2>4, <2>5
    <3> QED BY <2>7, <2>9, <3>1
  <2> QED BY <2>6, <2>8, <2>10 DEF TrashIdsUnique
<1>5. ASSUME NEW i \in trash, Restore(i) PROVE TrashIdsUnique'
  BY <1>1, <1>5 DEF Restore
<1>6. ASSUME NEW name \in Components, DirectoryRename(name) PROVE TrashIdsUnique'
  BY <1>1, <1>6 DEF DirectoryRename
<1>7. ASSUME \E S : Dropped(S) PROVE TrashIdsUnique'
  BY <1>1, <1>7 DEF Dropped
<1>8. ASSUME \/ UNCHANGED trash \/ Tick
             \/ (\E t \in Tasks : Published(t)) \/ \E p \in Paths : Properties(p)
      PROVE  TrashIdsUnique'
  BY <1>1, <1>8 DEF Tick, Published, PublishRow, Properties, sqlVars
<1> QED BY <1>3, <1>4, <1>5, <1>6, <1>7, <1>8, StepKinds

\* The fingerprint a user was shown stays true of every row it still matches.
LEMMA SnapshotStep ==
    ASSUME Inv, RevisionsBounded, SnapshotTrue, [Next]_vars
    PROVE  SnapshotTrue'
<1>1. /\ generation \in Nat /\ generation' \in Nat
      /\ \A p \in Paths : entries[p].revision \in Nat /\ entries'[p].revision \in Nat
  BY NextInv DEF Inv, TypeOK, Entry
<1>2. CASE snap' = Null
  BY <1>2 DEF SnapshotTrue
<1>3. CASE snap' = snap /\ snap # Null
  <2>1. \A e \in snap.snapshot : e[2] \in Nat /\ e[2] <= generation
    BY <1>3 DEF SnapshotTrue, Inv, TypeOK, Snapshot
  <2>2. generation <= generation'
    BY RowStepHolds DEF RowStep
  <2>3. \A e \in snap.snapshot : e[2] <= generation'
    BY <1>1, <2>1, <2>2
  <2>4. ASSUME NEW p \in Paths, <<p, entries'[p].revision>> \in snap.snapshot
        PROVE  p \in Live' /\ blobs'[entries'[p].blob] = snap.held[p]
    <3>1. ~Renewed(p)
      BY <1>1, <2>1, <2>4 DEF Renewed
    <3>2. entries'[p] = entries[p]
      BY <3>1, RowStepHolds DEF RowStep
    <3>3. p \in Live /\ blobs[entries[p].blob] = snap.held[p]
      BY <1>3, <2>4, <3>2 DEF SnapshotTrue
    <3> QED BY <3>2, <3>3, LiveContentKept DEF Live
  <2> QED BY <1>3, <2>3, <2>4 DEF SnapshotTrue
<1>4. CASE \E d \in Paths : Properties(d)
  <2>1. PICK d \in Paths : Properties(d)
    BY <1>4
  <2> DEFINE S == FilesBelow(d)
  <2>2. /\ snap' = [dir |-> d, snapshot |-> Fingerprint(S),
                    held |-> [p \in S |-> blobs[entries[p].blob]]]
        /\ UNCHANGED <<generation, entries, blobs>>
    BY <2>1 DEF Properties, SqlOnly, fsVars, sqlVars
  <2>3. S \subseteq Live /\ S \subseteq Paths
    BY DEF FilesBelow, Live
  <2> HIDE DEF S
  <2>4. /\ snap'.snapshot = {<<p, entries[p].revision>> : p \in S}
        /\ \A p \in S : snap'.held[p] = blobs[entries[p].blob]
    BY <2>2 DEF Fingerprint
  <2>5. \A e \in snap'.snapshot : e[2] <= generation'
    BY <2>2, <2>3, <2>4 DEF RevisionsBounded
  <2>6. ASSUME NEW p \in Paths, <<p, entries'[p].revision>> \in snap'.snapshot
        PROVE  p \in Live' /\ blobs'[entries'[p].blob] = snap'.held[p]
    <3>1. p \in S
      BY <2>4, <2>6
    <3> QED BY <2>2, <2>3, <2>4, <3>1 DEF Live
  <2> QED BY <2>5, <2>6 DEF SnapshotTrue
<1>5. snap' = Null \/ snap' = snap \/ \E d \in Paths : Properties(d)
  BY StepKinds DEF Published, Dropped, Tick, Delete, Restore, DirectoryDelete, DirectoryRename
<1> QED BY <1>2, <1>3, <1>4, <1>5

LEMMA InitVersionInv == Init => VersionInv
<1> SUFFICES ASSUME Init PROVE VersionInv
  OBVIOUS
<1>1. Inv
  BY InitInv
<1>2. CheckedStateCurrent
  BY <1>1, ConstantsAssumption DEF Init, Inv, MutexHeld, CheckedStateCurrent
<1>3. RevisionsBounded /\ TrashIdsUnique /\ SnapshotTrue
  BY DEF Init, NoRow, RevisionsBounded, TrashIdsUnique, SnapshotTrue
<1> QED BY <1>1, <1>2, <1>3 DEF VersionInv

LEMMA NextVersionInv == VersionInv /\ [Next]_vars => VersionInv'
BY NextInv, CheckedStep, BoundedStep, TrashIdsStep, SnapshotStep DEF VersionInv

LEMMA VersionInvHolds == Spec => []VersionInv
BY InitVersionInv, NextVersionInv, PTL DEF Spec

\* While a publication renames files and syncs directories, the base revision
\* and the namespace it was checked against stay the current ones: no other
\* request, administrator or restart changes a row before the commit does.
THEOREM CheckedCurrent == Spec => []CheckedStateCurrent
<1>1. VersionInv => CheckedStateCurrent
  BY DEF VersionInv
<1> QED BY <1>1, VersionInvHolds, PTL

\* A directory that still has the fingerprint its user was shown holds what it
\* held then: no rename or delete of a directory acts on other contents.
THEOREM SnapshotsNameContents == Spec => []SnapshotNamesContents
<1>1. ASSUME VersionInv PROVE SnapshotNamesContents
  <2> SUFFICES ASSUME snap # Null, Fingerprint(FilesBelow(snap.dir)) = snap.snapshot,
                      NEW p \in FilesBelow(snap.dir)
               PROVE  blobs[entries[p].blob] = snap.held[p]
    BY DEF SnapshotNamesContents
  <2>1. p \in Paths /\ <<p, entries[p].revision>> \in snap.snapshot
    BY DEF Fingerprint, FilesBelow, Live
  <2> QED BY <1>1, <2>1 DEF VersionInv, SnapshotTrue
<1> QED BY <1>1, VersionInvHolds, PTL

\* A row changes only to a revision no row has or had, also where a directory
\* changes many rows at once, and while it keeps its revision its content is
\* the same across crashes and recovery: a base revision names what was seen.
THEOREM RevisionsIdentify == Spec => RevisionsNameVersions
<1> DEFINE Fresh(p) == \A q \in Paths : /\ entries'[p].revision > entries[q].revision
                                        /\ q = p \/ entries'[p].revision # entries'[q].revision
           Same(p) == /\ entries'[p] = entries[p]
                      /\ entries[p].deleted = 0 =>
                            blobs'[entries[p].blob] = blobs[entries[p].blob]
<1>1. ASSUME VersionInv, [Next]_vars PROVE \A p \in Paths : Fresh(p) \/ Same(p)
  <2>1. /\ generation \in Nat
        /\ \A p \in Paths : entries[p].revision \in Nat /\ entries'[p].revision \in Nat
        /\ \A p \in Paths : entries[p].revision <= generation
    BY <1>1, NextInv DEF VersionInv, Inv, TypeOK, Entry, RevisionsBounded
  <2>2. ASSUME NEW p \in Paths, Renewed(p) PROVE Fresh(p)
    BY <2>1, <2>2 DEF Renewed
  <2>3. ASSUME NEW p \in Paths, entries'[p] = entries[p] PROVE Same(p)
    BY <1>1, <2>3, LiveContentKept DEF VersionInv, Live
  <2> QED BY <1>1, <2>2, <2>3, RowStepHolds DEF VersionInv, RowStep
<1>2. VersionInv /\ [Next]_vars =>
        [\A p \in Paths :
           \/ \A q \in Paths : /\ entries'[p].revision > entries[q].revision
                               /\ q = p \/ entries'[p].revision # entries'[q].revision
           \/ /\ entries'[p] = entries[p]
              /\ entries[p].deleted = 0 => blobs'[entries[p].blob] = blobs[entries[p].blob]]_vars
  BY <1>1
<1> QED BY <1>2, VersionInvHolds, PTL DEF Spec, RevisionsNameVersions

-----------------------------------------------------------------------------
(* The refinement *)

\* What a reader sees of the files and of the trash.
View == [p \in Paths |-> [revision |-> entries[p].revision,
                          content |-> Content(entries[p].blob)]]
BinItem(i) == [id |-> i.id, path |-> i.path, content |-> Content(i.blob),
               expires_at |-> i.expires_at]
BinView == {BinItem(i) : i \in trash}

\* The instance speaks of the same paths.
LEMMA SamePaths ==
    /\ \A a, b : Abstract!Below(a, b) <=> Below(a, b)
    /\ \A L, a : Abstract!NamespaceFree(L, a) <=> NamespaceFree(L, a)
    /\ \A a, b, c : Abstract!Moved(a, b, c) = Moved(a, b, c)
<1>1. \A a, b : Abstract!Below(a, b) <=> Below(a, b)
  BY DEF Abstract!Below, Below
<1>2. \A L, a : Abstract!NamespaceFree(L, a) <=> NamespaceFree(L, a)
  BY <1>1 DEF Abstract!NamespaceFree, NamespaceFree
<1>3. \A a, b, c : Abstract!Moved(a, b, c) = Moved(a, b, c)
  BY DEF Abstract!Moved, Moved
<1> QED BY <1>1, <1>2, <1>3

LEMMA SameCardinality == \A S : Abstract!Cardinality(S) = Cardinality(S)
BY DEF Abstract!Cardinality, Cardinality

LEMMA SameOrders == \A S : Abstract!Orders(S) = Orders(S)
BY SameCardinality DEF Abstract!Orders, Orders, Abstract!Bijection, Bijection, Abstract!Injection, Injection,
       Abstract!Surjection, Surjection, Abstract!IsInjective, IsInjective

LEMMA ViewContents ==
    ASSUME Inv
    PROVE  /\ \A p \in Live : View[p].content \in Contents
           /\ \A p \in Live : View[p].content = blobs[entries[p].blob]
           /\ \A p \in Paths : p \notin Live => View[p].content = Absent
           /\ \A p \in Paths : View[p].revision = entries[p].revision
           /\ \A i \in trash : Content(i.blob) \in Contents
           /\ \A i \in trash : Content(i.blob) = blobs[i.blob]
<1>1. \A p \in Live : entries[p].blob \in Names /\ blobs[entries[p].blob] \in Contents
  BY DEF Inv, ReferencedBlobsIntact, Intact, RowShape, Live
<1>2. \A i \in trash : i.blob \in Names /\ blobs[i.blob] \in Contents
  BY LiveRowTypes DEF Inv, ReferencedBlobsIntact, Intact
<1>3. \A p \in Paths : p \notin Live => entries[p].blob = Null
  BY DEF Inv, RowShape, Live
<1> QED BY <1>1, <1>2, <1>3, ConstantsAssumption DEF View, Content, Live

LEMMA AbstractLive ==
    ASSUME Inv
    PROVE  Abstract!Live = Live
<1>1. \A p \in Paths : View[p].content # Absent <=> p \in Live
  BY ViewContents, ConstantsAssumption
<1>2. Abstract!Live = {p \in Paths : View[p].content # Absent}
  BY DEF Abstract!Live, View
<1> QED BY <1>1, <1>2 DEF Live

LEMMA AbstractNextIds == Abstract!NextIds = NextIds
<1>1. Abstract!NextIds = {id \in {1} \union {i.id + 1 : i \in BinView} :
                             \A i \in BinView : i.id < id}
  BY DEF Abstract!NextIds, BinView, BinItem
<1>2. \A i : BinItem(i).id = i.id
  BY DEF BinItem
<1>3. {i.id + 1 : i \in BinView} = {i.id + 1 : i \in trash}
  BY <1>2 DEF BinView
<1>4. ASSUME NEW id PROVE (\A i \in BinView : i.id < id) <=> (\A i \in trash : i.id < id)
  BY <1>2 DEF BinView
<1> QED BY <1>1, <1>3, <1>4 DEF NextIds

\* The row of a path as a reader sees it after the step.
LEMMA ViewAfter ==
    /\ \A p \in Paths : View'[p] = [revision |-> entries'[p].revision,
                                    content |-> Content(entries[p].blob)']
    /\ View' = [p \in Paths |-> View'[p]]
    /\ blobs' = blobs => \A b : Content(b)' = Content(b)
    /\ \A p \in Paths : View[p] = [revision |-> entries[p].revision,
                                   content |-> Content(entries[p].blob)]
BY DEF View, Content

\* Rows that stay show what they showed.
LEMMA ViewKept ==
    ASSUME Inv, [Next]_vars
    PROVE  /\ \A p \in Paths : entries'[p] = entries[p] => View'[p] = View[p]
           /\ \A i \in trash : BinItem(i)' = BinItem(i)
<1>1. ASSUME NEW p \in Paths, entries'[p] = entries[p] PROVE View'[p] = View[p]
  <2>1. CASE p \in Live
    <3>1. entries[p].blob \in Names /\ blobs'[entries[p].blob] = blobs[entries[p].blob]
      BY <2>1, LiveContentKept, LiveRowTypes
    <3> QED BY <1>1, <3>1, ViewAfter, ConstantsAssumption DEF Content
  <2>2. CASE p \notin Live
    <3>1. entries[p].blob = Null
      BY <2>2 DEF Inv, RowShape, Live
    <3> QED BY <1>1, <3>1, ViewAfter DEF Content
  <2> QED BY <2>1, <2>2
<1>2. ASSUME NEW i \in trash PROVE BinItem(i)' = BinItem(i)
  <2>1. i.blob \in Names /\ ~Unreferenced(i.blob)
    BY LiveRowTypes DEF Unreferenced
  <2>2. blobs'[i.blob] = blobs[i.blob]
    BY <2>1, ContentsKept
  <2> QED BY <2>1, <2>2, ConstantsAssumption DEF BinItem, Content
<1> QED BY <1>1, <1>2

\* Steps without rows: requests, files, recovery, crashes.
LEMMA RefinesQuiet ==
    ASSUME Inv, [Next]_vars, UNCHANGED <<generation, entries, trash, now>>
    PROVE  UNCHANGED Abstract!vars
<1>1. View' = View
  BY ViewKept DEF View
<1>2. BinView' = BinView
  BY ViewKept DEF BinView
<1> QED BY <1>1, <1>2 DEF Abstract!vars, View, BinView, BinItem

LEMMA RefinesTick ==
    ASSUME Inv, [Next]_vars, Tick
    PROVE  Abstract!Tick
<1>1. now' = now + 1 /\ UNCHANGED <<generation, entries, trash>>
  BY DEF Tick, sqlVars
<1>2. View' = View
  BY <1>1, ViewKept DEF View
<1>3. BinView' = BinView
  BY <1>1, ViewKept DEF BinView
<1> QED BY <1>1, <1>2, <1>3 DEF Abstract!Tick, View, BinView, BinItem

\* One row is written: publication and restore.
LEMMA ViewOneRow ==
    ASSUME Inv, [Next]_vars, NEW p \in Paths, NEW b \in Names, NEW d, NEW r,
           entries' = [entries EXCEPT ![p] = LiveRow(r, b, d)], blobs' = blobs
    PROVE  View' = [View EXCEPT ![p] = [revision |-> r, content |-> blobs[b]]]
<1>1. entries'[p] = LiveRow(r, b, d) /\ \A q \in Paths : q # p => entries'[q] = entries[q]
  BY DEF Inv, TypeOK
<1>2. View'[p] = [revision |-> r, content |-> blobs[b]]
  BY <1>1, ViewAfter, ConstantsAssumption DEF LiveRow, Content
<1>3. \A q \in Paths : q # p => View'[q] = View[q]
  BY <1>1, ViewKept
<1>4. View' = [q \in Paths |-> View'[q]] /\ DOMAIN View = Paths
  BY DEF View
<1> HIDE DEF View
<1> QED BY <1>2, <1>3, <1>4

LEMMA RefinesPublish ==
    ASSUME VersionInv, [Next]_vars, NEW t \in Tasks, Published(t)
    PROVE  \E p \in Paths, c \in Contents : Abstract!Publish(p, c)
<1>1. PICK p \in Paths, c \in Contents, b \in Names :
        p = req[t].path /\ c = req[t].content /\ b = req[t].blob /\ blobs[b] = c
  BY PublishedRows DEF VersionInv
<1>2. NamespaceFree(Live, p)
  BY <1>1 DEF VersionInv, CheckedStateCurrent, MayCommit, Published, InTransaction
<1>3. /\ Inv
      /\ generation' = generation + 1 /\ trash' = trash /\ now' = now /\ blobs' = blobs
      /\ entries' = [entries EXCEPT ![p] = LiveRow(generation + 1, b, Digest(c))]
  BY <1>1 DEF VersionInv, Published, PublishRow
<1>4. View' = [View EXCEPT ![p] = [revision |-> generation + 1, content |-> c]]
  BY <1>1, <1>3, ViewOneRow
<1>5. BinView' = BinView
  BY <1>1, <1>3, ViewKept DEF BinView
<1>6. Abstract!NamespaceFree(Abstract!Live, p)
  BY <1>2, <1>3, AbstractLive, SamePaths
<1>7. Abstract!Publish(p, c)
  BY <1>3, <1>4, <1>5, <1>6 DEF Abstract!Publish, View, BinView, BinItem
<1> QED BY <1>7

\* Rows of the trash are told apart by what a reader sees of them.
LEMMA BinItemsDiffer ==
    ASSUME TrashIdsUnique, NEW i \in trash, NEW j \in trash, BinItem(i) = BinItem(j)
    PROVE  i = j
BY DEF TrashIdsUnique, BinItem

\* Rows leave the trash.
LEMMA BinDropped ==
    ASSUME Inv, TrashIdsUnique, [Next]_vars, NEW S \in SUBSET trash, trash' = trash \ S
    PROVE  BinView' = BinView \ {BinItem(i) : i \in S}
<1>1. BinView' = {BinItem(i) : i \in trash \ S}
  BY ViewKept DEF BinView
<1> QED BY <1>1, BinItemsDiffer DEF BinView

LEMMA RefinesRestore ==
    ASSUME VersionInv, [Next]_vars, NEW i \in trash, Restore(i)
    PROVE  \E item \in BinView : Abstract!Restore(item)
<1>1. Inv /\ TrashIdsUnique
  BY DEF VersionInv
<1>2. PICK p \in Paths, b \in Names : p = i.path /\ b = i.blob
  BY <1>1, LiveRowTypes
<1>item. PICK d, item : d = i.sha256 /\ item = BinItem(i)
  OBVIOUS
<1>3. /\ i.expires_at > now /\ NamespaceFree(Live, p) /\ p \notin Live
      /\ generation' = generation + 1 /\ trash' = trash \ {i}
      /\ entries' = [entries EXCEPT ![p] = LiveRow(generation + 1, b, d)]
      /\ now' = now /\ blobs' = blobs
  BY <1>2, <1>item DEF Restore, SqlOnly, fsVars
<1>4. /\ item.path = p /\ item.expires_at = i.expires_at /\ item.content = blobs[b]
  BY <1>1, <1>2, <1>item, ViewContents DEF BinItem
<1>5. View' = [View EXCEPT ![p] = [revision |-> generation + 1, content |-> blobs[b]]]
  BY <1>1, <1>3, ViewOneRow
<1>6. BinView' = BinView \ {item}
  <2>1. BinView' = BinView \ {BinItem(j) : j \in {i}}
    BY <1>1, <1>3, BinDropped
  <2> QED BY <1>item, <2>1
<1>7. /\ Abstract!NamespaceFree(Abstract!Live, p)
      /\ p \notin Abstract!Live /\ item.expires_at > now
  BY <1>1, <1>2, <1>3, <1>4, AbstractLive, SamePaths
<1>8. Abstract!Restore(item)
  BY <1>2, <1>item, <1>3, <1>4, <1>5, <1>6, <1>7 DEF Abstract!Restore, View, BinView, BinItem
<1> QED BY <1>item, <1>8 DEF BinView

LEMMA RefinesDrop ==
    ASSUME VersionInv, [Next]_vars, NEW S \in SUBSET trash, Dropped(S)
    PROVE  /\ S = Expired => Abstract!Expire
           /\ \A i \in trash : S = {i} => \E item \in BinView : Abstract!Destroy(item)
<1>1. /\ Inv /\ TrashIdsUnique /\ now \in Nat
      /\ trash' = trash \ S /\ UNCHANGED <<generation, entries, now>>
  BY DEF VersionInv, Dropped, Inv, TypeOK
<1>2. View' = View
  BY <1>1, ViewKept DEF View
<1>3. BinView' = BinView \ {BinItem(i) : i \in S}
  BY <1>1, BinDropped
<1>4. ASSUME S = Expired PROVE Abstract!Expire
  <2>1. \A i \in trash : i.expires_at \in Nat /\ BinItem(i).expires_at = i.expires_at
    BY <1>1 DEF BinItem, Inv, TypeOK, TrashRow
  <2>2. BinView' = {i \in BinView : i.expires_at > now}
    <3>1. BinView' = {BinItem(i) : i \in trash \ Expired}
      BY <1>1, <1>4, ViewKept DEF BinView
    <3>2. \A i \in trash : i \notin Expired <=> BinItem(i).expires_at > now
      BY <1>1, <2>1 DEF Expired
    <3> HIDE DEF Expired
    <3> QED BY <3>1, <3>2 DEF BinView
  <2> QED BY <1>1, <1>2, <2>2 DEF Abstract!Expire, View, BinView, BinItem
<1>5. ASSUME NEW i \in trash, S = {i}
      PROVE  \E item \in BinView : Abstract!Destroy(item)
  <2>1. PICK item \in BinView : item = BinItem(i)
    BY DEF BinView
  <2>2. BinView' = BinView \ {item}
    BY <1>3, <1>5, <2>1
  <2>3. Abstract!Destroy(item)
    BY <1>1, <1>2, <2>2 DEF Abstract!Destroy, View, BinView, BinItem
  <2> QED BY <2>3
<1> QED BY <1>4, <1>5

\* Rows of S become tombstones and rows of the trash in one transaction.
LEMMA RefinesRemove ==
    ASSUME VersionInv, [Next]_vars, NEW S \in SUBSET Live, NEW ord \in Orders(S),
           NEW id \in NextIds,
           generation' = generation + Cardinality(S), blobs' = blobs, now' = now,
           \A p \in S : entries'[p] = Tombstone(generation + ord[p]),
           \A p \in Paths : p \notin S => entries'[p] = entries[p],
           trash' = trash \union {TrashRowOf(id + ord[p] - 1, p) : p \in S}
    PROVE  Abstract!Remove(S)
<1>1. Inv /\ S \subseteq Paths
  BY DEF VersionInv, Live
<1> DEFINE gone == [p \in Paths |->
                       IF p \in S
                       THEN [revision |-> generation + ord[p], content |-> Absent]
                       ELSE View[p]]
           added == {Abstract!BinEntry(id + ord[p] - 1, p) : p \in S}
<1>2. View' = gone
  <2>1. ASSUME NEW p \in S
        PROVE  View'[p] = [revision |-> generation + ord[p], content |-> Absent]
    <3>1. entries'[p].revision = generation + ord[p] /\ entries'[p].blob = Null
      BY RowFields
    <3> QED BY <1>1, <3>1, ViewAfter DEF Content
  <2>2. \A p \in Paths : p \notin S => View'[p] = View[p]
    BY <1>1, ViewKept
  <2> QED BY <2>1, <2>2, ViewAfter
<1>3. BinView' = BinView \union added
  <2>1. ASSUME NEW p \in S, NEW k
        PROVE  BinItem(TrashRowOf(k, p)) = Abstract!BinEntry(k, p)
    <3>1. BinItem(TrashRowOf(k, p)) = [id |-> k, path |-> p, content |-> Content(entries[p].blob),
                                       expires_at |-> now + RetentionSeconds]
      BY DEF BinItem, TrashRowOf
    <3>2. View[p].content = Content(entries[p].blob)
      BY <1>1 DEF View
    <3> QED BY <3>1, <3>2 DEF Abstract!BinEntry, View
  <2>2. BinView' = {BinItem(i) : i \in trash'}
    BY ViewAfter DEF BinView, BinItem
  <2>3. {BinItem(i) : i \in {TrashRowOf(id + ord[p] - 1, p) : p \in S}} = added
    BY <2>1
  <2> HIDE DEF added
  <2> QED BY <2>2, <2>3 DEF BinView
<1>4. ord \in Abstract!Orders(S) /\ id \in Abstract!NextIds
      /\ generation' = generation + Abstract!Cardinality(S)
  BY SameOrders, SameCardinality, AbstractNextIds
<1> QED BY <1>2, <1>3, <1>4 DEF Abstract!Remove, View, BinView, BinItem

LEMMA RefinesDelete ==
    ASSUME VersionInv, [Next]_vars, NEW p \in Paths, Delete(p)
    PROVE  p \in Live /\ Abstract!Remove({p})
<1>1. PICK id \in NextIds : trash' = trash \union {TrashRowOf(id, p)}
  BY DEF Delete
<1>2. /\ p \in Live /\ generation' = generation + 1 /\ blobs' = blobs /\ now' = now
      /\ entries' = [entries EXCEPT ![p] = Tombstone(generation + 1)]
  BY DEF Delete, SqlOnly, fsVars, Live
<1> DEFINE ord == [q \in {p} |-> 1]
<1>3. Cardinality({p}) = 1
  BY FS_Singleton
<1>4. ord \in Orders({p}) /\ ord[p] = 1
  <2>1. 1..1 = {1}
    OBVIOUS
  <2> QED BY <1>3, <2>1 DEF Orders, Bijection, Injection, Surjection, IsInjective
<1>5. /\ entries'[p] = Tombstone(generation + ord[p])
      /\ \A q \in Paths : q \notin {p} => entries'[q] = entries[q]
  BY <1>2, <1>4 DEF VersionInv, Inv, TypeOK
<1>6. trash' = trash \union {TrashRowOf(id + ord[q] - 1, q) : q \in {p}}
  <2>1. id \in Nat
    BY LiveRowTypes DEF VersionInv
  <2>2. id + ord[p] - 1 = id
    BY <1>4, <2>1
  <2> QED BY <1>1, <2>2
<1> HIDE DEF ord
<1>7. Abstract!Remove({p})
  BY <1>2, <1>3, <1>4, <1>5, <1>6, RefinesRemove
<1> QED BY <1>2, <1>7

LEMMA DirectoryDeleteRemoves ==
    ASSUME VersionInv, [Next]_vars, DirectoryDelete
    PROVE  \E d \in Paths, S \in SUBSET Live :
              /\ S = {p \in Abstract!Live : Abstract!Below(d, p)}
              /\ Abstract!Remove(S)
<1>1. PICK d, S : d = snap.dir /\ S = FilesBelow(d)
  OBVIOUS
<1>2. /\ d \in Paths /\ S \subseteq Live /\ generation' = generation + Cardinality(S)
      /\ now' = now /\ blobs' = blobs
      /\ \E ord \in Orders(S), id \in NextIds :
           /\ \A p \in S : entries'[p] = Tombstone(generation + ord[p])
           /\ \A p \in Paths : p \notin S => entries'[p] = entries[p]
           /\ trash' = trash \union {TrashRowOf(id + ord[p] - 1, p) : p \in S}
  BY <1>1, DirectoryDeleteRows DEF VersionInv
<1>3. Abstract!Remove(S)
  BY <1>2, RefinesRemove
<1>4. S = {p \in Abstract!Live : Abstract!Below(d, p)}
  BY <1>1, AbstractLive, SamePaths DEF VersionInv, FilesBelow
<1> QED BY <1>2, <1>3, <1>4

LEMMA RefinesDirectoryDelete ==
    ASSUME VersionInv, [Next]_vars, DirectoryDelete
    PROVE  \E d \in Paths : Abstract!Remove({p \in Abstract!Live : Abstract!Below(d, p)})
<1>2. PICK d \in Paths, S \in SUBSET Live : /\ S = {p \in Abstract!Live : Abstract!Below(d, p)}
                                            /\ Abstract!Remove(S)
  BY DirectoryDeleteRemoves
<1>3. Abstract!Remove(S)
  BY <1>2
<1>4. S = {p \in Abstract!Live : Abstract!Below(d, p)}
  BY <1>2
<1>5. PICK ord \in Abstract!Orders(S), id \in Abstract!NextIds :
        /\ generation' = generation + Abstract!Cardinality(S)
        /\ View' = [p \in Paths |->
                       IF p \in S
                       THEN [revision |-> generation + ord[p], content |-> Absent]
                       ELSE View[p]]
        /\ BinView' = BinView \union {Abstract!BinEntry(id + ord[p] - 1, p) : p \in S}
        /\ now' = now
  BY <1>3 DEF Abstract!Remove, View, BinView, BinItem
<1> DEFINE E == {p \in Abstract!Live : Abstract!Below(d, p)}
<1>6. ord \in Abstract!Orders(E)
  BY <1>4, <1>5
<1>7. generation' = generation + Abstract!Cardinality(E)
  BY <1>4, <1>5
<1>8. View' = [p \in Paths |->
                       IF p \in E
                       THEN [revision |-> generation + ord[p], content |-> Absent]
                       ELSE View[p]]
  BY <1>4, <1>5
<1>9. BinView' = BinView \union {Abstract!BinEntry(id + ord[p] - 1, p) : p \in E}
  BY <1>4, <1>5
<1>10. Abstract!Remove(E)
  BY <1>5, <1>6, <1>7, <1>8, <1>9 DEF Abstract!Remove, View, BinView, BinItem
<1> QED BY <1>2, <1>10

LEMMA RefinesRename ==
    ASSUME VersionInv, [Next]_vars, NEW name \in Components, DirectoryRename(name)
    PROVE  \E d, tgt \in Paths : Abstract!Move(d, tgt)
<1>1. PICK d, tgt, S : d = snap.dir /\ tgt = Renamed(d, name) /\ S = FilesBelow(d)
  OBVIOUS
<1>2. Inv
  BY DEF VersionInv
<1>3. d \in Paths /\ d \in Seq(Components) /\ d # <<>> /\ S # {} /\ tgt # d
  BY <1>1, <1>2, PathsAssumption DEF Inv, TypeOK, Snapshot, DirectoryRename, CheckedFiles
<1>4. /\ tgt \in Seq(Components) /\ Len(tgt) = Len(d)
      /\ ~Below(d, tgt) /\ ~Below(tgt, d)
  BY <1>1, <1>3, RenamedBeside
<1>5. /\ S \subseteq Live /\ S \subseteq Paths
      /\ \A p \in S : Below(d, p) /\ p \in Seq(Components)
      /\ \A p \in S : Moved(d, tgt, p) \in Paths /\ Moved(d, tgt, p) \notin S
      /\ \A p, q \in S : Moved(d, tgt, p) = Moved(d, tgt, q) => p = q
      /\ NamespaceFree(Live, tgt) /\ tgt \notin Live
  BY <1>1, <1>2, RenameRows DEF Live
<1>6. tgt \in Paths
  <2>1. PICK p \in S : TRUE
    BY <1>3
  <2> DEFINE m == Moved(d, tgt, p)
  <2>2. m \in Paths /\ m \in Seq(Components) /\ Below(tgt, m)
    BY <1>3, <1>4, <1>5, MovedBelow, PathsAssumption
  <2> HIDE DEF m
  <2>3. Len(tgt) \in 1..Len(m) /\ \A i \in 1..Len(tgt) : m[i] = tgt[i]
    BY <1>3, <1>4, <2>2, EmptySeq DEF Below
  <2>4. SubSeq(m, 1, Len(tgt)) = tgt
    <3>1. SubSeq(m, 1, Len(tgt)) = [i \in 1..Len(tgt) |-> m[i]]
      BY <1>4, <2>2, <2>3
    <3> QED BY <1>4, <2>3, <3>1
  <2> QED BY <2>2, <2>3, <2>4, PathsAssumption
<1>7. PICK ord \in Orders(S) :
        /\ \A p \in S : entries'[p] = Tombstone(generation + 2 * ord[p] - 1)
        /\ \A p \in S : entries'[Moved(d, tgt, p)] =
                LiveRow(generation + 2 * ord[p], entries[p].blob, entries[p].sha256)
        /\ \A q \in Paths :
              q \notin S /\ (\A p \in S : q # Moved(d, tgt, p)) => entries'[q] = entries[q]
  BY <1>1, <1>2, DirectoryRenameRows
<1>8. /\ generation' = generation + 2 * Cardinality(S)
      /\ trash' = trash /\ now' = now /\ blobs' = blobs
  BY <1>1, <1>2, DirectoryRenameRows
<1> DEFINE To(q) == CHOOSE p \in S : q = Moved(d, tgt, p)
           after == [q \in Paths |->
                  IF q \in S
                  THEN [revision |-> generation + 2 * ord[q] - 1, content |-> Absent]
                  ELSE IF \E p \in S : q = Moved(d, tgt, p)
                  THEN [revision |-> generation + 2 * ord[To(q)], content |-> View[To(q)].content]
                  ELSE View[q]]
<1>9. View' = after
  <2>1. ASSUME NEW q \in S
        PROVE  View'[q] = [revision |-> generation + 2 * ord[q] - 1, content |-> Absent]
    <3>1. entries'[q].revision = generation + 2 * ord[q] - 1 /\ entries'[q].blob = Null
      BY <1>7, RowFields
    <3> QED BY <1>5, <3>1, ViewAfter DEF Content
  <2>2. ASSUME NEW p \in S
        PROVE  /\ View'[Moved(d, tgt, p)] = [revision |-> generation + 2 * ord[p],
                                             content |-> View[p].content]
               /\ To(Moved(d, tgt, p)) = p
    <3>1. PICK q \in Paths : q = Moved(d, tgt, p)
      BY <1>5
    <3>2. entries'[q] = LiveRow(generation + 2 * ord[p], entries[p].blob, entries[p].sha256)
      BY <1>7, <3>1
    <3> HIDE DEF To
    <3>3. entries'[q].revision = generation + 2 * ord[p] /\ entries'[q].blob = entries[p].blob
      BY <3>2, RowFields
    <3>4. View[p].content = Content(entries[p].blob)
      BY <1>5 DEF View
    <3>5. Content(entries[q].blob)' = Content(entries[p].blob)
      BY <1>8, <3>3 DEF Content
    <3>6. To(q) = p
      BY <1>5, <3>1 DEF To
    <3> QED BY <3>1, <3>3, <3>4, <3>5, <3>6, ViewAfter
  <2>3. ASSUME NEW q \in Paths, q \notin S, \A p \in S : q # Moved(d, tgt, p)
        PROVE  View'[q] = View[q]
    BY <1>2, <1>7, <2>3, ViewKept
  <2>4. ASSUME NEW q \in Paths PROVE View'[q] = after[q]
    <3>1. CASE q \in S
      BY <2>1, <3>1
    <3>2. CASE q \notin S /\ \E p \in S : q = Moved(d, tgt, p)
      <4> HIDE DEF To
      <4> QED BY <2>2, <3>2
    <3>3. CASE q \notin S /\ \A p \in S : q # Moved(d, tgt, p)
      BY <2>3, <3>3
    <3> QED BY <3>1, <3>2, <3>3
  <2>5. View' = [q \in Paths |-> View'[q]]
    BY ViewAfter
  <2> HIDE DEF after
  <2>6. after = [q \in Paths |-> after[q]]
    BY DEF after
  <2> QED BY <2>4, <2>5, <2>6
<1>10. BinView' = BinView
  BY <1>2, <1>8, ViewKept DEF BinView
<1>11. /\ S = {p \in Abstract!Live : Abstract!Below(d, p)}
       /\ Abstract!NamespaceFree(Abstract!Live, tgt) /\ tgt \notin Abstract!Live
  BY <1>1, <1>2, <1>5, AbstractLive, SamePaths DEF FilesBelow
<1> DEFINE E == {p \in Abstract!Live : Abstract!Below(d, p)}
<1>12. /\ E # {} /\ ~Abstract!Below(d, tgt) /\ ~Abstract!Below(tgt, d) /\ tgt # d
       /\ \A p \in E : Abstract!Moved(d, tgt, p) \in Paths
  BY <1>3, <1>4, <1>5, <1>11, SamePaths
<1>13. ord \in Abstract!Orders(E)
  BY <1>11, SameOrders
<1>14. generation' = generation + 2 * Abstract!Cardinality(E)
  BY <1>8, <1>11, SameCardinality
<1>15. View' = [q \in Paths |->
                  IF q \in E
                  THEN [revision |-> generation + 2 * ord[q] - 1, content |-> Absent]
                  ELSE IF \E p \in E : q = Abstract!Moved(d, tgt, p)
                  THEN LET p == CHOOSE p \in E : q = Abstract!Moved(d, tgt, p)
                       IN  [revision |-> generation + 2 * ord[p], content |-> View[p].content]
                  ELSE View[q]]
  BY <1>9, <1>11 DEF Abstract!Moved, Moved
<1>16. Abstract!Move(d, tgt)
  BY <1>8, <1>10, <1>11, <1>12, <1>13, <1>14, <1>15 DEF Abstract!Move, View, BinView, BinItem
<1> QED BY <1>3, <1>6, <1>16

\* Every step is a step of the abstract storage, or shows a reader nothing.
LEMMA RefinesNext ==
    ASSUME VersionInv, [Next]_vars
    PROVE  [Abstract!Next]_(Abstract!vars)
<1>1. Inv
  BY DEF VersionInv
<1>2. CASE UNCHANGED <<generation, entries, trash, snap, now>>
  BY <1>1, <1>2, RefinesQuiet
<1>3. CASE Tick
  BY <1>1, <1>3, RefinesTick DEF Abstract!Next
<1>4. CASE \E t \in Tasks : Published(t)
  <2>1. \E p \in Paths, c \in Contents : Abstract!Publish(p, c)
    BY <1>4, RefinesPublish
  <2> QED BY <2>1 DEF Abstract!Next
<1>5. CASE \E p \in Paths : Properties(p)
  BY <1>1, <1>5, RefinesQuiet DEF Properties, SqlOnly, sqlVars
<1>6. CASE \E p \in Paths : Delete(p)
  <2>1. \E p \in Live : Abstract!Remove({p})
    BY <1>6, RefinesDelete
  <2>2. \E p \in Abstract!Live : Abstract!Remove({p})
    BY <1>1, <2>1, AbstractLive
  <2> QED BY <2>2 DEF Abstract!Next
<1>7. CASE \E i \in trash : Restore(i)
  <2>1. \E item \in BinView : Abstract!Restore(item)
    BY <1>7, RefinesRestore
  <2> QED BY <2>1 DEF Abstract!Next, BinView, BinItem
<1>8. CASE \E i \in trash : Dropped({i})
  <2>1. \E item \in BinView : Abstract!Destroy(item)
    BY <1>8, RefinesDrop
  <2> QED BY <2>1 DEF Abstract!Next, BinView, BinItem
<1>9. CASE Dropped(Expired)
  <2>1. Expired \subseteq trash
    BY DEF Expired
  <2>2. Abstract!Expire
    BY <1>9, <2>1, RefinesDrop
  <2> QED BY <2>2 DEF Abstract!Next
<1>10. CASE DirectoryDelete
  BY <1>10, RefinesDirectoryDelete DEF Abstract!Next
<1>11. CASE \E name \in Components : DirectoryRename(name)
  BY <1>11, RefinesRename DEF Abstract!Next
<1> QED BY <1>2, <1>3, <1>4, <1>5, <1>6, <1>7, <1>8, <1>9, <1>10, <1>11, StepKinds

LEMMA RefinesInit == Init => Abstract!Init
<1> SUFFICES ASSUME Init PROVE Abstract!Init
  OBVIOUS
<1>1. generation = 0 /\ now = 0 /\ trash = {} /\ entries = [p \in Paths |-> NoRow]
  BY DEF Init
<1>2. View = [p \in Paths |-> Abstract!Version0]
  BY <1>1 DEF View, NoRow, Content, Abstract!Version0
<1>3. BinView = {}
  BY <1>1 DEF BinView
<1> QED BY <1>1, <1>2, <1>3 DEF Abstract!Init, View, BinView, BinItem

\* What clients and the administrator see of the storage is the abstract one:
\* a crash, a power loss, recovery, a failed or uncertain commit and the
\* removal of files show nothing, every other operation takes effect at once.
THEOREM Implements == Spec => ImplementsVersionedFiles
<1>1. VersionInv /\ [Next]_vars => [Abstract!Next]_(Abstract!vars)
  BY RefinesNext
<1> QED BY <1>1, RefinesInit, VersionInvHolds, PTL
        DEF Spec, ImplementsVersionedFiles, Abstract!Spec

-----------------------------------------------------------------------------
(* What the storage promises of files and directories *)

FlatNamespace == \A p, q \in Live : ~Below(p, q)

\* A publication and a restore look at the ancestors of the new name and at
\* what lies below it; a directory moves after the check of its new root alone.
LEMMA NamespaceStep ==
    ASSUME VersionInv, FlatNamespace, [Next]_vars
    PROVE  FlatNamespace'
<1>1. Inv /\ \A p \in Paths : p \in Seq(Components)
  BY PathsAssumption DEF VersionInv
<1>2. ASSUME Live' \subseteq Live PROVE FlatNamespace'
  BY <1>2 DEF FlatNamespace
<1>3. ASSUME entries' = entries PROVE FlatNamespace'
  BY <1>2, <1>3 DEF Live
<1>4. ASSUME NEW p \in Paths, NamespaceFree(Live, p),
             \A q \in Paths : q # p => entries'[q] = entries[q]
      PROVE  FlatNamespace'
  <2>1. \A q \in Live' : q \in Live \/ q = p
    BY <1>4 DEF Live
  <2>2. ~Below(p, p)
    BY <1>1 DEF Below
  <2> QED BY <1>4, <2>1, <2>2 DEF FlatNamespace, NamespaceFree
<1>5. ASSUME NEW t \in Tasks, Published(t) PROVE FlatNamespace'
  <2>1. PICK p \in Paths : p = req[t].path
    BY <1>1, <1>5, PublishedRows DEF VersionInv
  <2>2. NamespaceFree(Live, p)
    BY <1>5, <2>1 DEF VersionInv, CheckedStateCurrent, MayCommit, Published, InTransaction
  <2>3. \A q \in Paths : q # p => entries'[q] = entries[q]
    BY <1>1, <1>5, <2>1 DEF Published, PublishRow, Inv, TypeOK
  <2> QED BY <1>4, <2>2, <2>3
<1>6. ASSUME NEW p \in Paths, Delete(p) PROVE FlatNamespace'
  BY <1>1, <1>2, <1>6 DEF Delete, Live, Tombstone, Inv, TypeOK
<1>7. ASSUME NEW i \in trash, Restore(i) PROVE FlatNamespace'
  <2>1. PICK p \in Paths : p = i.path
    BY <1>1, LiveRowTypes
  <2>2. NamespaceFree(Live, p) /\ \A q \in Paths : q # p => entries'[q] = entries[q]
    BY <1>1, <1>7, <2>1 DEF Restore, Inv, TypeOK
  <2> QED BY <1>4, <2>2
<1>8. ASSUME DirectoryDelete PROVE FlatNamespace'
  <2>1. PICK S : S = FilesBelow(snap.dir)
    OBVIOUS
  <2>2. /\ \A p \in S : entries'[p].deleted = 1
        /\ \A p \in Paths : p \notin S => entries'[p] = entries[p]
    BY <1>1, <1>8, <2>1, DirectoryDeleteRows, RowFields
  <2> QED BY <1>2, <2>2 DEF Live
<1>9. ASSUME NEW name \in Components, DirectoryRename(name) PROVE FlatNamespace'
  <2>1. PICK d, tgt, S : d = snap.dir /\ tgt = Renamed(d, name) /\ S = FilesBelow(d)
    OBVIOUS
  <2> DEFINE M(p) == Moved(d, tgt, p)
  <2>2. /\ d \in Seq(Components) /\ tgt \in Seq(Components) /\ S \subseteq Live
        /\ \A p \in S : Below(d, p) /\ p \in Seq(Components)
        /\ \A p \in S : M(p) \in Paths
        /\ NamespaceFree(Live, tgt) /\ tgt \notin Live
    BY <1>1, <1>9, <2>1, RenameRows
  <2>3. /\ \A p \in S : entries'[p].deleted = 1
        /\ \A q \in Paths : q \notin S /\ (\A p \in S : q # M(p)) => entries'[q] = entries[q]
    BY <1>1, <1>9, <2>1, DirectoryRenameRows, RowFields
  <2>4. \A p \in S : Below(tgt, M(p))
    BY <2>2, MovedBelow
  <2>5. \A p, q \in S : Below(M(p), M(q)) => Below(p, q)
    BY <2>2, MovedReflectsBelow
  <2> HIDE DEF M
  <2>6. \A q \in Live' : q \in Live \/ \E p \in S : q = M(p)
    BY <2>3 DEF Live
  <2>7. Live \subseteq Paths
    BY DEF Live
  <2>8. ASSUME NEW q \in Live, NEW p \in S PROVE ~Below(q, M(p)) /\ ~Below(M(p), q)
    <3>1. ~Below(q, tgt) /\ ~Below(tgt, q) /\ q # tgt
      BY <2>2, <2>8 DEF NamespaceFree
    <3>2. q \in Seq(Components) /\ M(p) \in Seq(Components) /\ Below(tgt, M(p))
      BY <1>1, <2>2, <2>4, <2>7
    <3>3. ~Below(q, M(p))
      BY <2>2, <3>1, <3>2, AncestorsComparable
    <3>4. ~Below(M(p), q)
      BY <2>2, <3>1, <3>2, BelowTransitive
    <3> QED BY <3>3, <3>4
  <2> QED BY <2>2, <2>5, <2>6, <2>8 DEF FlatNamespace
<1>10. ASSUME NEW S, Dropped(S) PROVE FlatNamespace'
  BY <1>3, <1>10 DEF Dropped
<1>11. ASSUME Tick \/ \E d \in Paths : Properties(d) PROVE FlatNamespace'
  BY <1>3, <1>11 DEF Tick, Properties, sqlVars
<1> QED BY <1>3, <1>5, <1>6, <1>7, <1>8, <1>9, <1>10, <1>11, StepKinds

\* No sequence of publications, restores and directory renames, whatever the
\* interleaving and the crashes, makes a file the directory of another.
THEOREM NamespaceFlat == Spec => []NamespaceSound
<1>1. Init => FlatNamespace
  BY DEF Init, NoRow, Live, FlatNamespace
<1>2. VersionInv /\ FlatNamespace /\ [Next]_vars => FlatNamespace'
  BY NamespaceStep
<1>3. VersionInv /\ FlatNamespace => NamespaceSound
  BY AbstractLive, SamePaths DEF VersionInv, FlatNamespace, NamespaceSound, Abstract!NamespaceSound
<1> QED BY <1>1, <1>2, <1>3, VersionInvHolds, PTL DEF Spec

\* What a live file holds after the step is still there for a reader.
Kept(p) ==
    \/ View'[p].content = View[p].content
    \/ BinView' = BinView /\ View'[p].content # Absent
    \/ \E i \in BinView' \ BinView : i.path = p /\ i.content = View[p].content
    \/ \E q \in Paths \ Live : View'[q].content = View[p].content

\* What leaves a name by a delete enters the bin, under an identifier that no
\* row of it has.
LEMMA KeptRemove ==
    ASSUME Inv, NEW S \in SUBSET Live, Abstract!Remove(S), NEW p \in Live
    PROVE  Kept(p)
<1>1. PICK ord \in Abstract!Orders(S), id \in Abstract!NextIds :
        /\ View' = [q \in Paths |->
                       IF q \in S
                       THEN [revision |-> generation + ord[q], content |-> Absent]
                       ELSE View[q]]
        /\ BinView' = BinView \union {Abstract!BinEntry(id + ord[q] - 1, q) : q \in S}
  BY DEF Abstract!Remove, View, BinView, BinItem
<1>2. p \in Paths /\ S \subseteq Paths
  BY DEF Live
<1>3. CASE p \in S
  <2>1. ord[p] \in Nat /\ ord[p] >= 1
    <3>1. ord \in Orders(S)
      BY <1>1, SameOrders
    <3>2. ord[p] \in 1..Cardinality(S)
      BY <1>2, <1>3, <3>1, OrdersRange
    <3> QED BY <3>2
  <2>2. id \in Nat /\ \A i \in BinView : i.id \in Nat /\ i.id < id
    <3>1. id \in Nat /\ id \in NextIds
      BY <1>1, AbstractNextIds, LiveRowTypes
    <3>2. \A i \in trash : i.id \in Nat /\ i.id < id
      BY <3>1 DEF NextIds, Inv, TypeOK, TrashRow
    <3> QED BY <3>1, <3>2 DEF BinView, BinItem
  <2> DEFINE e == Abstract!BinEntry(id + ord[p] - 1, p)
  <2>3. e.id = id + ord[p] - 1 /\ e.path = p /\ e.content = View[p].content
    BY DEF Abstract!BinEntry, View
  <2>4. e \in BinView'
    BY <1>1, <1>3
  <2> HIDE DEF e
  <2>5. e \notin BinView
    BY <2>1, <2>2, <2>3
  <2> QED BY <2>3, <2>4, <2>5 DEF Kept
<1>4. CASE p \notin S
  BY <1>1, <1>2, <1>4 DEF Kept
<1> QED BY <1>3, <1>4

\* A directory moves onto free names, each file onto one of its own.
LEMMA KeptMove ==
    ASSUME Inv, NEW d \in Paths, NEW tgt \in Paths, Abstract!Move(d, tgt), NEW p \in Live
    PROVE  Kept(p)
<1>1. PICK S : S = {q \in Abstract!Live : Abstract!Below(d, q)}
  OBVIOUS
<1> DEFINE M(q) == Moved(d, tgt, q)
<1>2. /\ NamespaceFree(Live, tgt) /\ S = {q \in Live : Below(d, q)}
      /\ \A q \in S : M(q) \in Paths
  BY <1>1, AbstractLive, SamePaths DEF Abstract!Move
<1>3. PICK ord :
        View' = [q \in Paths |->
                  IF q \in S
                  THEN [revision |-> generation + 2 * ord[q] - 1, content |-> Absent]
                  ELSE IF \E r \in S : q = Abstract!Moved(d, tgt, r)
                  THEN LET r == CHOOSE r \in S : q = Abstract!Moved(d, tgt, r)
                       IN  [revision |-> generation + 2 * ord[r], content |-> View[r].content]
                  ELSE View[q]]
  <2> DEFINE E == {q \in Abstract!Live : Abstract!Below(d, q)}
  <2>1. PICK ord :
          View' = [q \in Paths |->
                  IF q \in E
                  THEN [revision |-> generation + 2 * ord[q] - 1, content |-> Absent]
                  ELSE IF \E r \in E : q = Abstract!Moved(d, tgt, r)
                  THEN LET r == CHOOSE r \in E : q = Abstract!Moved(d, tgt, r)
                       IN  [revision |-> generation + 2 * ord[r], content |-> View[r].content]
                  ELSE View[q]]
    BY DEF Abstract!Move, View, BinView, BinItem
  <2>2. S = E
    BY <1>1
  <2> HIDE DEF E
  <2> QED BY <2>1, <2>2
<1>4. /\ d \in Seq(Components) /\ tgt \in Seq(Components) /\ p \in Paths
      /\ \A q \in S : q \in Seq(Components) /\ Below(d, q)
  BY <1>2, PathsAssumption DEF Live
<1>5. \A q \in S : M(q) \notin Live
  BY <1>2, <1>4, MovedBelow DEF NamespaceFree
<1>6. \A q, r \in S : M(q) = M(r) => q = r
  BY <1>4, MovedInjective
<1>7. \A q : M(q) = Abstract!Moved(d, tgt, q)
  BY SamePaths
<1> HIDE DEF M
<1>8. CASE p \in S
  <2>1. (CHOOSE r \in S : M(p) = Abstract!Moved(d, tgt, r)) = p
    BY <1>6, <1>7, <1>8
  <2>2. M(p) \in Paths \ Live /\ M(p) \notin S
    BY <1>2, <1>5, <1>8
  <2>3. View'[M(p)].content = View[p].content
    BY <1>3, <1>7, <1>8, <2>1, <2>2
  <2> QED BY <2>2, <2>3 DEF Kept
<1>9. CASE p \notin S
  <2>1. \A r \in S : p # Abstract!Moved(d, tgt, r)
    BY <1>5, <1>7
  <2>2. View'[p] = View[p]
    BY <1>3, <1>4, <1>9, <2>1
  <2> QED BY <2>2 DEF Kept
<1> QED BY <1>8, <1>9

LEMMA KeptStep ==
    ASSUME VersionInv, [Next]_vars, NEW p \in Live
    PROVE  Kept(p)
<1>1. Inv /\ p \in Paths
  BY DEF VersionInv, Live
<1>2. ASSUME View' = View PROVE Kept(p)
  BY <1>2 DEF Kept
<1>3. ASSUME entries' = entries PROVE Kept(p)
  BY <1>1, <1>3, ViewKept DEF Kept
<1>4. CASE \/ UNCHANGED <<generation, entries, trash, snap, now>>
           \/ Tick \/ Dropped(Expired) \/ \E i \in trash : Dropped({i})
           \/ \E q \in Paths : Properties(q)
  BY <1>3, <1>4 DEF Tick, Dropped, Properties, sqlVars
<1>5. CASE \E t \in Tasks : Published(t)
  <2>1. PICK q \in Paths, c \in Contents : Abstract!Publish(q, c)
    BY <1>5, RefinesPublish
  <2>2. /\ View' = [View EXCEPT ![q] = [revision |-> generation + 1, content |-> c]]
        /\ BinView' = BinView
    BY <2>1 DEF Abstract!Publish, View, BinView, BinItem
  <2>3. DOMAIN View = Paths
    BY DEF View
  <2> QED BY <1>1, <2>2, <2>3, ConstantsAssumption DEF Kept
<1>6. CASE \E q \in Paths : Delete(q)
  <2>1. PICK q \in Live : Abstract!Remove({q})
    BY <1>6, RefinesDelete
  <2>2. PICK S \in SUBSET Live : S = {q}
    OBVIOUS
  <2>3. Abstract!Remove(S)
    BY <2>1, <2>2
  <2> QED BY <1>1, <2>3, KeptRemove
<1>7. CASE \E i \in trash : Restore(i)
  <2>1. PICK i \in trash, q \in Paths :
          /\ q = i.path /\ q \notin Live
          /\ entries' = [entries EXCEPT ![q] = LiveRow(generation + 1, i.blob, i.sha256)]
    BY <1>1, <1>7, LiveRowTypes DEF Restore
  <2>2. entries'[p] = entries[p]
    BY <1>1, <2>1 DEF Inv, TypeOK
  <2> QED BY <1>1, <2>2, ViewKept DEF Kept
<1>8. CASE DirectoryDelete
  BY <1>1, <1>8, DirectoryDeleteRemoves, KeptRemove
<1>9. CASE \E name \in Components : DirectoryRename(name)
  BY <1>1, <1>9, RefinesRename, KeptMove
<1> QED BY <1>4, <1>5, <1>6, <1>7, <1>8, <1>9, StepKinds

\* No step of the server, the administrator, recovery or a crash makes the
\* content of a live file vanish: it is replaced by a client, or goes to the
\* bin, or moves with its directory to a name that was free.
THEOREM ContentsNeverLost == Spec => NothingLost
<1>1. VersionInv /\ [Next]_vars =>
        [\A p \in Abstract!Live :
           \/ View'[p].content = View[p].content
           \/ BinView' = BinView /\ View'[p].content # Absent
           \/ \E i \in BinView' \ BinView : i.path = p /\ i.content = View[p].content
           \/ \E q \in Paths \ Abstract!Live : View'[q].content = View[p].content]_(Abstract!vars)
  BY KeptStep, AbstractLive DEF Kept, VersionInv
<1> QED BY <1>1, VersionInvHolds, PTL
        DEF Spec, NothingLost, Abstract!NothingLost, View, BinView, BinItem
=============================================================================
