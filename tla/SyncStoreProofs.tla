--------------------------- MODULE SyncStoreProofs ---------------------------
(***************************************************************************)
(* Proofs about SyncStore, for every set of paths, contents, names and     *)
(* tasks and every bound: Inv is inductive, so the blobs that rows name    *)
(* survive crashes and belong to one row each.                             *)
(***************************************************************************)
EXTENDS SyncStore, SequenceTheorems, FiniteSetTheorems, TLAPS

-----------------------------------------------------------------------------
(* Directories, as sequences of components: what makes the renaming of a    *)
(* directory safe although only its root is checked.                        *)

\* The check_path_namespace test and the range queries see a whole subtree.
LEMMA BelowTransitive ==
    ASSUME NEW a \in Seq(Components), NEW b \in Seq(Components),
           NEW c \in Seq(Components), Below(a, b), Below(b, c)
    PROVE  Below(a, c)
BY DEF Below

\* Two ancestors of one path are comparable.
LEMMA AncestorsComparable ==
    ASSUME NEW a \in Seq(Components), NEW b \in Seq(Components),
           NEW c \in Seq(Components), Below(a, c), Below(b, c)
    PROVE  a = b \/ Below(a, b) \/ Below(b, a)
<1>1. CASE Len(a) < Len(b)
  BY <1>1 DEF Below
<1>2. CASE Len(b) < Len(a)
  BY <1>2 DEF Below
<1>3. CASE Len(a) = Len(b)
  <2>1. \A i \in 1..Len(a) : a[i] = b[i]
    BY <1>3 DEF Below
  <2> QED BY <2>1, <1>3, SeqEqual
<1> QED BY <1>1, <1>2, <1>3

\* The components of a moved path: the new root, then what was below the old.
LEMMA MovedComponents ==
    ASSUME NEW d \in Seq(Components), NEW t \in Seq(Components),
           NEW p \in Seq(Components), Below(d, p)
    PROVE  /\ Moved(d, t, p) \in Seq(Components)
           /\ Len(Moved(d, t, p)) = Len(t) + (Len(p) - Len(d))
           /\ \A i \in 1..(Len(t) + (Len(p) - Len(d))) :
                 Moved(d, t, p)[i] = IF i <= Len(t) THEN t[i]
                                     ELSE p[Len(d) + (i - Len(t))]
<1> DEFINE s == SubSeq(p, Len(d) + 1, Len(p))
<1>1. Len(d) \in Nat /\ Len(p) \in Nat /\ Len(t) \in Nat /\ Len(d) < Len(p)
  BY DEF Below
<1>2. \A i \in (Len(d) + 1)..Len(p) : p[i] \in Components
  BY <1>1, ElementOfSeq
<1>3. /\ s \in Seq(Components)
      /\ Len(s) = Len(p) - Len(d)
      /\ \A j \in 1..(Len(p) - Len(d)) : s[j] = p[Len(d) + j]
  BY <1>1
<1> HIDE DEF s
<1>4. /\ t \o s \in Seq(Components)
      /\ Len(t \o s) = Len(t) + Len(s)
      /\ \A i \in 1 .. Len(t) + Len(s) : (t \o s)[i] =
                     IF i <= Len(t) THEN t[i] ELSE s[i - Len(t)]
  BY <1>3, ConcatProperties, Zenon
<1>5. Moved(d, t, p) = t \o s
  BY DEF Moved, s
<1>6. ASSUME NEW i \in 1..(Len(t) + (Len(p) - Len(d)))
      PROVE  (t \o s)[i] = IF i <= Len(t) THEN t[i] ELSE p[Len(d) + (i - Len(t))]
  <2>1. i \in 1..(Len(t) + Len(s)) /\ (i > Len(t) => i - Len(t) \in 1..(Len(p) - Len(d)))
    BY <1>1, <1>3
  <2>2. (t \o s)[i] = IF i <= Len(t) THEN t[i] ELSE s[i - Len(t)]
    BY <1>4, <2>1
  <2>3. i > Len(t) => s[i - Len(t)] = p[Len(d) + (i - Len(t))]
    BY <1>3, <2>1
  <2> QED BY <1>1, <2>2, <2>3
<1>7. Len(t \o s) = Len(t) + (Len(p) - Len(d))
  BY <1>3, <1>4
<1> QED BY <1>4, <1>5, <1>6, <1>7, Zenon

\* Every moved file lies below the new root.
LEMMA MovedBelow ==
    ASSUME NEW d \in Seq(Components), NEW t \in Seq(Components),
           NEW p \in Seq(Components), Below(d, p)
    PROVE  Below(t, Moved(d, t, p))
<1> DEFINE m == Moved(d, t, p)
<1>1. /\ m \in Seq(Components)
      /\ Len(m) = Len(t) + (Len(p) - Len(d))
      /\ \A i \in 1..(Len(t) + (Len(p) - Len(d))) :
            m[i] = IF i <= Len(t) THEN t[i] ELSE p[Len(d) + (i - Len(t))]
  BY MovedComponents
<1> HIDE DEF m
<1>2. Len(d) < Len(p)
  BY DEF Below
<1>3. Below(t, m)
  BY <1>1, <1>2 DEF Below
<1> QED BY <1>3 DEF m

\* Renaming does not put a file below another.
LEMMA MovedReflectsBelow ==
    ASSUME NEW d \in Seq(Components), NEW t \in Seq(Components),
           NEW p \in Seq(Components), NEW q \in Seq(Components),
           Below(d, p), Below(d, q), Below(Moved(d, t, p), Moved(d, t, q))
    PROVE  Below(p, q)
<1> DEFINE m == Moved(d, t, p)
           n == Moved(d, t, q)
<1>1. /\ Len(m) = Len(t) + (Len(p) - Len(d))
      /\ \A i \in 1..(Len(t) + (Len(p) - Len(d))) :
            m[i] = IF i <= Len(t) THEN t[i] ELSE p[Len(d) + (i - Len(t))]
      /\ Len(n) = Len(t) + (Len(q) - Len(d))
      /\ \A i \in 1..(Len(t) + (Len(q) - Len(d))) :
            n[i] = IF i <= Len(t) THEN t[i] ELSE q[Len(d) + (i - Len(t))]
      /\ Below(m, n)
  BY MovedComponents
<1> HIDE DEF m, n
<1>2. Len(p) < Len(q) /\ Len(d) < Len(p) /\ Len(d) < Len(q)
  BY <1>1 DEF Below
<1>3. ASSUME NEW i \in 1..Len(p) PROVE q[i] = p[i]
  <2>1. CASE i <= Len(d)
    BY <2>1 DEF Below
  <2>2. CASE i > Len(d)
    <3> DEFINE k == Len(t) + (i - Len(d))
    <3>1. /\ k \in 1..(Len(t) + (Len(p) - Len(d)))
          /\ k \in 1..(Len(t) + (Len(q) - Len(d)))
          /\ ~(k <= Len(t)) /\ Len(d) + (k - Len(t)) = i
      BY <1>2, <2>2
    <3>2. n[k] = m[k]
      BY <1>1, <3>1 DEF Below
    <3> HIDE DEF k
    <3> QED BY <1>1, <3>1, <3>2
  <2> QED BY <2>1, <2>2
<1> QED BY <1>2, <1>3 DEF Below

\* Two files of a directory never move onto one path.
LEMMA MovedInjective ==
    ASSUME NEW d \in Seq(Components), NEW t \in Seq(Components),
           NEW p \in Seq(Components), NEW q \in Seq(Components),
           Below(d, p), Below(d, q), Moved(d, t, p) = Moved(d, t, q)
    PROVE  p = q
<1> DEFINE m == Moved(d, t, p)
<1>1. /\ Len(m) = Len(t) + (Len(p) - Len(d))
      /\ \A i \in 1..(Len(t) + (Len(p) - Len(d))) :
            m[i] = IF i <= Len(t) THEN t[i] ELSE p[Len(d) + (i - Len(t))]
  BY MovedComponents
<1>q. /\ Len(m) = Len(t) + (Len(q) - Len(d))
      /\ \A i \in 1..(Len(t) + (Len(q) - Len(d))) :
            m[i] = IF i <= Len(t) THEN t[i] ELSE q[Len(d) + (i - Len(t))]
  <2> DEFINE n == Moved(d, t, q)
  <2>1. /\ Len(n) = Len(t) + (Len(q) - Len(d))
        /\ \A i \in 1..(Len(t) + (Len(q) - Len(d))) :
              n[i] = IF i <= Len(t) THEN t[i] ELSE q[Len(d) + (i - Len(t))]
    BY MovedComponents
  <2>2. m = n
    OBVIOUS
  <2> HIDE DEF m, n
  <2> QED BY <2>1, <2>2
<1> HIDE DEF m
<1>2. Len(p) = Len(q) /\ Len(d) < Len(p)
  BY <1>1, <1>q DEF Below
<1>3. ASSUME NEW i \in 1..Len(p) PROVE p[i] = q[i]
  <2>1. CASE i <= Len(d)
    BY <2>1 DEF Below
  <2>2. CASE i > Len(d)
    <3> DEFINE k == Len(t) + (i - Len(d))
    <3>1. /\ k \in 1..(Len(t) + (Len(p) - Len(d)))
          /\ ~(k <= Len(t)) /\ Len(d) + (k - Len(t)) = i
      BY <1>2, <2>2
    <3> HIDE DEF k
    <3> QED BY <1>1, <1>q, <1>2, <3>1
  <2> QED BY <2>1, <2>2
<1> QED BY <1>2, <1>3, SeqEqual

\* The new name of a directory lies beside the old one.
LEMMA RenamedBeside ==
    ASSUME NEW d \in Seq(Components), d # <<>>, NEW name \in Components
    PROVE  /\ Renamed(d, name) \in Seq(Components)
           /\ Len(Renamed(d, name)) = Len(d)
           /\ ~Below(d, Renamed(d, name)) /\ ~Below(Renamed(d, name), d)
<1>1. Len(d) \in 1..Len(d)
  BY EmptySeq
<1>2. Renamed(d, name) \in Seq(Components) /\ Len(Renamed(d, name)) = Len(d)
  BY <1>1, ExceptSeq DEF Renamed
<1> QED BY <1>2 DEF Below

\* Nothing below a directory lies below the one beside it.
LEMMA BesideDisjoint ==
    ASSUME NEW d \in Seq(Components), NEW t \in Seq(Components),
           NEW p \in Seq(Components), Len(d) = Len(t), d # t, Below(d, p)
    PROVE  ~Below(t, p)
<1>1. SUFFICES ASSUME Below(t, p) PROVE d = t
  OBVIOUS
<1>2. \A i \in 1..Len(d) : d[i] = t[i]
  BY <1>1 DEF Below
<1> QED BY <1>2, SeqEqual

-----------------------------------------------------------------------------
(* Requests *)

LEMMA IdleRequest ==
    /\ Idle \in Request
    /\ Idle.pc = "idle" /\ Idle.temp = Null /\ Idle.unlink = {}
BY DEF Idle, Request, Steps

LEMMA UnlinkingRequest ==
    ASSUME NEW S \in SUBSET Names
    PROVE  /\ Unlinking(S) \in Request
           /\ Unlinking(S).pc \in {"idle", "unlink"}
           /\ S # {} => Unlinking(S).pc = "unlink"
           /\ Unlinking(S).temp = Null
           /\ Unlinking(S).unlink = S
<1>1. CASE S = {}
  BY <1>1, IdleRequest DEF Unlinking
<1>2. CASE S # {}
  BY <1>2 DEF Unlinking, Idle, Request, Steps
<1> QED BY <1>1, <1>2

\* A step that changes the request of one actor.
LEMMA OneRequest ==
    ASSUME TypeOK, NEW t \in Actors, NEW r \in Request, req' = [req EXCEPT ![t] = r]
    PROVE  /\ req' \in [Actors -> Request]
           /\ req'[t] = r
           /\ \A u \in Actors : u # t => req'[u] = req[u]
BY DEF TypeOK

-----------------------------------------------------------------------------
(* Steps of an upload before its transaction *)

LEMMA InvUploadBody ==
    ASSUME Inv, NEW t \in Tasks, NEW p \in Paths, NEW c \in Contents,
           NEW base \in 0..generation, UploadBody(t, p, base, c)
    PROVE  Inv'
<1> USE ConstantsAssumption
<1>1. PICK n \in FreshTemps :
        /\ tmp' = [tmp EXCEPT ![n] = c]
        /\ tmpDisk' = [tmpDisk EXCEPT ![n] = {Absent, Torn, c}]
        /\ req' = [req EXCEPT ![t] = [pc |-> "writing", path |-> p, base |-> base,
                       content |-> c, temp |-> n, blob |-> Null, unlink |-> {}]]
  BY DEF UploadBody
<1> DEFINE r == [pc |-> "writing", path |-> p, base |-> base, content |-> c,
                 temp |-> n, blob |-> Null, unlink |-> {}]
<1>2. /\ phase = "serving" /\ req[t] = Idle
      /\ UNCHANGED <<sqlVars, blobs, blobsDisk, db, phase, sweep, snap, now, crashes>>
  BY DEF UploadBody
<1>3. n \in Temps /\ \A u \in Tasks : req[u].temp # n
  BY DEF FreshTemps
<1>4. /\ r \in Request /\ r.pc = "writing" /\ r.path = p /\ r.content = c
      /\ r.temp = n /\ r.unlink = {}
  <2>1. base \in Nat
    BY DEF Inv, TypeOK
  <2> QED BY <1>3, <2>1 DEF Request, Steps
<1> HIDE DEF r
<1>5. /\ req' \in [Actors -> Request]
      /\ req'[t] = r
      /\ \A u \in Actors : u # t => req'[u] = req[u]
  <2>1. req' = [req EXCEPT ![t] = r]
    BY <1>1 DEF r
  <2> QED BY <1>4, <2>1, OneRequest DEF Inv, Actors
<1>6. TypeOK'
  BY <1>1, <1>2, <1>3, <1>5 DEF Inv, TypeOK, FileStates, sqlVars
<1>7. /\ RowShape' /\ ReferencedBlobsIntact' /\ BlobsOwnedOnce'
  BY <1>2 DEF Inv, sqlVars, RowShape, ReferencedBlobsIntact, BlobsOwnedOnce, Intact, Live
<1>8. PendingUnlinksUnreferenced'
  BY <1>2, <1>4, <1>5 DEF Inv, sqlVars, PendingUnlinksUnreferenced, Unreferenced, Live
<1>9. MutexHeld' /\ UnlinkShape' /\ StartupQuiet'
  BY <1>2, <1>4, <1>5, IdleRequest
     DEF Inv, MutexHeld, UnlinkShape, StartupQuiet, InTransaction, Actors
<1>10. TempsOwned'
  BY <1>1, <1>2, <1>3, <1>4, <1>5 DEF Inv, TypeOK, TempsOwned, Actors
<1>11. StagedBlobOwned'
  BY <1>2, <1>4, <1>5
     DEF Inv, sqlVars, StagedBlobOwned, InTransaction, Unreferenced, Live, Actors
<1>12. SweepExact' /\ RecoveryLeavesNoOrphans'
  BY <1>2 DEF Inv, SweepExact, RecoveryLeavesNoOrphans
<1> QED BY <1>6, <1>7, <1>8, <1>9, <1>10, <1>11, <1>12 DEF Inv

LEMMA InvSyncFile ==
    ASSUME Inv, NEW t \in Tasks, SyncFile(t)
    PROVE  Inv'
<1> USE ConstantsAssumption
<1>1. /\ req[t].pc = "writing"
      /\ tmpDisk' = [tmpDisk EXCEPT ![req[t].temp] = {Absent, req[t].content}]
      /\ req' = [req EXCEPT ![t].pc = "received"]
      /\ UNCHANGED <<sqlVars, blobs, blobsDisk, tmp, db, phase, sweep, snap, now, crashes>>
  BY DEF SyncFile
<1>2. req[t] \in Request /\ req[t].temp \in Temps /\ req[t].content \in Contents
  BY <1>1 DEF Inv, TypeOK, TempsOwned, Actors
<1>3. /\ req' \in [Actors -> Request]
      /\ \A u \in Actors : u # t => req'[u] = req[u]
      /\ req'[t] = [req[t] EXCEPT !.pc = "received"]
  BY <1>1, <1>2 DEF Inv, TypeOK, Actors, Request, Steps
<1>4. /\ req'[t].pc = "received" /\ req'[t].path = req[t].path
      /\ req'[t].content = req[t].content /\ req'[t].temp = req[t].temp
      /\ req'[t].unlink = req[t].unlink
  BY <1>2, <1>3 DEF Request
<1>5. TypeOK'
  BY <1>1, <1>2, <1>3 DEF Inv, TypeOK, FileStates, sqlVars
<1>6. /\ RowShape' /\ ReferencedBlobsIntact' /\ BlobsOwnedOnce'
  BY <1>1 DEF Inv, sqlVars, RowShape, ReferencedBlobsIntact, BlobsOwnedOnce, Intact, Live
<1>7. PendingUnlinksUnreferenced'
  BY <1>1, <1>3, <1>4 DEF Inv, sqlVars, PendingUnlinksUnreferenced, Unreferenced, Live
<1>8. MutexHeld' /\ UnlinkShape' /\ StartupQuiet'
  BY <1>1, <1>3, <1>4 DEF Inv, MutexHeld, UnlinkShape, StartupQuiet, InTransaction, Actors
<1>9. TempsOwned'
  BY <1>1, <1>2, <1>3, <1>4 DEF Inv, TypeOK, TempsOwned, Actors
<1>10. StagedBlobOwned'
  BY <1>1, <1>3, <1>4
     DEF Inv, sqlVars, StagedBlobOwned, InTransaction, Unreferenced, Live, Actors
<1>11. SweepExact' /\ RecoveryLeavesNoOrphans'
  BY <1>1 DEF Inv, SweepExact, RecoveryLeavesNoOrphans, StartupQuiet
<1> QED BY <1>5, <1>6, <1>7, <1>8, <1>9, <1>10, <1>11 DEF Inv

\* What every end of an upload without publication does: the request is
\* forgotten, its temporary file removed or left, and the mutex released.
Abandon(t) ==
    /\ req[t].pc \in {"writing", "received"} \union InTransaction
    /\ req' = [req EXCEPT ![t] = Idle]
    /\ db' = IF req[t].pc \in InTransaction THEN Free ELSE db
    /\ \/ UNCHANGED <<tmp, tmpDisk>>
       \/ /\ tmp' = Unlinked(tmp, req[t].temp)
          /\ tmpDisk' = UnlinkedDisk(tmpDisk, req[t].temp)
    /\ UNCHANGED <<sqlVars, blobs, blobsDisk, phase, sweep, snap, now, crashes>>

LEMMA AbandonCases ==
    ASSUME Inv, NEW t \in Tasks,
           \/ BodyFailed(t) \/ UploadCancelled(t) \/ CommitConflict(t) \/ CommitFailed(t)
           \/ TxCommitError(t) /\ UNCHANGED sqlVars
    PROVE  Abandon(t)
<1>1. ASSUME req[t].pc \in {"writing", "received"}
      PROVE  req[t].pc \notin InTransaction
  BY <1>1 DEF InTransaction
<1>2. BodyFailed(t) => Abandon(t)
  BY <1>1 DEF BodyFailed, Abandon
<1>3. UploadCancelled(t) => Abandon(t)
  BY <1>1 DEF UploadCancelled, Abandon, fsVars
<1>4. CommitConflict(t) => Abandon(t)
  BY <1>1 DEF CommitConflict, Abandon
<1>5. CommitFailed(t) => Abandon(t)
  BY <1>1 DEF CommitFailed, Abandon, InTransaction
<1>6. TxCommitError(t) /\ UNCHANGED sqlVars => Abandon(t)
  BY DEF TxCommitError, Abandon, InTransaction, fsVars
<1> QED BY <1>2, <1>3, <1>4, <1>5, <1>6

LEMMA InvAbandon ==
    ASSUME Inv, NEW t \in Tasks, Abandon(t)
    PROVE  Inv'
<1> USE ConstantsAssumption
<1>1. /\ req' \in [Actors -> Request]
      /\ req'[t] = Idle
      /\ \A u \in Actors : u # t => req'[u] = req[u]
  BY OneRequest, IdleRequest DEF Inv, Abandon, Actors
<1>2. UNCHANGED <<generation, entries, trash, blobs, blobsDisk, phase, sweep, snap, now, crashes>>
  BY DEF Abandon, sqlVars
<1>3. phase = "serving"
  BY DEF Inv, StartupQuiet, Abandon, InTransaction
<1>4. TypeOK'
  <2>1. tmp' \in [Temps -> FileStates] /\ tmpDisk' \in [Temps -> SUBSET FileStates]
    BY DEF Inv, TypeOK, Abandon, Unlinked, UnlinkedDisk, FileStates
  <2>2. db' \in Holders
    BY DEF Inv, TypeOK, Abandon, Holders
  <2> QED BY <1>1, <1>2, <2>1, <2>2 DEF Inv, TypeOK
<1>5. /\ RowShape' /\ ReferencedBlobsIntact' /\ BlobsOwnedOnce'
  BY <1>2 DEF Inv, RowShape, ReferencedBlobsIntact, BlobsOwnedOnce, Intact, Live
<1>6. PendingUnlinksUnreferenced'
  BY <1>1, <1>2, IdleRequest
     DEF Inv, PendingUnlinksUnreferenced, Unreferenced, Live
<1>7. MutexHeld'
  BY <1>1, IdleRequest DEF Inv, MutexHeld, Abandon, InTransaction, Actors
<1>8. UnlinkShape'
  BY <1>1, IdleRequest DEF Inv, UnlinkShape, Actors
<1>9. StartupQuiet'
  BY <1>1, <1>2, <1>3 DEF Inv, StartupQuiet, Abandon
<1>10. TempsOwned'
  <2>1. ASSUME NEW u \in Tasks, u # t, req[u].pc \in {"writing", "received"}
        PROVE  req[u].temp \in Temps /\ req[u].temp # req[t].temp
    BY <2>1 DEF Inv, TempsOwned
  <2>2. ASSUME NEW n \in Temps, n # req[t].temp
        PROVE  tmp'[n] = tmp[n] /\ tmpDisk'[n] = tmpDisk[n]
    BY <2>2 DEF Inv, TypeOK, Abandon, Unlinked, UnlinkedDisk
  <2> QED BY <1>1, <2>1, <2>2, IdleRequest DEF Inv, TempsOwned, Actors
<1>11. StagedBlobOwned'
  BY <1>1, <1>2, IdleRequest
     DEF Inv, StagedBlobOwned, InTransaction, Unreferenced, Live, Actors
<1>12. SweepExact' /\ RecoveryLeavesNoOrphans'
  BY <1>2, <1>3 DEF Inv, SweepExact, RecoveryLeavesNoOrphans
<1> QED BY <1>4, <1>5, <1>6, <1>7, <1>8, <1>9, <1>10, <1>11, <1>12 DEF Inv

-----------------------------------------------------------------------------
(* The transaction of a publication *)

LEMMA InvCommitRename ==
    ASSUME Inv, NEW t \in Tasks, CommitRename(t)
    PROVE  Inv'
<1> USE ConstantsAssumption
<1>1. PICK b \in FreshBlobs :
         /\ blobs' = [blobs EXCEPT ![b] = tmp[req[t].temp]]
         /\ blobsDisk' = [blobsDisk EXCEPT ![b] = tmpDisk[req[t].temp] \union {Absent}]
         /\ req' = [req EXCEPT ![t].pc = "renamed", ![t].blob = b]
  BY DEF CommitRename
<1>2. /\ req[t].pc = "received" /\ db = Free /\ db' = t
      /\ tmp' = Unlinked(tmp, req[t].temp)
      /\ tmpDisk' = UnlinkedDisk(tmpDisk, req[t].temp)
      /\ UNCHANGED <<generation, entries, trash, phase, sweep, snap, now, crashes>>
  BY DEF CommitRename, sqlVars
<1>3. /\ b \in Names /\ Unreferenced(b) /\ \A u \in Actors : b \notin req[u].unlink
  BY DEF FreshBlobs
<1>4. /\ req[t] \in Request /\ req[t].temp \in Temps /\ req[t].content \in Contents
      /\ req[t].path \in Paths /\ tmp[req[t].temp] = req[t].content
      /\ tmpDisk[req[t].temp] \ {Absent} = {req[t].content}
      /\ req[t].unlink = {}
  BY <1>2 DEF Inv, TypeOK, TempsOwned, UnlinkShape, Actors
<1> DEFINE r == [req[t] EXCEPT !.pc = "renamed", !.blob = b]
<1>5. /\ req' \in [Actors -> Request]
      /\ \A u \in Actors : u # t => req'[u] = req[u]
      /\ req'[t] = r
  BY <1>1, <1>3, <1>4 DEF Inv, TypeOK, Actors, Request, Steps, InTransaction
<1>6. /\ req'[t].pc = "renamed" /\ req'[t].path = req[t].path
      /\ req'[t].content = req[t].content /\ req'[t].temp = req[t].temp
      /\ req'[t].unlink = {} /\ req'[t].blob = b
  BY <1>4, <1>5 DEF Request
<1> HIDE DEF r
<1>7. phase = "serving"
  BY <1>2 DEF Inv, StartupQuiet
<1>8. /\ \A n \in Names : n # b => blobs'[n] = blobs[n] /\ blobsDisk'[n] = blobsDisk[n]
      /\ blobs'[b] = req[t].content
      /\ blobsDisk'[b] \ {Absent} = {req[t].content}
      /\ blobs' \in [Names -> FileStates] /\ blobsDisk' \in [Names -> SUBSET FileStates]
  BY <1>1, <1>3, <1>4 DEF Inv, TypeOK, FileStates
<1>9. TypeOK'
  <2>1. tmp' \in [Temps -> FileStates] /\ tmpDisk' \in [Temps -> SUBSET FileStates]
    BY <1>2 DEF Inv, TypeOK, Unlinked, UnlinkedDisk, FileStates
  <2> QED BY <1>2, <1>5, <1>8, <2>1 DEF Inv, TypeOK, Holders
<1>10. RowShape' /\ BlobsOwnedOnce'
  BY <1>2 DEF Inv, RowShape, BlobsOwnedOnce, Live
<1>11. ReferencedBlobsIntact'
  <2>1. \A p \in Live : entries[p].blob \in Names /\ entries[p].blob # b
    BY <1>3 DEF Inv, RowShape, Live, Unreferenced
  <2>2. \A i \in trash : i.blob \in Names /\ i.blob # b
    BY <1>3 DEF Inv, TypeOK, TrashRow, Unreferenced
  <2> QED BY <1>2, <1>8, <2>1, <2>2 DEF Inv, ReferencedBlobsIntact, Intact, Live
<1>12. PendingUnlinksUnreferenced'
  BY <1>2, <1>5, <1>6 DEF Inv, PendingUnlinksUnreferenced, Unreferenced, Live
<1>13. MutexHeld' /\ UnlinkShape' /\ StartupQuiet'
  BY <1>2, <1>5, <1>6, <1>7
     DEF Inv, MutexHeld, UnlinkShape, StartupQuiet, InTransaction, Actors
<1>14. TempsOwned'
  <2>1. \A n \in Temps : n # req[t].temp => tmp'[n] = tmp[n] /\ tmpDisk'[n] = tmpDisk[n]
    BY <1>2 DEF Inv, TypeOK, Unlinked, UnlinkedDisk
  <2> QED BY <1>4, <1>5, <1>6, <2>1 DEF Inv, TempsOwned, Actors
<1>15. StagedBlobOwned'
  <2>1. \A u \in Tasks : u # t => req'[u].pc \notin InTransaction
    BY <1>2, <1>5 DEF Inv, MutexHeld, Actors
  <2>2. Unreferenced(b)'
    BY <1>2, <1>3 DEF Unreferenced, Live
  <2>3. \A u \in Actors : b \notin req'[u].unlink
    BY <1>3, <1>5, <1>6
  <2> QED BY <1>3, <1>4, <1>6, <1>8, <2>1, <2>2, <2>3 DEF StagedBlobOwned
<1>16. SweepExact' /\ RecoveryLeavesNoOrphans'
  BY <1>2, <1>7 DEF Inv, SweepExact, RecoveryLeavesNoOrphans
<1> QED BY <1>9, <1>10, <1>11, <1>12, <1>13, <1>14, <1>15, <1>16 DEF Inv

\* fsync of a directory keeps what is durable durable.
LEMMA SyncedSettles ==
    ASSUME NEW S, NEW view \in [S -> FileStates], NEW disk \in [S -> SUBSET FileStates]
    PROVE  /\ Synced(view, disk) \in [S -> SUBSET FileStates]
           /\ \A n \in S : view[n] # Absent => Synced(view, disk)[n] = disk[n] \ {Absent}
           /\ \A n \in S : view[n] = Absent => Synced(view, disk)[n] = {Absent}
BY DEF Synced, FileStates

LEMMA InvSyncBlobs ==
    ASSUME Inv, NEW t \in Tasks, SyncBlobs(t)
    PROVE  Inv'
<1> USE ConstantsAssumption
<1>1. /\ req[t].pc = "renamed"
      /\ blobsDisk' = Synced(blobs, blobsDisk)
      /\ req' = [req EXCEPT ![t].pc = "blobs_synced"]
      /\ UNCHANGED <<generation, entries, trash, blobs, tmp, tmpDisk, db, phase, sweep,
                     snap, now, crashes>>
  BY DEF SyncBlobs, sqlVars
<1>2. req[t] \in Request
  BY DEF Inv, TypeOK, Actors
<1>3. /\ req'[t] = [req[t] EXCEPT !.pc = "blobs_synced"]
      /\ \A u \in Actors : u # t => req'[u] = req[u]
      /\ req' \in [Actors -> Request]
  BY <1>1, <1>2 DEF Inv, TypeOK, Actors, Request, Steps, InTransaction
<1>4. /\ req'[t].pc = "blobs_synced" /\ req'[t].path = req[t].path
      /\ req'[t].content = req[t].content /\ req'[t].temp = req[t].temp
      /\ req'[t].unlink = req[t].unlink /\ req'[t].blob = req[t].blob
  BY <1>2, <1>3 DEF Request
<1>5. /\ blobsDisk' \in [Names -> SUBSET FileStates]
      /\ \A n \in Names : blobs[n] # Absent => blobsDisk'[n] = blobsDisk[n] \ {Absent}
  BY <1>1, SyncedSettles DEF Inv, TypeOK
<1>6. phase = "serving"
  BY <1>1 DEF Inv, StartupQuiet
<1>7. TypeOK'
  BY <1>1, <1>3, <1>5 DEF Inv, TypeOK
<1>8. RowShape' /\ BlobsOwnedOnce'
  BY <1>1 DEF Inv, RowShape, BlobsOwnedOnce, Live
<1>9. ReferencedBlobsIntact'
  <2>1. \A p \in Live : entries[p].blob \in Names
    BY DEF Inv, RowShape, Live
  <2>2. \A i \in trash : i.blob \in Names
    BY DEF Inv, TypeOK, TrashRow
  <2> QED BY <1>1, <1>5, <2>1, <2>2 DEF Inv, ReferencedBlobsIntact, Intact, Live
<1>10. PendingUnlinksUnreferenced'
  BY <1>1, <1>3, <1>4 DEF Inv, PendingUnlinksUnreferenced, Unreferenced, Live
<1>11. MutexHeld' /\ UnlinkShape' /\ StartupQuiet'
  BY <1>1, <1>3, <1>4
     DEF Inv, MutexHeld, UnlinkShape, StartupQuiet, InTransaction, Actors
<1>12. TempsOwned'
  BY <1>1, <1>3, <1>4 DEF Inv, TempsOwned, Actors
<1>13. StagedBlobOwned'
  <2>1. \A u \in Tasks : u # t => req'[u].pc \notin InTransaction
    BY <1>1, <1>3 DEF Inv, MutexHeld, Actors, InTransaction
  <2>2. /\ req[t].path \in Paths /\ req[t].content \in Contents /\ req[t].blob \in Names
        /\ Unreferenced(req[t].blob)
        /\ \A u \in Actors : req[t].blob \notin req[u].unlink
        /\ blobs[req[t].blob] = req[t].content
        /\ blobsDisk[req[t].blob] \ {Absent} = {req[t].content}
    BY <1>1 DEF Inv, StagedBlobOwned, InTransaction
  <2>3. Unreferenced(req[t].blob)' /\ \A u \in Actors : req'[t].blob \notin req'[u].unlink
    BY <1>1, <1>3, <1>4, <2>2 DEF Unreferenced, Live
  <2>4. blobsDisk'[req[t].blob] = {req[t].content}
    BY <1>5, <2>2
  <2> QED BY <1>1, <1>4, <2>1, <2>2, <2>3, <2>4 DEF StagedBlobOwned
<1>14. SweepExact' /\ RecoveryLeavesNoOrphans'
  BY <1>1, <1>6 DEF Inv, SweepExact, RecoveryLeavesNoOrphans
<1> QED BY <1>7, <1>8, <1>9, <1>10, <1>11, <1>12, <1>13, <1>14 DEF Inv

LEMMA InvSyncTmp ==
    ASSUME Inv, NEW t \in Tasks, SyncTmp(t)
    PROVE  Inv'
<1> USE ConstantsAssumption
<1>1. /\ req[t].pc = "blobs_synced"
      /\ tmpDisk' = Synced(tmp, tmpDisk)
      /\ req' = [req EXCEPT ![t].pc = "synced"]
      /\ UNCHANGED <<generation, entries, trash, blobs, blobsDisk, tmp, db, phase, sweep,
                     snap, now, crashes>>
  BY DEF SyncTmp, sqlVars
<1>2. req[t] \in Request
  BY DEF Inv, TypeOK, Actors
<1>3. /\ req'[t] = [req[t] EXCEPT !.pc = "synced"]
      /\ \A u \in Actors : u # t => req'[u] = req[u]
      /\ req' \in [Actors -> Request]
  BY <1>1, <1>2 DEF Inv, TypeOK, Actors, Request, Steps, InTransaction
<1>4. /\ req'[t].pc = "synced" /\ req'[t].path = req[t].path
      /\ req'[t].content = req[t].content /\ req'[t].temp = req[t].temp
      /\ req'[t].unlink = req[t].unlink /\ req'[t].blob = req[t].blob
  BY <1>2, <1>3 DEF Request
<1>5. /\ tmpDisk' \in [Temps -> SUBSET FileStates]
      /\ \A n \in Temps : tmp[n] # Absent => tmpDisk'[n] = tmpDisk[n] \ {Absent}
  BY <1>1, SyncedSettles DEF Inv, TypeOK
<1>6. phase = "serving"
  BY <1>1 DEF Inv, StartupQuiet
<1>7. TypeOK'
  BY <1>1, <1>3, <1>5 DEF Inv, TypeOK
<1>8. /\ RowShape' /\ ReferencedBlobsIntact' /\ BlobsOwnedOnce'
  BY <1>1 DEF Inv, RowShape, ReferencedBlobsIntact, BlobsOwnedOnce, Intact, Live
<1>9. PendingUnlinksUnreferenced'
  BY <1>1, <1>3, <1>4 DEF Inv, PendingUnlinksUnreferenced, Unreferenced, Live
<1>10. MutexHeld' /\ UnlinkShape' /\ StartupQuiet'
  BY <1>1, <1>3, <1>4
     DEF Inv, MutexHeld, UnlinkShape, StartupQuiet, InTransaction, Actors
<1>11. TempsOwned'
  BY <1>1, <1>3, <1>4, <1>5 DEF Inv, TempsOwned, Actors
<1>12. StagedBlobOwned'
  BY <1>1, <1>3, <1>4
     DEF Inv, StagedBlobOwned, InTransaction, Unreferenced, Live, Actors
<1>13. SweepExact' /\ RecoveryLeavesNoOrphans'
  BY <1>1, <1>6 DEF Inv, SweepExact, RecoveryLeavesNoOrphans
<1> QED BY <1>7, <1>8, <1>9, <1>10, <1>11, <1>12, <1>13 DEF Inv

\* The commit, with the old blob left to remove or, when COMMIT reported an
\* error and took effect nevertheless, left behind.
LEMMA InvPublish ==
    ASSUME Inv, NEW t \in Tasks, req[t].pc = "synced", PublishRow(t), db' = Free,
           NEW S \in SUBSET ({entries[req[t].path].blob} \ {Null}),
           req' = [req EXCEPT ![t] = Unlinking(S)],
           UNCHANGED <<fsVars, phase, sweep, snap, now, crashes>>
    PROVE  Inv'
<1> USE ConstantsAssumption
<1> DEFINE p == req[t].path
           b == req[t].blob
           c == req[t].content
<1>1. /\ p \in Paths /\ c \in Contents /\ b \in Names
      /\ Unreferenced(b) /\ \A u \in Actors : b \notin req[u].unlink
      /\ blobs[b] = c /\ blobsDisk[b] = {c}
  BY DEF Inv, StagedBlobOwned, InTransaction
<1>2. /\ generation' = generation + 1 /\ trash' = trash
      /\ entries' = [entries EXCEPT ![p] = LiveRow(generation + 1, b, Digest(c))]
  BY DEF PublishRow
<1>3. UNCHANGED <<blobs, blobsDisk, tmp, tmpDisk, phase, sweep, snap, now, crashes>>
  BY DEF fsVars
<1>4. /\ entries[p] \in Entry /\ S \subseteq Names
      /\ entries[p].deleted # 0 => S = {}
  BY <1>1 DEF Inv, TypeOK, RowShape, Entry
<1>5. /\ req' \in [Actors -> Request]
      /\ req'[t] = Unlinking(S)
      /\ \A u \in Actors : u # t => req'[u] = req[u]
  BY <1>4, UnlinkingRequest, OneRequest DEF Inv, Actors
<1>6. /\ req'[t].pc \in {"idle", "unlink"} /\ req'[t].temp = Null /\ req'[t].unlink = S
      /\ S # {} => req'[t].pc = "unlink"
  BY <1>4, <1>5, UnlinkingRequest
<1>7. phase = "serving" /\ db = t /\ \A u \in Tasks : u # t => req[u].pc \notin InTransaction
  BY DEF Inv, StartupQuiet, MutexHeld, InTransaction
<1> HIDE DEF p, b, c
<1>8. /\ entries'[p].blob = b /\ entries'[p].deleted = 0 /\ entries'[p].sha256 = Digest(c)
      /\ \A q \in Paths : q # p => entries'[q] = entries[q]
      /\ entries' \in [Paths -> Entry]
  BY <1>1, <1>2 DEF Inv, TypeOK, Entry, LiveRow, Digests
<1>9. /\ p \in Live' /\ \A q \in Paths : q # p => (q \in Live' <=> q \in Live)
      /\ Live \subseteq Paths /\ Live' \subseteq Paths
  BY <1>1, <1>8 DEF Live
<1>10. TypeOK'
  BY <1>2, <1>3, <1>5, <1>8 DEF Inv, TypeOK, Holders
<1>11. RowShape'
  BY <1>1, <1>8 DEF Inv, RowShape
<1>12. ReferencedBlobsIntact'
  BY <1>1, <1>2, <1>3, <1>8, <1>9 DEF Inv, ReferencedBlobsIntact, Intact
<1>13. BlobsOwnedOnce'
  BY <1>1, <1>2, <1>8, <1>9 DEF Inv, BlobsOwnedOnce, Unreferenced
<1>14. \A n \in Names : Unreferenced(n) /\ n # b => Unreferenced(n)'
  BY <1>2, <1>8, <1>9 DEF Unreferenced
<1>15. PendingUnlinksUnreferenced'
  <2>1. ASSUME NEW n \in S PROVE Unreferenced(n)'
    <3>1. n = entries[p].blob /\ p \in Live /\ n # b
      BY <1>1, <1>4 DEF Live, Unreferenced, p
    <3>2. /\ \A q \in Live' : entries'[q].blob # n
          /\ \A i \in trash : i.blob # n
      BY <1>8, <1>9, <3>1 DEF Inv, BlobsOwnedOnce
    <3> QED BY <1>2, <3>2 DEF Unreferenced
  <2>2. ASSUME NEW u \in Actors, u # t, NEW n \in req[u].unlink
        PROVE  Unreferenced(n)'
    BY <1>1, <1>14, <2>2 DEF Inv, TypeOK, Request, PendingUnlinksUnreferenced
  <2> QED BY <1>5, <1>6, <2>1, <2>2 DEF PendingUnlinksUnreferenced
<1>16. MutexHeld'
  BY <1>5, <1>6, <1>7 DEF Inv, MutexHeld, InTransaction, Actors
<1>17. UnlinkShape'
  BY <1>5, <1>6 DEF Inv, UnlinkShape, Actors
<1>18. StartupQuiet'
  BY <1>3, <1>7 DEF StartupQuiet
<1>19. TempsOwned'
  BY <1>3, <1>5, <1>6 DEF Inv, TempsOwned, Actors
<1>20. StagedBlobOwned'
  BY <1>5, <1>6, <1>7 DEF StagedBlobOwned, InTransaction, Actors
<1>21. SweepExact' /\ RecoveryLeavesNoOrphans'
  BY <1>3, <1>7 DEF Inv, SweepExact, RecoveryLeavesNoOrphans
<1> QED BY <1>10, <1>11, <1>12, <1>13, <1>15, <1>16, <1>17, <1>18, <1>19, <1>20, <1>21 DEF Inv

LEMMA InvTxCommit ==
    ASSUME Inv, NEW t \in Tasks, TxCommit(t)
    PROVE  Inv'
BY InvPublish DEF TxCommit

LEMMA InvTxCommitError ==
    ASSUME Inv, NEW t \in Tasks, TxCommitError(t)
    PROVE  Inv'
<1>1. CASE PublishRow(t)
  <2>1. req' = [req EXCEPT ![t] = Unlinking({})]
    BY DEF TxCommitError, Unlinking
  <2> QED BY <1>1, <2>1, InvPublish DEF TxCommitError
<1>2. CASE UNCHANGED sqlVars
  BY <1>2, AbandonCases, InvAbandon
<1> QED BY <1>1, <1>2 DEF TxCommitError

\* An unlink outside the mutex, done or failed, touches no blob that a row
\* names or a publication has staged.
LEMMA InvUnlink ==
    ASSUME Inv, NEW t \in Actors, UnlinkBlob(t) \/ UnlinkFailed(t)
    PROVE  Inv'
<1> USE ConstantsAssumption
<1>1. PICK n \in req[t].unlink :
        /\ req' = [req EXCEPT ![t] = Unlinking(@.unlink \ {n})]
        /\ \/ UNCHANGED <<blobs, blobsDisk>>
           \/ blobs' = Unlinked(blobs, n) /\ blobsDisk' = UnlinkedDisk(blobsDisk, n)
        /\ UNCHANGED <<generation, entries, trash, tmp, tmpDisk, db, phase, sweep, snap,
                       now, crashes>>
  BY DEF UnlinkBlob, UnlinkFailed, sqlVars, fsVars
<1> DEFINE S == req[t].unlink \ {n}
<1>2. n \in Names /\ S \subseteq Names /\ req[t].pc = "unlink" /\ Unreferenced(n)
  BY DEF Inv, TypeOK, Request, UnlinkShape, PendingUnlinksUnreferenced
<1>3. /\ req' \in [Actors -> Request]
      /\ req'[t] = Unlinking(S)
      /\ \A u \in Actors : u # t => req'[u] = req[u]
  <2>1. req' = [req EXCEPT ![t] = Unlinking(S)]
    BY <1>1 DEF Inv, TypeOK
  <2> QED BY <1>2, <2>1, UnlinkingRequest, OneRequest DEF Inv
<1>4. /\ req'[t].pc \in {"idle", "unlink"} /\ req'[t].temp = Null /\ req'[t].unlink = S
      /\ S # {} => req'[t].pc = "unlink"
  BY <1>2, <1>3, UnlinkingRequest
<1>5. /\ \A m \in Names : m # n => blobs'[m] = blobs[m] /\ blobsDisk'[m] = blobsDisk[m]
      /\ blobs'[n] \in {blobs[n], Absent}
      /\ blobsDisk'[n] \in {blobsDisk[n], blobsDisk[n] \union {Absent}}
      /\ blobs' \in [Names -> FileStates] /\ blobsDisk' \in [Names -> SUBSET FileStates]
  BY <1>1, <1>2 DEF Inv, TypeOK, Unlinked, UnlinkedDisk, FileStates
<1>6. TypeOK'
  BY <1>1, <1>3, <1>5 DEF Inv, TypeOK
<1>7. RowShape' /\ BlobsOwnedOnce'
  BY <1>1 DEF Inv, RowShape, BlobsOwnedOnce, Live
<1>8. ReferencedBlobsIntact'
  <2>1. \A p \in Live : entries[p].blob \in Names /\ entries[p].blob # n
    BY <1>2 DEF Inv, RowShape, Live, Unreferenced
  <2>2. \A i \in trash : i.blob \in Names /\ i.blob # n
    BY <1>2 DEF Inv, TypeOK, TrashRow, Unreferenced
  <2> QED BY <1>1, <1>5, <2>1, <2>2 DEF Inv, ReferencedBlobsIntact, Intact, Live
<1>9. PendingUnlinksUnreferenced'
  BY <1>1, <1>3, <1>4 DEF Inv, PendingUnlinksUnreferenced, Unreferenced, Live
<1>10. MutexHeld' /\ UnlinkShape' /\ StartupQuiet'
  BY <1>1, <1>2, <1>3, <1>4
     DEF Inv, MutexHeld, UnlinkShape, StartupQuiet, InTransaction, Actors
<1>11. TempsOwned'
  BY <1>1, <1>3, <1>4 DEF Inv, TempsOwned, Actors
<1>12. StagedBlobOwned'
  <2> SUFFICES ASSUME NEW u \in Tasks, req'[u].pc \in InTransaction
               PROVE  /\ req'[u].path \in Paths /\ req'[u].content \in Contents
                      /\ req'[u].blob \in Names /\ Unreferenced(req[u].blob)'
                      /\ \A v \in Actors : req'[u].blob \notin req'[v].unlink
                      /\ blobs'[req'[u].blob] = req'[u].content
                      /\ blobsDisk'[req'[u].blob] \ {Absent} = {req'[u].content}
                      /\ req'[u].pc # "renamed" => Absent \notin blobsDisk'[req'[u].blob]
    BY DEF StagedBlobOwned
  <2>1. u # t /\ req'[u] = req[u]
    BY <1>3, <1>4 DEF InTransaction, Actors
  <2>2. req[u].blob # n
    BY <2>1 DEF Inv, StagedBlobOwned
  <2>3. Unreferenced(req[u].blob) => Unreferenced(req[u].blob)'
    BY <1>1, <2>1 DEF Unreferenced, Live
  <2>4. /\ req[u].path \in Paths /\ req[u].content \in Contents /\ req[u].blob \in Names
        /\ Unreferenced(req[u].blob)
        /\ \A v \in Actors : req[u].blob \notin req[v].unlink
        /\ blobs[req[u].blob] = req[u].content
        /\ blobsDisk[req[u].blob] \ {Absent} = {req[u].content}
        /\ req[u].pc # "renamed" => Absent \notin blobsDisk[req[u].blob]
    BY <2>1 DEF Inv, StagedBlobOwned
  <2>5. \A v \in Actors : req[u].blob \notin req'[v].unlink
    BY <1>3, <1>4, <2>4
  <2> QED BY <1>5, <2>1, <2>2, <2>3, <2>4, <2>5
<1>13. SweepExact'
  BY <1>1, <1>2, <1>5 DEF Inv, SweepExact, Unreferenced, Live
<1>14. RecoveryLeavesNoOrphans'
  BY <1>1, <1>2, <1>5 DEF Inv, RecoveryLeavesNoOrphans, Unreferenced, Live
<1> QED BY <1>6, <1>7, <1>8, <1>9, <1>10, <1>11, <1>12, <1>13, <1>14 DEF Inv

-----------------------------------------------------------------------------
(* Transactions of one step *)

\* Some row names the blob b with the digest d.
Refers(b, d) ==
    \/ \E p \in Live : entries[p].blob = b /\ entries[p].sha256 = d
    \/ \E i \in trash : i.blob = b /\ i.sha256 = d

\* A transaction under the mutex that only moves blobs between rows.
LEMMA InvRows ==
    ASSUME Inv, phase = "serving", db = Free,
           UNCHANGED <<blobs, blobsDisk, tmp, tmpDisk, db, req, phase, sweep, now, crashes>>,
           generation' \in Nat, entries' \in [Paths -> Entry], trash' \subseteq TrashRow,
           snap' \in Snapshot \union {Null},
           RowShape', BlobsOwnedOnce',
           \A p \in Live' : Refers(entries'[p].blob, entries'[p].sha256),
           \A i \in trash' : Refers(i.blob, i.sha256)
    PROVE  Inv'
<1>1. TypeOK'
  BY DEF Inv, TypeOK
<1>2. ASSUME NEW b, NEW d, Refers(b, d)
      PROVE  /\ Intact(b, d)'
             /\ \A u \in Actors : b \notin req[u].unlink
  <2>1. Intact(b, d)
    BY <1>2 DEF Refers, Inv, ReferencedBlobsIntact
  <2>2. ~Unreferenced(b)
    BY <1>2 DEF Refers, Unreferenced
  <2> QED BY <2>1, <2>2 DEF Intact, Inv, PendingUnlinksUnreferenced
<1>3. ReferencedBlobsIntact'
  BY <1>2 DEF ReferencedBlobsIntact, Intact
<1>4. PendingUnlinksUnreferenced'
  <2> SUFFICES ASSUME NEW u \in Actors, NEW n \in req[u].unlink
               PROVE  Unreferenced(n)'
    BY DEF PendingUnlinksUnreferenced
  <2>1. \A p \in Live' : entries'[p].blob # n
    BY <1>2
  <2>2. \A i \in trash' : i.blob # n
    BY <1>2
  <2> QED BY <2>1, <2>2 DEF Unreferenced
<1>5. MutexHeld' /\ UnlinkShape' /\ StartupQuiet' /\ TempsOwned'
  BY DEF Inv, MutexHeld, UnlinkShape, StartupQuiet, TempsOwned
<1>6. StagedBlobOwned'
  BY ConstantsAssumption DEF Inv, MutexHeld, StagedBlobOwned
<1>7. SweepExact' /\ RecoveryLeavesNoOrphans'
  BY DEF Inv, SweepExact, RecoveryLeavesNoOrphans
<1> QED BY <1>1, <1>3, <1>4, <1>5, <1>6, <1>7 DEF Inv

\* Live rows have the shape of a trash row, and identifiers are numbers.
LEMMA LiveRowTypes ==
    ASSUME Inv
    PROVE  /\ \A p \in Live : /\ p \in Paths /\ entries[p].blob \in Names
                              /\ entries[p].sha256 \in Digests
                              /\ Refers(entries[p].blob, entries[p].sha256)
           /\ \A i \in trash : /\ i.path \in Paths /\ i.blob \in Names
                               /\ i.sha256 \in Digests
                               /\ Refers(i.blob, i.sha256)
           /\ NextIds \subseteq Nat \ {0}
           /\ now + RetentionSeconds \in Nat
<1>1. \A p \in Live : p \in Paths /\ entries[p].blob \in Names
  BY DEF Inv, RowShape, Live
<1>2. \A p \in Live : entries[p].sha256 \in Digests
  BY DEF Inv, ReferencedBlobsIntact, Intact, Digests
<1>3. \A i \in trash : i.path \in Paths /\ i.blob \in Names /\ i.sha256 \in Digests
  BY DEF Inv, TypeOK, TrashRow
<1>4. NextIds \subseteq Nat \ {0}
  BY DEF Inv, TypeOK, TrashRow, NextIds
<1>5. now + RetentionSeconds \in Nat
  BY NumbersAssumption DEF Inv, TypeOK
<1> QED BY <1>1, <1>2, <1>3, <1>4, <1>5 DEF Refers

LEMMA InvDelete ==
    ASSUME Inv, NEW p \in Paths, Delete(p)
    PROVE  Inv'
<1>1. PICK id \in NextIds : trash' = trash \union {TrashRowOf(id, p)}
  BY DEF Delete
<1>2. /\ phase = "serving" /\ db = Free /\ entries[p].deleted = 0
      /\ generation' = generation + 1
      /\ entries' = [entries EXCEPT ![p] = Tombstone(generation + 1)]
      /\ UNCHANGED <<blobs, blobsDisk, tmp, tmpDisk, db, req, phase, sweep, snap, now, crashes>>
  BY DEF Delete, SqlOnly, fsVars
<1>3. p \in Live
  BY <1>2 DEF Live
<1> DEFINE row == TrashRowOf(id, p)
<1>4. /\ row \in TrashRow /\ row.blob = entries[p].blob /\ row.sha256 = entries[p].sha256
  BY <1>3, LiveRowTypes DEF TrashRowOf, TrashRow
<1> HIDE DEF row
<1>5. /\ generation' \in Nat /\ entries' \in [Paths -> Entry]
      /\ entries'[p].deleted = 1 /\ entries'[p].blob = Null
      /\ \A q \in Paths : q # p => entries'[q] = entries[q]
  BY <1>2 DEF Inv, TypeOK, Tombstone, Entry
<1>6. Live' = Live \ {p}
  BY <1>5 DEF Live
<1>7. RowShape'
  BY <1>5 DEF Inv, RowShape
<1>8. BlobsOwnedOnce'
  BY <1>1, <1>3, <1>4, <1>5, <1>6, LiveRowTypes DEF Inv, BlobsOwnedOnce, row
<1>9. \A q \in Live' : Refers(entries'[q].blob, entries'[q].sha256)
  BY <1>5, <1>6, LiveRowTypes
<1>10. \A i \in trash' : Refers(i.blob, i.sha256)
  BY <1>1, <1>3, <1>4, LiveRowTypes DEF row
<1>11. trash' \subseteq TrashRow
  BY <1>1, <1>4 DEF Inv, TypeOK, row
<1> QED BY <1>2, <1>5, <1>7, <1>8, <1>9, <1>10, <1>11, InvRows DEF Inv, TypeOK

LEMMA InvRestore ==
    ASSUME Inv, NEW i \in trash, Restore(i)
    PROVE  Inv'
<1>1. /\ phase = "serving" /\ db = Free
      /\ i.path \notin Live
      /\ generation' = generation + 1
      /\ entries' = [entries EXCEPT ![i.path] = LiveRow(generation + 1, i.blob, i.sha256)]
      /\ trash' = trash \ {i}
      /\ UNCHANGED <<blobs, blobsDisk, tmp, tmpDisk, db, req, phase, sweep, snap, now, crashes>>
  BY DEF Restore, SqlOnly, fsVars
<1>2. /\ i.path \in Paths /\ i.blob \in Names /\ i.sha256 \in Digests
      /\ Refers(i.blob, i.sha256)
  BY LiveRowTypes
<1>3. /\ generation' \in Nat /\ entries' \in [Paths -> Entry]
      /\ entries'[i.path].deleted = 0 /\ entries'[i.path].blob = i.blob
      /\ entries'[i.path].sha256 = i.sha256
      /\ \A q \in Paths : q # i.path => entries'[q] = entries[q]
  BY <1>1, <1>2 DEF Inv, TypeOK, LiveRow, Entry
<1>4. Live' = Live \union {i.path}
  BY <1>2, <1>3 DEF Live
<1>5. RowShape'
  BY <1>2, <1>3 DEF Inv, RowShape
<1>6. BlobsOwnedOnce'
  BY <1>1, <1>3, <1>4, LiveRowTypes DEF Inv, BlobsOwnedOnce
<1>7. \A q \in Live' : Refers(entries'[q].blob, entries'[q].sha256)
  BY <1>1, <1>2, <1>3, <1>4, LiveRowTypes
<1>8. \A j \in trash' : Refers(j.blob, j.sha256)
  BY <1>1, LiveRowTypes
<1> QED BY <1>1, <1>3, <1>5, <1>6, <1>7, <1>8, InvRows DEF Inv, TypeOK

LEMMA InvProperties ==
    ASSUME Inv, NEW d \in Paths, Properties(d)
    PROVE  Inv'
<1>1. /\ phase = "serving" /\ db = Free
      /\ snap' = [dir |-> d, snapshot |-> Fingerprint(FilesBelow(d)),
                  held |-> [p \in FilesBelow(d) |-> blobs[entries[p].blob]]]
      /\ UNCHANGED <<generation, entries, trash, blobs, blobsDisk, tmp, tmpDisk, db, req,
                     phase, sweep, now, crashes>>
  BY DEF Properties, SqlOnly, fsVars, sqlVars
<1>2. snap' \in Snapshot
  <2>1. FilesBelow(d) \in SUBSET Paths
    BY DEF FilesBelow, Live
  <2>2. Fingerprint(FilesBelow(d)) \subseteq Paths \X Nat
    BY <2>1 DEF Fingerprint, Inv, TypeOK, Entry
  <2>3. [p \in FilesBelow(d) |-> blobs[entries[p].blob]] \in [FilesBelow(d) -> FileStates]
    BY LiveRowTypes DEF FilesBelow, Inv, TypeOK
  <2> QED BY <1>1, <2>1, <2>2, <2>3 DEF Snapshot
<1>3. RowShape' /\ BlobsOwnedOnce' /\ Live' = Live
  BY <1>1 DEF Inv, RowShape, BlobsOwnedOnce, Live
<1> QED BY <1>1, <1>2, <1>3, LiveRowTypes, InvRows DEF Inv, TypeOK

\* The rows of a directory operation are visited in some order, from 1.
LEMMA OrdersRange ==
    ASSUME NEW S \in SUBSET Paths, NEW ord \in Orders(S)
    PROVE  /\ IsFiniteSet(S) /\ Cardinality(S) \in Nat
           /\ \A p \in S : ord[p] \in 1..Cardinality(S)
           /\ \A p, q \in S : ord[p] = ord[q] => p = q
<1>1. IsFiniteSet(S) /\ Cardinality(S) \in Nat
  BY PathsAssumption, FS_Subset, FS_CardinalityType
<1> QED BY <1>1 DEF Orders, Bijection, Injection, Surjection, IsInjective

LEMMA InvDirectoryDelete ==
    ASSUME Inv, DirectoryDelete
    PROVE  Inv'
<1> DEFINE S == FilesBelow(snap.dir)
<1>1. S \subseteq Live /\ S \subseteq Paths
  BY DEF FilesBelow, Live
<1>2. /\ phase = "serving" /\ db = Free /\ snap' = Null
      /\ generation' = generation + Cardinality(S)
      /\ UNCHANGED <<blobs, blobsDisk, tmp, tmpDisk, db, req, phase, sweep, now, crashes>>
  BY DEF DirectoryDelete, CheckedFiles, SqlOnly, fsVars
<1>3. PICK ord \in Orders(S), id \in NextIds :
        /\ entries' = [p \in Paths |-> IF p \in S
                         THEN Tombstone(generation + ord[p]) ELSE entries[p]]
        /\ trash' = trash \union {TrashRowOf(id + ord[p] - 1, p) : p \in S}
  BY DEF DirectoryDelete
<1> HIDE DEF S
<1>4. /\ Cardinality(S) \in Nat /\ id \in Nat /\ id # 0
      /\ \A p \in S : ord[p] \in Nat /\ id + ord[p] - 1 \in Nat
  BY <1>1, OrdersRange, LiveRowTypes
<1> DEFINE Row(p) == TrashRowOf(id + ord[p] - 1, p)
<1>5. \A p \in S : /\ Row(p) \in TrashRow
                   /\ Row(p).blob = entries[p].blob /\ Row(p).sha256 = entries[p].sha256
  BY <1>1, <1>4, LiveRowTypes DEF TrashRowOf, TrashRow
<1>6. \A i \in trash' : i \in trash \/ \E p \in S : i = Row(p)
  BY <1>3
<1> HIDE DEF Row
<1>7. /\ generation' \in Nat /\ entries' \in [Paths -> Entry]
      /\ \A p \in S : entries'[p].deleted = 1 /\ entries'[p].blob = Null
      /\ \A p \in Paths : p \notin S => entries'[p] = entries[p]
  <2>1. \A p \in S : Tombstone(generation + ord[p]) \in Entry
    BY <1>4 DEF Inv, TypeOK, Tombstone, Entry
  <2>2. \A p \in S : Tombstone(generation + ord[p]).deleted = 1
                     /\ Tombstone(generation + ord[p]).blob = Null
    BY DEF Tombstone
  <2> QED BY <1>1, <1>2, <1>3, <1>4, <2>1, <2>2 DEF Inv, TypeOK
<1>8. Live' = Live \ S
  BY <1>1, <1>7 DEF Live
<1>9. trash' \subseteq TrashRow
  BY <1>5, <1>6 DEF Inv, TypeOK
<1>10. RowShape'
  BY <1>1, <1>7 DEF Inv, RowShape
<1>11. BlobsOwnedOnce'
  <2>1. \A p, q \in Live' : entries'[p].blob = entries'[q].blob => p = q
    BY <1>7, <1>8, LiveRowTypes DEF Inv, BlobsOwnedOnce
  <2>2. ASSUME NEW i \in trash', NEW j \in trash', i.blob = j.blob PROVE i = j
    BY <1>1, <1>5, <1>6, <2>2 DEF Inv, BlobsOwnedOnce
  <2>3. ASSUME NEW p \in Live', NEW i \in trash' PROVE entries'[p].blob # i.blob
    BY <1>1, <1>5, <1>6, <1>7, <1>8, LiveRowTypes DEF Inv, BlobsOwnedOnce
  <2> QED BY <2>1, <2>2, <2>3 DEF BlobsOwnedOnce
<1>12. \A p \in Live' : Refers(entries'[p].blob, entries'[p].sha256)
  BY <1>7, <1>8, LiveRowTypes
<1>13. \A i \in trash' : Refers(i.blob, i.sha256)
  BY <1>1, <1>5, <1>6, LiveRowTypes
<1> QED BY <1>2, <1>7, <1>9, <1>10, <1>11, <1>12, <1>13, InvRows

\* What a directory rename does to the rows, path by path.
LEMMA RenameRows ==
    ASSUME Inv, NEW name \in Components, DirectoryRename(name),
           NEW S, S = FilesBelow(snap.dir), NEW d, d = snap.dir, NEW tgt, tgt = Renamed(d, name)
    PROVE  /\ d \in Seq(Components) /\ tgt \in Seq(Components) /\ S \subseteq Live
           /\ \A p \in S : Below(d, p) /\ p \in Seq(Components)
           /\ \A p \in S : /\ Moved(d, tgt, p) \in Paths
                           /\ Moved(d, tgt, p) \notin Live
                           /\ Moved(d, tgt, p) \notin S
           /\ \A p, q \in S : Moved(d, tgt, p) = Moved(d, tgt, q) => p = q
           /\ NamespaceFree(Live, tgt) /\ tgt \notin Live
<1>1. snap \in Snapshot
  BY DEF Inv, TypeOK, DirectoryRename
<1>2. d \in Paths /\ d \in Seq(Components) /\ d # <<>>
  BY <1>1, PathsAssumption DEF Snapshot
<1>3. /\ tgt \in Seq(Components) /\ Len(tgt) = Len(d)
      /\ ~Below(d, tgt) /\ ~Below(tgt, d)
  BY <1>2, RenamedBeside
<1>4. /\ tgt # d /\ NamespaceFree(Live, tgt) /\ tgt \notin Live
      /\ \A p \in S : Moved(d, tgt, p) \in Paths
  BY DEF DirectoryRename
<1>5. S \subseteq Live /\ \A p \in S : Below(d, p) /\ p \in Seq(Components)
  BY PathsAssumption DEF FilesBelow, Live
<1>6. \A p \in S : Below(tgt, Moved(d, tgt, p))
  BY <1>2, <1>3, <1>5, MovedBelow
<1>7. \A p \in S : Moved(d, tgt, p) \notin Live
  BY <1>4, <1>6 DEF NamespaceFree
<1>8. \A p, q \in S : Moved(d, tgt, p) = Moved(d, tgt, q) => p = q
  BY <1>2, <1>3, <1>5, MovedInjective
<1> QED BY <1>2, <1>3, <1>4, <1>5, <1>7, <1>8

LEMMA InvDirectoryRename ==
    ASSUME Inv, NEW name \in Components, DirectoryRename(name)
    PROVE  Inv'
<1> DEFINE S == FilesBelow(snap.dir)
           d == snap.dir
           tgt == Renamed(d, name)
           From(q) == {p \in S : q = Moved(d, tgt, p)}
           To(q) == CHOOSE p \in S : q = Moved(d, tgt, p)
<1>1. /\ S \subseteq Live
      /\ \A p \in S : Moved(d, tgt, p) \in Paths /\ Moved(d, tgt, p) \notin Live
      /\ \A p, q \in S : Moved(d, tgt, p) = Moved(d, tgt, q) => p = q
  BY RenameRows
<1>2. S \subseteq Paths /\ Live \subseteq Paths
  BY DEF FilesBelow, Live
<1>3. /\ phase = "serving" /\ db = Free /\ snap' = Null /\ trash' = trash
      /\ generation' = generation + 2 * Cardinality(S)
      /\ UNCHANGED <<blobs, blobsDisk, tmp, tmpDisk, db, req, phase, sweep, now, crashes>>
  BY DEF DirectoryRename, CheckedFiles, SqlOnly, fsVars
<1>4. PICK ord \in Orders(S) :
        entries' = [q \in Paths |->
                  IF q \in S THEN Tombstone(generation + 2 * ord[q] - 1)
                  ELSE IF From(q) = {} THEN entries[q]
                  ELSE LiveRow(generation + 2 * ord[To(q)],
                               entries[To(q)].blob, entries[To(q)].sha256)]
  BY DEF DirectoryRename
<1>5. ASSUME NEW q \in Paths, From(q) # {}
      PROVE  To(q) \in S /\ q = Moved(d, tgt, To(q)) /\ q \notin Live
  BY <1>1, <1>5
<1> HIDE DEF S, d, tgt, From, To
<1>6. /\ Cardinality(S) \in Nat /\ \A p \in S : ord[p] \in Nat \ {0}
  BY <1>2, OrdersRange
<1>7. ASSUME NEW q \in S
      PROVE  /\ entries'[q] \in Entry /\ entries'[q].deleted = 1 /\ entries'[q].blob = Null
  <2>1. generation + 2 * ord[q] - 1 \in Nat
    BY <1>6 DEF Inv, TypeOK
  <2>2. entries'[q] = Tombstone(generation + 2 * ord[q] - 1)
    BY <1>2, <1>4
  <2> QED BY <2>1, <2>2 DEF Tombstone, Entry
<1>8. ASSUME NEW q \in Paths, q \notin S, From(q) # {}
      PROVE  /\ entries'[q] \in Entry /\ entries'[q].deleted = 0
             /\ entries'[q].blob = entries[To(q)].blob
             /\ entries'[q].sha256 = entries[To(q)].sha256
             /\ entries'[q].blob \in Names
  <2>1. generation + 2 * ord[To(q)] \in Nat
    BY <1>5, <1>6, <1>8 DEF Inv, TypeOK
  <2>2. entries'[q] = LiveRow(generation + 2 * ord[To(q)],
                              entries[To(q)].blob, entries[To(q)].sha256)
    BY <1>4, <1>8
  <2>3. entries[To(q)].blob \in Names /\ entries[To(q)].sha256 \in Digests
    BY <1>1, <1>5, <1>8, LiveRowTypes
  <2> QED BY <2>1, <2>2, <2>3 DEF LiveRow, Entry
<1>9. ASSUME NEW q \in Paths, q \notin S, From(q) = {}
      PROVE  entries'[q] = entries[q]
  BY <1>4, <1>9
<1>10. /\ generation' \in Nat /\ entries' \in [Paths -> Entry]
  <2>1. \A q \in Paths : entries'[q] \in Entry
    BY <1>7, <1>8, <1>9 DEF Inv, TypeOK
  <2>2. entries' = [q \in Paths |-> entries'[q]]
    BY <1>4
  <2> QED BY <1>3, <1>6, <2>1, <2>2 DEF Inv, TypeOK
<1>11. RowShape'
  BY <1>7, <1>8, <1>9 DEF Inv, RowShape
\* The blob of a live row after the rename, and where it was before.
<1> DEFINE Src(q) == IF From(q) = {} THEN q ELSE To(q)
<1>12. ASSUME NEW q \in Live'
       PROVE  /\ q \in Paths /\ q \notin S /\ Src(q) \in Live
              /\ entries'[q].blob = entries[Src(q)].blob
              /\ entries'[q].sha256 = entries[Src(q)].sha256
              /\ From(q) = {} => Src(q) \notin S
              /\ From(q) # {} => Src(q) \in S /\ q = Moved(d, tgt, Src(q))
  <2>1. q \in Paths /\ entries'[q].deleted = 0
    BY DEF Live
  <2>2. q \notin S
    BY <1>7, <2>1
  <2>3. CASE From(q) = {}
    BY <1>9, <2>1, <2>2, <2>3 DEF Live
  <2>4. CASE From(q) # {}
    BY <1>1, <1>5, <1>8, <2>1, <2>2, <2>4
  <2> QED BY <2>1, <2>2, <2>3, <2>4
<1> HIDE DEF Src
<1>13. ASSUME NEW p \in Live', NEW q \in Live', Src(p) = Src(q) PROVE p = q
  <2>1. (From(p) = {} => Src(p) = p) /\ (From(q) = {} => Src(q) = q)
    BY DEF Src
  <2> QED BY <1>12, <1>13, <2>1
<1>14. BlobsOwnedOnce'
  <2>1. \A p, q \in Live' : entries'[p].blob = entries'[q].blob => p = q
    BY <1>12, <1>13 DEF Inv, BlobsOwnedOnce
  <2>2. \A p \in Live', i \in trash' : entries'[p].blob # i.blob
    BY <1>3, <1>12 DEF Inv, BlobsOwnedOnce
  <2> QED BY <1>3, <2>1, <2>2 DEF Inv, BlobsOwnedOnce
<1>15. \A p \in Live' : Refers(entries'[p].blob, entries'[p].sha256)
  BY <1>12, LiveRowTypes
<1>16. \A i \in trash' : Refers(i.blob, i.sha256)
  BY <1>3, LiveRowTypes
<1>17. trash' \subseteq TrashRow
  BY <1>3 DEF Inv, TypeOK
<1> QED BY <1>3, <1>10, <1>11, <1>14, <1>15, <1>16, <1>17, InvRows

LEMMA InvDropRows ==
    ASSUME Inv, NEW t \in Actors, NEW S \in SUBSET trash, DropRows(t, S),
           \/ phase' = phase /\ (t = Admin \/ phase = "serving")
           \/ phase = "recovered" /\ phase' = "purging"
    PROVE  Inv'
<1> USE ConstantsAssumption
<1> DEFINE B == {i.blob : i \in S}
<1>1. /\ req[t] = Idle /\ db = Free /\ S # {} /\ trash' = trash \ S
      /\ req' = [req EXCEPT ![t] = Unlinking(B)]
      /\ UNCHANGED <<generation, entries, blobs, blobsDisk, tmp, tmpDisk, db, sweep, snap,
                     now, crashes>>
  BY DEF DropRows, fsVars
<1>2. B \subseteq Names
  BY LiveRowTypes
<1>3. \A n \in B : \E i \in S : i.blob = n
  OBVIOUS
<1> HIDE DEF B
<1>4. /\ req' \in [Actors -> Request]
      /\ req'[t] = Unlinking(B)
      /\ \A u \in Actors : u # t => req'[u] = req[u]
  BY <1>1, <1>2, UnlinkingRequest, OneRequest DEF Inv
<1>5. /\ req'[t].pc \in {"idle", "unlink"} /\ req'[t].temp = Null /\ req'[t].unlink = B
      /\ B # {} => req'[t].pc = "unlink"
  BY <1>2, <1>4, UnlinkingRequest
<1>6. Live' = Live
  BY <1>1 DEF Live
<1>7. phase \notin {"sweep_blobs", "sweep_tmp"} /\ phase' \notin {"sweep_blobs", "sweep_tmp"}
  BY <1>1 DEF Inv, StartupQuiet
<1>8. TypeOK'
  BY <1>1, <1>4 DEF Inv, TypeOK, Phases
<1>9. /\ RowShape' /\ ReferencedBlobsIntact' /\ BlobsOwnedOnce'
  BY <1>1, <1>6 DEF Inv, RowShape, ReferencedBlobsIntact, BlobsOwnedOnce, Intact
<1>10. \A n : Unreferenced(n) => Unreferenced(n)'
  BY <1>1, <1>6 DEF Unreferenced
<1>11. \A n \in B : Unreferenced(n)'
  BY <1>1, <1>3, <1>6 DEF Inv, BlobsOwnedOnce, Unreferenced
<1>12. PendingUnlinksUnreferenced'
  BY <1>4, <1>5, <1>10, <1>11 DEF Inv, PendingUnlinksUnreferenced
<1>13. MutexHeld'
  BY <1>1, <1>4, <1>5, IdleRequest DEF Inv, MutexHeld, InTransaction, Actors
<1>14. UnlinkShape'
  BY <1>4, <1>5 DEF Inv, UnlinkShape, Actors
<1>15. StartupQuiet'
  <2>1. ASSUME NEW u \in Tasks, phase' = "purging" PROVE req'[u].pc \in {"idle", "unlink"}
    BY <1>4, <1>5, <2>1 DEF Inv, StartupQuiet, Actors
  <2>2. ASSUME NEW u \in Tasks, phase' \notin {"purging", "serving"} PROVE req'[u].pc = "idle"
    BY <1>4, <2>2 DEF Inv, StartupQuiet, Actors
  <2> QED BY <1>1, <1>7, <2>1, <2>2 DEF StartupQuiet
<1>16. TempsOwned'
  BY <1>1, <1>4, <1>5 DEF Inv, TempsOwned, Actors
<1>17. StagedBlobOwned'
  BY <1>1, <1>13 DEF MutexHeld, StagedBlobOwned
<1>18. SweepExact'
  BY <1>1, <1>7 DEF Inv, SweepExact
<1>19. RecoveryLeavesNoOrphans'
  BY <1>1, <1>7 DEF Inv, RecoveryLeavesNoOrphans
<1> QED BY <1>8, <1>9, <1>12, <1>13, <1>14, <1>15, <1>16, <1>17, <1>18, <1>19 DEF Inv

-----------------------------------------------------------------------------
(* Startup, and the ends of the process *)

\* Steps that touch neither rows nor requests: recovery and its surroundings.
\* The parts of Inv that speak only of rows and requests carry over.
LEMMA RowsAndRequestsKept ==
    ASSUME Inv, UNCHANGED <<generation, entries, trash, req>>
    PROVE  /\ RowShape' /\ BlobsOwnedOnce' /\ PendingUnlinksUnreferenced' /\ UnlinkShape'
           /\ \A n : Unreferenced(n)' <=> Unreferenced(n)
           /\ Live' = Live
<1>1. Live' = Live
  BY DEF Live
<1>2. \A n : Unreferenced(n)' <=> Unreferenced(n)
  BY <1>1 DEF Unreferenced
<1> QED BY <1>1, <1>2
     DEF Inv, RowShape, BlobsOwnedOnce, PendingUnlinksUnreferenced, UnlinkShape

LEMMA InvRecoverBlobs ==
    ASSUME Inv, RecoverBlobs
    PROVE  Inv'
<1> USE ConstantsAssumption
<1>1. /\ phase = "down" /\ db = Free /\ phase' = "sweep_blobs" /\ db' = Server
      /\ sweep' = {n \in Names : blobs[n] # Absent /\ Unreferenced(n)}
      /\ UNCHANGED <<generation, entries, trash, blobs, blobsDisk, tmp, tmpDisk, req, snap,
                     now, crashes>>
  BY DEF RecoverBlobs, sqlVars, fsVars
<1>2. TypeOK'
  BY <1>1 DEF Inv, TypeOK, Phases, Holders
<1>3. \A t \in Tasks : req'[t].pc = "idle"
  BY <1>1 DEF Inv, StartupQuiet
<1>4. ReferencedBlobsIntact'
  BY <1>1 DEF Inv, ReferencedBlobsIntact, Intact, Live
<1>5. MutexHeld' /\ StagedBlobOwned' /\ TempsOwned' /\ StartupQuiet'
  BY <1>1, <1>3 DEF Inv, MutexHeld, StagedBlobOwned, TempsOwned, StartupQuiet, InTransaction
<1>6. SweepExact' /\ RecoveryLeavesNoOrphans'
  BY <1>1, RowsAndRequestsKept DEF SweepExact, RecoveryLeavesNoOrphans
<1> QED BY <1>1, <1>2, <1>4, <1>5, <1>6, RowsAndRequestsKept DEF Inv

LEMMA InvRecoverRemove ==
    ASSUME Inv, NEW n \in Names \union Temps, RecoverRemove(n)
    PROVE  Inv'
<1> USE ConstantsAssumption
<1>1. /\ n \in sweep /\ sweep' = sweep \ {n} /\ phase \in {"sweep_blobs", "sweep_tmp"}
      /\ UNCHANGED <<generation, entries, trash, db, req, phase, snap, now, crashes>>
  BY DEF RecoverRemove, sqlVars
<1>2. \A t \in Tasks : req[t].pc = "idle"
  BY <1>1 DEF Inv, StartupQuiet
<1>3. MutexHeld' /\ StagedBlobOwned' /\ TempsOwned' /\ StartupQuiet'
  BY <1>1, <1>2 DEF Inv, MutexHeld, StagedBlobOwned, TempsOwned, StartupQuiet, InTransaction
<1>4. CASE phase = "sweep_blobs"
  <2>1. /\ blobs' = Unlinked(blobs, n) /\ blobsDisk' = UnlinkedDisk(blobsDisk, n)
        /\ UNCHANGED <<tmp, tmpDisk>>
    BY <1>4 DEF RecoverRemove
  <2>2. n \in Names /\ Unreferenced(n)
    BY <1>1, <1>4 DEF Inv, SweepExact
  <2>3. /\ blobs'[n] = Absent
        /\ \A m \in Names : m # n => blobs'[m] = blobs[m] /\ blobsDisk'[m] = blobsDisk[m]
        /\ blobs' \in [Names -> FileStates] /\ blobsDisk' \in [Names -> SUBSET FileStates]
    BY <2>1, <2>2 DEF Inv, TypeOK, Unlinked, UnlinkedDisk, FileStates
  <2>4. TypeOK'
    BY <1>1, <2>1, <2>3 DEF Inv, TypeOK
  <2>5. ReferencedBlobsIntact'
    <3>1. \A p \in Live : entries[p].blob \in Names /\ entries[p].blob # n
      BY <2>2, LiveRowTypes DEF Unreferenced
    <3>2. \A i \in trash : i.blob \in Names /\ i.blob # n
      BY <2>2, LiveRowTypes DEF Unreferenced
    <3> QED BY <1>1, <2>3, <3>1, <3>2 DEF Inv, ReferencedBlobsIntact, Intact, Live
  <2>6. SweepExact'
    BY <1>1, <1>4, <2>1, <2>3, RowsAndRequestsKept DEF Inv, SweepExact
  <2>7. RecoveryLeavesNoOrphans'
    BY <1>1, <1>4 DEF RecoveryLeavesNoOrphans
  <2> QED BY <1>1, <1>3, <2>4, <2>5, <2>6, <2>7, RowsAndRequestsKept DEF Inv
<1>5. CASE phase = "sweep_tmp"
  <2>1. /\ tmp' = Unlinked(tmp, n) /\ tmpDisk' = UnlinkedDisk(tmpDisk, n)
        /\ UNCHANGED <<blobs, blobsDisk>>
    BY <1>5 DEF RecoverRemove
  <2>2. /\ \A m \in Temps : tmp'[m] # Absent => tmp[m] # Absent /\ m # n
        /\ tmp' \in [Temps -> FileStates] /\ tmpDisk' \in [Temps -> SUBSET FileStates]
    BY <2>1 DEF Inv, TypeOK, Unlinked, UnlinkedDisk, FileStates
  <2>3. TypeOK'
    BY <1>1, <2>1, <2>2 DEF Inv, TypeOK
  <2>4. ReferencedBlobsIntact'
    BY <1>1, <2>1 DEF Inv, ReferencedBlobsIntact, Intact, Live
  <2>5. SweepExact'
    BY <1>1, <1>5, <2>1, <2>2, RowsAndRequestsKept DEF Inv, SweepExact
  <2>6. RecoveryLeavesNoOrphans'
    BY <1>1, <1>5, <2>1, RowsAndRequestsKept DEF Inv, RecoveryLeavesNoOrphans
  <2> QED BY <1>1, <1>3, <2>3, <2>4, <2>5, <2>6, RowsAndRequestsKept DEF Inv
<1> QED BY <1>1, <1>4, <1>5

LEMMA InvRecoverFails ==
    ASSUME Inv, NEW n \in Names \union Temps, RecoverFails(n)
    PROVE  Inv'
<1> USE ConstantsAssumption
<1>1. /\ phase = "sweep_blobs" /\ phase' = "down" /\ db' = Free /\ sweep' = {}
      /\ UNCHANGED <<generation, entries, trash, blobs, blobsDisk, tmp, tmpDisk, req, snap,
                     now, crashes>>
  BY DEF RecoverFails, sqlVars, fsVars
<1>2. TypeOK'
  BY <1>1 DEF Inv, TypeOK, Phases, Holders
<1>3. ReferencedBlobsIntact'
  BY <1>1 DEF Inv, ReferencedBlobsIntact, Intact, Live
<1>4. MutexHeld' /\ StagedBlobOwned' /\ TempsOwned' /\ StartupQuiet'
  BY <1>1 DEF Inv, MutexHeld, StagedBlobOwned, TempsOwned, StartupQuiet, InTransaction
<1>5. SweepExact' /\ RecoveryLeavesNoOrphans'
  BY <1>1 DEF SweepExact, RecoveryLeavesNoOrphans
<1> QED BY <1>1, <1>2, <1>3, <1>4, <1>5, RowsAndRequestsKept DEF Inv

LEMMA InvRecoverMisses ==
    ASSUME Inv, NEW n \in Names \union Temps, RecoverMisses(n)
    PROVE  Inv'
<1> USE ConstantsAssumption
<1>1. /\ phase = "sweep_blobs" /\ blobs[n] = Absent /\ sweep' = sweep \ {n}
      /\ UNCHANGED <<generation, entries, trash, blobs, blobsDisk, tmp, tmpDisk, db, req,
                     phase, snap, now, crashes>>
  BY DEF RecoverMisses, sqlVars, fsVars
<1>2. TypeOK'
  BY <1>1 DEF Inv, TypeOK
<1>3. ReferencedBlobsIntact'
  BY <1>1 DEF Inv, ReferencedBlobsIntact, Intact, Live
<1>4. MutexHeld' /\ StagedBlobOwned' /\ TempsOwned' /\ StartupQuiet'
  BY <1>1 DEF Inv, MutexHeld, StagedBlobOwned, TempsOwned, StartupQuiet, InTransaction
<1>5. SweepExact'
  BY <1>1, RowsAndRequestsKept DEF Inv, SweepExact
<1>6. RecoveryLeavesNoOrphans'
  BY <1>1 DEF RecoveryLeavesNoOrphans
<1> QED BY <1>1, <1>2, <1>3, <1>4, <1>5, <1>6, RowsAndRequestsKept DEF Inv

LEMMA InvRecoverTmp ==
    ASSUME Inv, RecoverTmp
    PROVE  Inv'
<1> USE ConstantsAssumption
<1>1. /\ phase = "sweep_blobs" /\ sweep = {} /\ phase' = "sweep_tmp"
      /\ blobsDisk' = Synced(blobs, blobsDisk)
      /\ sweep' = {n \in Temps : tmp[n] # Absent}
      /\ UNCHANGED <<generation, entries, trash, blobs, tmp, tmpDisk, db, req, snap, now,
                     crashes>>
  BY DEF RecoverTmp, sqlVars
<1>2. /\ blobsDisk' \in [Names -> SUBSET FileStates]
      /\ \A n \in Names : blobs[n] # Absent => blobsDisk'[n] = blobsDisk[n] \ {Absent}
      /\ \A n \in Names : blobs[n] = Absent => blobsDisk'[n] = {Absent}
  BY <1>1, SyncedSettles DEF Inv, TypeOK
<1>3. TypeOK'
  BY <1>1, <1>2 DEF Inv, TypeOK, Phases
<1>4. ReferencedBlobsIntact'
  <2>1. ASSUME NEW b \in Names, NEW d, Intact(b, d) PROVE Intact(b, d)'
    BY <1>1, <1>2, <2>1 DEF Intact
  <2> QED BY <1>1, <2>1, LiveRowTypes DEF Inv, ReferencedBlobsIntact, Live
<1>5. MutexHeld' /\ StagedBlobOwned' /\ TempsOwned' /\ StartupQuiet'
  BY <1>1 DEF Inv, MutexHeld, StagedBlobOwned, TempsOwned, StartupQuiet, InTransaction
<1>6. SweepExact'
  BY <1>1, RowsAndRequestsKept DEF Inv, SweepExact
<1>7. RecoveryLeavesNoOrphans'
  BY <1>1, <1>2, RowsAndRequestsKept DEF Inv, SweepExact, RecoveryLeavesNoOrphans
<1> QED BY <1>1, <1>3, <1>4, <1>5, <1>6, <1>7, RowsAndRequestsKept DEF Inv

LEMMA InvRecoverDone ==
    ASSUME Inv, RecoverDone
    PROVE  Inv'
<1> USE ConstantsAssumption
<1>1. /\ phase = "sweep_tmp" /\ sweep = {} /\ phase' = "recovered" /\ db' = Free
      /\ tmpDisk' = Synced(tmp, tmpDisk)
      /\ UNCHANGED <<generation, entries, trash, blobs, blobsDisk, tmp, req, sweep, snap,
                     now, crashes>>
  BY DEF RecoverDone, sqlVars
<1>2. /\ tmpDisk' \in [Temps -> SUBSET FileStates]
      /\ \A n \in Temps : tmp[n] = Absent => tmpDisk'[n] = {Absent}
  BY <1>1, SyncedSettles DEF Inv, TypeOK
<1>3. TypeOK'
  BY <1>1, <1>2 DEF Inv, TypeOK, Phases, Holders
<1>4. ReferencedBlobsIntact'
  BY <1>1 DEF Inv, ReferencedBlobsIntact, Intact, Live
<1>5. MutexHeld' /\ StagedBlobOwned' /\ TempsOwned' /\ StartupQuiet'
  BY <1>1 DEF Inv, MutexHeld, StagedBlobOwned, TempsOwned, StartupQuiet, InTransaction
<1>6. SweepExact' /\ RecoveryLeavesNoOrphans'
  BY <1>1, <1>2 DEF Inv, SweepExact, RecoveryLeavesNoOrphans
<1> QED BY <1>1, <1>3, <1>4, <1>5, <1>6, RowsAndRequestsKept DEF Inv

\* The listener is bound, or closed after the last request.
LEMMA InvServeShutdown ==
    ASSUME Inv, Serve \/ Shutdown
    PROVE  Inv'
<1> USE ConstantsAssumption
<1>1. /\ phase \in {"recovered", "purging", "serving"} /\ phase' \in {"serving", "down"}
      /\ \A t \in Tasks : req[t].pc = "idle"
      /\ UNCHANGED <<generation, entries, trash, blobs, blobsDisk, tmp, tmpDisk, db, req,
                     sweep, snap, now, crashes>>
  BY IdleRequest DEF Serve, Shutdown, sqlVars, fsVars
<1>2. TypeOK'
  BY <1>1 DEF Inv, TypeOK, Phases
<1>3. ReferencedBlobsIntact'
  BY <1>1 DEF Inv, ReferencedBlobsIntact, Intact, Live
<1>4. MutexHeld' /\ StagedBlobOwned' /\ TempsOwned' /\ StartupQuiet'
  BY <1>1 DEF Inv, MutexHeld, StagedBlobOwned, TempsOwned, StartupQuiet, InTransaction
<1>5. SweepExact' /\ RecoveryLeavesNoOrphans'
  BY <1>1 DEF Inv, SweepExact, RecoveryLeavesNoOrphans
<1> QED BY <1>1, <1>2, <1>3, <1>4, <1>5, RowsAndRequestsKept DEF Inv

\* A kill and a power loss: the requests of the server are gone, and every
\* file keeps one of the contents that were possible for it.
LEMMA InvCrash ==
    ASSUME Inv, Killed \/ PowerLoss
    PROVE  Inv'
<1> USE ConstantsAssumption
<1>1. /\ phase' = "down" /\ db' = Free /\ sweep' = {} /\ crashes' = crashes + 1
      /\ UNCHANGED <<generation, entries, trash, snap, now>>
  BY DEF Killed, PowerLoss, sqlVars
<1>2. /\ req' \in [Actors -> Request]
      /\ \A t \in Actors : req'[t] = Idle \/ req'[t] = req[t]
      /\ \A t \in Tasks : req'[t] = Idle
  BY IdleRequest DEF Killed, PowerLoss, Inv, TypeOK, Actors
<1>3. /\ blobs' \in [Names -> FileStates] /\ blobsDisk' \in [Names -> SUBSET FileStates]
      /\ tmp' \in [Temps -> FileStates] /\ tmpDisk' \in [Temps -> SUBSET FileStates]
  <2>1. CASE Killed
    <3>1. UNCHANGED <<blobs, blobsDisk, tmp, tmpDisk>>
      BY <2>1 DEF Killed, fsVars
    <3> QED BY <3>1 DEF Inv, TypeOK
  <2>2. CASE PowerLoss
    BY <2>2 DEF PowerLoss
  <2> QED BY <2>1, <2>2
<1>12. ASSUME NEW n \in Names
       PROVE  \/ blobs'[n] = blobs[n] /\ blobsDisk'[n] = blobsDisk[n]
              \/ blobs'[n] \in blobsDisk[n] /\ blobsDisk'[n] = {blobs'[n]}
  <2>1. CASE Killed
    <3>1. blobs' = blobs /\ blobsDisk' = blobsDisk
      BY <2>1 DEF Killed, fsVars
    <3> QED BY <3>1
  <2>2. CASE PowerLoss
    BY <2>2 DEF PowerLoss
  <2> QED BY <2>1, <2>2
<1>4. TypeOK'
  BY <1>1, <1>2, <1>3 DEF Inv, TypeOK, Phases, Holders
<1>5. Live' = Live
  BY <1>1 DEF Live
<1>6. RowShape' /\ BlobsOwnedOnce'
  BY <1>1, <1>5 DEF Inv, RowShape, BlobsOwnedOnce
<1>7. ReferencedBlobsIntact'
  <2>1. ASSUME NEW b \in Names, NEW d, Intact(b, d) PROVE Intact(b, d)'
    BY <1>12, <2>1 DEF Intact
  <2> QED BY <1>1, <1>5, <2>1, LiveRowTypes DEF Inv, ReferencedBlobsIntact
<1>8. PendingUnlinksUnreferenced'
  BY <1>1, <1>2, <1>5, IdleRequest DEF Inv, PendingUnlinksUnreferenced, Unreferenced
<1>9. UnlinkShape'
  BY <1>2, IdleRequest DEF Inv, UnlinkShape, Actors
<1>10. MutexHeld' /\ StagedBlobOwned' /\ TempsOwned' /\ StartupQuiet'
  BY <1>1, <1>2, IdleRequest
     DEF MutexHeld, StagedBlobOwned, TempsOwned, StartupQuiet, InTransaction
<1>11. SweepExact' /\ RecoveryLeavesNoOrphans'
  BY <1>1 DEF SweepExact, RecoveryLeavesNoOrphans
<1> QED BY <1>4, <1>6, <1>7, <1>8, <1>9, <1>10, <1>11 DEF Inv

LEMMA InvWriteback ==
    ASSUME Inv, Writeback
    PROVE  Inv'
<1> USE ConstantsAssumption
<1>1. UNCHANGED <<generation, entries, trash, blobs, tmp, db, req, phase, sweep, snap, now,
                  crashes>>
  BY DEF Writeback, sqlVars
<1>2. /\ blobsDisk' \in [Names -> SUBSET FileStates] /\ tmpDisk' \in [Temps -> SUBSET FileStates]
      /\ \A n \in Names : blobsDisk'[n] = {blobs[n]}
      /\ \A n \in Temps : tmpDisk'[n] = {tmp[n]}
  BY DEF Writeback, Inv, TypeOK
<1>3. TypeOK'
  BY <1>1, <1>2 DEF Inv, TypeOK
<1>4. ReferencedBlobsIntact'
  BY <1>1, <1>2, LiveRowTypes DEF Inv, ReferencedBlobsIntact, Intact, Live
<1>5. MutexHeld' /\ StartupQuiet' /\ SweepExact'
  BY <1>1, RowsAndRequestsKept DEF Inv, MutexHeld, StartupQuiet, SweepExact
<1>6. TempsOwned'
  BY <1>1, <1>2 DEF Inv, TempsOwned
<1>7. StagedBlobOwned'
  BY <1>1, <1>2, RowsAndRequestsKept DEF Inv, StagedBlobOwned
<1>8. RecoveryLeavesNoOrphans'
  BY <1>1, <1>2, RowsAndRequestsKept DEF Inv, SweepExact, RecoveryLeavesNoOrphans
<1> QED BY <1>1, <1>3, <1>4, <1>5, <1>6, <1>7, <1>8, RowsAndRequestsKept DEF Inv

\* Time passes, or nothing happens.
LEMMA InvTickStutter ==
    ASSUME Inv, Tick \/ UNCHANGED vars
    PROVE  Inv'
<1>1. /\ UNCHANGED <<generation, entries, trash, blobs, blobsDisk, tmp, tmpDisk, db, req,
                     phase, sweep, snap, crashes>>
      /\ now' \in Nat
  BY DEF Tick, vars, sqlVars, fsVars, Inv, TypeOK
<1>2. TypeOK'
  BY <1>1 DEF Inv, TypeOK
<1>3. ReferencedBlobsIntact'
  BY <1>1 DEF Inv, ReferencedBlobsIntact, Intact, Live
<1>4. MutexHeld' /\ StartupQuiet' /\ SweepExact' /\ TempsOwned' /\ StagedBlobOwned'
  BY <1>1, RowsAndRequestsKept
     DEF Inv, MutexHeld, StartupQuiet, SweepExact, TempsOwned, StagedBlobOwned
<1>5. RecoveryLeavesNoOrphans'
  BY <1>1, RowsAndRequestsKept DEF Inv, RecoveryLeavesNoOrphans
<1> QED BY <1>1, <1>2, <1>3, <1>4, <1>5, RowsAndRequestsKept DEF Inv

-----------------------------------------------------------------------------
(* The theorems *)

LEMMA InitInv == Init => Inv
<1> SUFFICES ASSUME Init PROVE Inv
  OBVIOUS
<1> USE ConstantsAssumption
<1>1. TypeOK
  BY IdleRequest DEF Init, TypeOK, NoRow, Entry, FileStates, Holders, Phases
<1>2. Live = {}
  BY DEF Init, Live, NoRow
<1>3. \A t \in Actors : req[t].pc = "idle" /\ req[t].unlink = {} /\ req[t].temp = Null
  BY IdleRequest DEF Init
<1>4. /\ RowShape /\ ReferencedBlobsIntact /\ BlobsOwnedOnce /\ PendingUnlinksUnreferenced
  BY <1>2, <1>3
     DEF Init, NoRow, RowShape, ReferencedBlobsIntact, BlobsOwnedOnce, PendingUnlinksUnreferenced
<1>5. MutexHeld /\ UnlinkShape /\ TempsOwned /\ StagedBlobOwned
  BY <1>3 DEF Init, Actors, MutexHeld, UnlinkShape, TempsOwned, StagedBlobOwned, InTransaction
<1>6. StartupQuiet /\ SweepExact /\ RecoveryLeavesNoOrphans
  BY <1>3 DEF Init, Actors, StartupQuiet, SweepExact, RecoveryLeavesNoOrphans
<1> QED BY <1>1, <1>4, <1>5, <1>6 DEF Inv

LEMMA NextInv == Inv /\ [Next]_vars => Inv'
<1> SUFFICES ASSUME Inv, [Next]_vars PROVE Inv'
  OBVIOUS
<1>1. ASSUME NEW t \in Tasks, Upload(t) PROVE Inv'
  <2>1. CASE \E p \in Paths, c \in Contents, base \in 0..generation : UploadBody(t, p, base, c)
    BY <2>1, InvUploadBody
  <2>2. CASE SyncFile(t)
    BY <2>2, InvSyncFile
  <2>3. CASE BodyFailed(t) \/ UploadCancelled(t) \/ CommitConflict(t) \/ CommitFailed(t)
    BY <2>3, AbandonCases, InvAbandon
  <2>4. CASE CommitRename(t)
    BY <2>4, InvCommitRename
  <2>5. CASE SyncBlobs(t)
    BY <2>5, InvSyncBlobs
  <2>6. CASE SyncTmp(t)
    BY <2>6, InvSyncTmp
  <2>7. CASE TxCommit(t)
    BY <2>7, InvTxCommit
  <2>8. CASE TxCommitError(t)
    BY <2>8, InvTxCommitError
  <2> QED BY <1>1, <2>1, <2>2, <2>3, <2>4, <2>5, <2>6, <2>7, <2>8 DEF Upload
<1>2. ASSUME NEW t \in Tasks, PurgeExpired(t) PROVE Inv'
  BY <1>2, InvDropRows DEF PurgeExpired, Expired, Actors
<1>3. ASSUME NEW t \in Actors, UnlinkBlob(t) \/ UnlinkFailed(t) PROVE Inv'
  BY <1>3, InvUnlink
<1>4. ASSUME NEW p \in Paths, Delete(p) \/ Properties(p) PROVE Inv'
  BY <1>4, InvDelete, InvProperties
<1>5. ASSUME NEW i \in trash, Restore(i) PROVE Inv'
  BY <1>5, InvRestore
<1>6. ASSUME NEW i \in trash, PurgeTrashItem(i) PROVE Inv'
  BY <1>6, InvDropRows DEF PurgeTrashItem, Actors
<1>7. ASSUME DirectoryDelete PROVE Inv'
  BY <1>7, InvDirectoryDelete
<1>8. ASSUME NEW name \in Components, DirectoryRename(name) PROVE Inv'
  BY <1>8, InvDirectoryRename
<1>9. ASSUME Recovery PROVE Inv'
  <2>1. ASSUME NEW t \in Tasks, StartupPurge(t) PROVE Inv'
    BY <2>1, InvDropRows DEF StartupPurge, Expired, Actors
  <2> QED BY <1>9, <2>1, InvRecoverBlobs, InvRecoverTmp, InvRecoverDone, InvServeShutdown,
             InvRecoverRemove, InvRecoverFails, InvRecoverMisses DEF Recovery
<1> QED BY <1>1, <1>2, <1>3, <1>4, <1>5, <1>6, <1>7, <1>8, <1>9, InvServeShutdown, InvCrash,
           InvWriteback, InvTickStutter DEF Next

\* The rows, the two directories, the requests and the phase keep the types
\* the code gives them, in every behaviour of the storage.
THEOREM TypeCorrect == Spec => []TypeOK
<1>1. Inv => TypeOK
  BY DEF Inv
<1> QED BY <1>1, InitInv, NextInv, PTL DEF Spec

\* A durable SQLite reference never precedes, and never outlives, its blob:
\* whatever uploads, deletions, renames, purges, administrator and recovery do,
\* and whenever the power fails, every row's blob is on disk with its content.
THEOREM BlobsSurvive == Spec => []ReferencedBlobsIntact
<1>1. Inv => ReferencedBlobsIntact
  BY DEF Inv
<1> QED BY <1>1, InitInv, NextInv, PTL DEF Spec

\* Every blob belongs to one row, and nothing that is still going to be
\* unlinked outside the mutex belongs to any.
THEOREM BlobsOwned == Spec => [](BlobsOwnedOnce /\ PendingUnlinksUnreferenced)
<1>1. Inv => BlobsOwnedOnce /\ PendingUnlinksUnreferenced
  BY DEF Inv
<1> QED BY <1>1, InitInv, NextInv, PTL DEF Spec

\* Startup recovery cleans both directories for good, after any sequence of
\* crashes, cancellations and failures.
THEOREM RecoveryCleans == Spec => []RecoveryLeavesNoOrphans
<1>1. Inv => RecoveryLeavesNoOrphans
  BY DEF Inv
<1> QED BY <1>1, InitInv, NextInv, PTL DEF Spec
=============================================================================
