--------------------------- MODULE VersionedFiles ---------------------------
(***************************************************************************)
(* What the storage of the server promises, without SQLite, blobs,         *)
(* temporary files, worker threads or crashes: a set of files, each with   *)
(* the revision that wrote it and its content, and a bin of deleted files. *)
(* Every change takes effect at one instant, gets revisions nobody used    *)
(* before, and never puts a live file below another live file.             *)
(***************************************************************************)
EXTENDS PathTree, FiniteSets, Functions

CONSTANTS
    Contents,   \* what a file may hold
    Absent,     \* the content of a path that holds no file
    Retention   \* how long a deleted file stays in the bin

VARIABLES
    generation,  \* the last revision given out
    files,       \* files[p]: revision of p (0: never written) and its content
    bin,         \* deleted files, each with the time it may be destroyed
    now          \* the wall clock

vars == <<generation, files, bin, now>>

Version == [revision : Nat, content : Contents \union {Absent}]
BinItem == [id : Nat, path : Paths, content : Contents, expires_at : Nat]

Live == {p \in Paths : files[p].content # Absent}
Version0 == [revision |-> 0, content |-> Absent]

\* Revisions are handed out file by file, in some order of the files.
Orders(S) == Bijection(S, 1..Cardinality(S))

\* The identifier after the largest one of the bin's rows: it is not kept
\* when that row goes, so it may name another file later.
NextIds == {id \in {1} \union {i.id + 1 : i \in bin} : \A i \in bin : i.id < id}

Init ==
    /\ generation = 0
    /\ files = [p \in Paths |-> Version0]
    /\ bin = {}
    /\ now = 0

Publish(p, c) ==
    /\ NamespaceFree(Live, p)
    /\ generation' = generation + 1
    /\ files' = [files EXCEPT ![p] = [revision |-> generation + 1, content |-> c]]
    /\ UNCHANGED <<bin, now>>

BinEntry(id, p) == [id |-> id, path |-> p, content |-> files[p].content,
                    expires_at |-> now + Retention]

\* The files of S leave together; what they held goes to the bin.
Remove(S) ==
    \E ord \in Orders(S), id \in NextIds :
        /\ generation' = generation + Cardinality(S)
        /\ files' = [p \in Paths |->
                       IF p \in S
                       THEN [revision |-> generation + ord[p], content |-> Absent]
                       ELSE files[p]]
        /\ bin' = bin \union {BinEntry(id + ord[p] - 1, p) : p \in S}
        /\ UNCHANGED now

\* A directory moves as a whole onto a name nothing lives at, above or below.
Move(d, target) ==
    LET S == {p \in Live : Below(d, p)}
    IN  /\ S # {}
        /\ ~Below(d, target) /\ ~Below(target, d) /\ target # d
        /\ NamespaceFree(Live, target) /\ target \notin Live
        /\ \A p \in S : Moved(d, target, p) \in Paths
        /\ \E ord \in Orders(S) :
             /\ generation' = generation + 2 * Cardinality(S)
             /\ files' = [q \in Paths |->
                  IF q \in S
                  THEN [revision |-> generation + 2 * ord[q] - 1, content |-> Absent]
                  ELSE IF \E p \in S : q = Moved(d, target, p)
                  THEN LET p == CHOOSE p \in S : q = Moved(d, target, p)
                       IN  [revision |-> generation + 2 * ord[p],
                            content |-> files[p].content]
                  ELSE files[q]]
        /\ UNCHANGED <<bin, now>>

\* An unexpired item comes back under its old path, as a new revision.
Restore(i) ==
    /\ i.expires_at > now
    /\ NamespaceFree(Live, i.path) /\ i.path \notin Live
    /\ generation' = generation + 1
    /\ files' = [files EXCEPT ![i.path] =
                   [revision |-> generation + 1, content |-> i.content]]
    /\ bin' = bin \ {i}
    /\ UNCHANGED now

\* Expired items go together, or the administrator destroys one of them.
Expire ==
    /\ bin' = {i \in bin : i.expires_at > now}
    /\ UNCHANGED <<generation, files, now>>

Destroy(i) ==
    /\ bin' = bin \ {i}
    /\ UNCHANGED <<generation, files, now>>

Tick ==
    /\ now' = now + 1
    /\ UNCHANGED <<generation, files, bin>>

Next ==
    \/ \E p \in Paths, c \in Contents : Publish(p, c)
    \/ \E p \in Live : Remove({p})
    \/ \E d \in Paths : Remove({p \in Live : Below(d, p)})
    \/ \E d, target \in Paths : Move(d, target)
    \/ \E i \in bin : Restore(i) \/ Destroy(i)
    \/ Expire
    \/ Tick

Spec == Init /\ [][Next]_vars

-----------------------------------------------------------------------------
\* No live file is the directory of another, though a directory moves with all
\* its files after a check of its new root alone.
NamespaceSound == \A p, q \in Live : ~Below(p, q)

\* The content of a live file goes away only because a client replaced it:
\* otherwise it is in the bin under its path, or at a path that was free.
NothingLost ==
    [][\A p \in Live :
         \/ files'[p].content = files[p].content
         \/ bin' = bin /\ files'[p].content # Absent
         \/ \E i \in bin' \ bin : i.path = p /\ i.content = files[p].content
         \/ \E q \in Paths \ Live : files'[q].content = files[p].content]_vars
=============================================================================
