-------------------------- MODULE MCUploadSessions --------------------------
(***************************************************************************)
(* Instances of UploadSessions for TLC.                                    *)
(***************************************************************************)
EXTENDS UploadSessions, TLC

CONSTANTS i1, i2, t1, t2, d1, p1

OneId == {i1}
TwoIds == {i1, i2}
OneTask == {t1}
TwoTasks == {t1, t2}
OneDevice == {d1}
OnePath == {p1}

\* One session at a time, ...
Untouched(id) == rows[id] = Null /\ loc[id] = "none" /\ id \notin active
Single == \E id \in Ids : Untouched(id)

\* ... and two, or those of a browser: files of one unit, in their first revision, where
\* nothing outlives its request; of two, both are what was announced.
Announced == {rows[id] : id \in Ids} \union {req[t].row : t \in Tasks}
Shared ==
    /\ late = {} /\ cutLate = {}
    /\ \A p \in Paths : revision[p] <= 1
    /\ \A row \in Announced \ {Null} : row.size <= 1 /\ (Single \/ row.honest)

Bounds == Shared \/ (Single /\ grant = 0)

\* Uploads and tasks are only compared for equality.
Symmetry == Permutations(Ids) \union Permutations(Tasks)
=============================================================================
