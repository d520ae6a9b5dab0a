----------------------------- MODULE MCSyncStore -----------------------------
(***************************************************************************)
(* Instances of SyncStore for TLC.                                         *)
(***************************************************************************)
EXTENDS SyncStore, TLC

CONSTANTS n1, n2, u1, u2, t1, t2, c1, c2

\* One file, and two: nothing below anything.
OnePath == {<<"a">>}
TwoPaths == {<<"a">>, <<"b">>}

\* A file or directory a or b with a file x in it.
TreeComponents == {"a", "b", "x"}
TreePaths == {<<"a">>, <<"b">>, <<"a", "x">>, <<"b", "x">>}

TwoNames == {n1, n2}
OneTemp == {u1}
TwoTemps == {u1, u2}
OneTask == {t1}
TwoTasks == {t1, t2}

OneContent == {c1}
TwoContents == {c1, c2}

\* Names, tasks and contents are only ever compared for equality.
Symmetry == Permutations(Names) \union Permutations(Temps)
            \union Permutations(Tasks) \union Permutations(Contents)
=============================================================================
