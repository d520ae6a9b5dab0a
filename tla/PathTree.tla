------------------------------ MODULE PathTree ------------------------------
(***************************************************************************)
(* Synchronised paths and the file/directory namespace they share.         *)
(*                                                                         *)
(* A path of the server is a string of components separated by '/'; here   *)
(* it is the sequence of its components.  Directories are not stored: one  *)
(* exists exactly while a live file lies below it, so a name must never be *)
(* both a live file and the directory of another live file.                *)
(***************************************************************************)
EXTENDS Naturals, Sequences, FiniteSets

CONSTANTS
    Components,  \* the names a path is made of
    Paths        \* the paths valid_path accepts

\* valid_path wants at least one component and at most 4096 bytes, and looks
\* at the components one by one: the directories of a valid path are valid.
ASSUME PathsAssumption ==
    /\ Paths \subseteq Seq(Components) \ {<<>>}
    /\ IsFiniteSet(Paths)
    /\ \A p \in Paths : \A n \in 1..Len(p) : SubSeq(p, 1, n) \in Paths

\* p lies strictly below the directory d: the string range [d/, d0) of the
\* SQL queries, which '/' + 1 = '0' makes the strings that start with "d/".
Below(d, p) == Len(d) < Len(p) /\ \A i \in 1..Len(d) : p[i] = d[i]

\* Mutant of NamespaceFree: only the ancestors are looked up.
NamespaceFreeAbove(live, path) == \A q \in live : ~Below(q, path)

\* The namespace check: no live ancestor of path, no live file below it.
NamespaceFree(live, path) == \A q \in live : ~Below(q, path) /\ ~Below(path, q)

\* The directory d renamed to name inside its parent.
Renamed(d, name) == [d EXCEPT ![Len(d)] = name]

\* Where the file p below d goes when d becomes target.
Moved(d, target, p) == target \o SubSeq(p, Len(d) + 1, Len(p))
=============================================================================
