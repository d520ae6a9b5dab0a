---------------------------- MODULE MCWebSession ----------------------------
(* Instances of WebSession for model checking. *)
EXTENDS WebSession, TLC

CONSTANTS f1, f2, s1, d1, d2

\* The pages of the two kinds have cookies of their own: they need not be open together.
MCWindows == {FileTabs, StatusTabs}

Symmetry == Permutations(FileTabs) \union Permutations(Devices)
=============================================================================
