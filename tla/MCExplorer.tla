----------------------------- MODULE MCExplorer -----------------------------
(* Instances of Explorer for model checking. *)
EXTENDS Explorer

\* The directory 1 and the file 2 in the root, the file 3 in the directory.
MCHome == <<0, 0, 1>>
=============================================================================
