---------------------------- MODULE MCEditorPage ----------------------------
(* Instances of EditorPage for model checking. *)
EXTENDS EditorPage

CONSTANTS t1, t2

MCTexts == {t1, t2}
\* A file with both kinds of line ends, and another one.
MCFiles == {[text |-> t1, eol |-> "mixed"], [text |-> t2, eol |-> "lf"]}
MCForeign == MCFiles \union {Deleted}

\* Edits, openings, locks and runs together, a run from the click on.
Clicked == starting # Null /\ starting.at = "flush"
Three == edits + generation + Len(runTexts) + (IF Clicked THEN 1 ELSE 0) <= 3
=============================================================================
