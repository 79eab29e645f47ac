------------------------------- MODULE ZOrder --------------------------------
(***************************************************************************)
(* z_order of src/kernel/gui.cpp as a sequence, from bottom to top: what   *)
(* Desktop, which windows there are and what presses do, and Placement,    *)
(* where they are, have in common.                                         *)
(***************************************************************************)
EXTENDS Integers, Sequences, SequencesExt

CONSTANT Icons      \* the applications with an icon on the desktop

None == "none"

\* z_remove
Removed(z, s) == RemoveFirst(z, s)

\* z_bring_to_top
Raised(z, s) == IF s \in ToSet(z) THEN Append(Removed(z, s), s) ELSE z
=============================================================================
