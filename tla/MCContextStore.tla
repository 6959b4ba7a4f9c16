--------------------------- MODULE MCContextStore ---------------------------
(* Instances of ContextStore small enough for TLC.                         *)
EXTENDS ContextStore, TLC

\* The processes do not differ.
MCSymmetry == Permutations(Procs)
=============================================================================
