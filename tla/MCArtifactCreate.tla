-------------------------- MODULE MCArtifactCreate --------------------------
(* Instances of ArtifactCreate small enough for TLC.                       *)
EXTENDS ArtifactCreate, TLC

CONSTANTS file1, file2

MCFiles == <<file1, file2>>

\* The processes do not differ.
MCSymmetry == Permutations(Procs)
=============================================================================
