-------------------------- MODULE MCQueueCommands --------------------------
(* Instances of QueueCommands small enough for TLC.                        *)
EXTENDS QueueCommands, TLC

Users == Permutations(Terminals)
=============================================================================
