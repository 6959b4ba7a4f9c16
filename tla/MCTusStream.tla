---------------------------- MODULE MCTusStream ----------------------------
(* An instance of TusStream small enough for TLC.                          *)
EXTENDS TusStream
=============================================================================
