---------------------------- MODULE MCHttpRetry ----------------------------
(* Instances of HttpRetry small enough for TLC.                            *)
EXTENDS HttpRetry
=============================================================================
