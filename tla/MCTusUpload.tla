---------------------------- MODULE MCTusUpload ----------------------------
(* An instance of TusUpload small enough for TLC.                          *)
EXTENDS TusUpload
=============================================================================
