-------------------------- MODULE MCArchiveResume --------------------------
(* Instances of ArchiveResume small enough for TLC.                        *)
EXTENDS ArchiveResume

MCNoChunking == -1
=============================================================================
