------------------------------- MODULE MCFiles -------------------------------
(* The file table alone.                                                   *)
EXTENDS FileTable

MCFtInit == FtInit /\ part = "files"
MCFtNext == FtNext /\ UNCHANGED part
MCFtSpec == MCFtInit /\ [][MCFtNext]_<<ftVars, part>>
=============================================================================
