---------------------------- MODULE MCFolderSync ----------------------------
(* Model-checking instance of FolderSync: servers of both kinds.            *)
EXTENDS FolderSync
=============================================================================
