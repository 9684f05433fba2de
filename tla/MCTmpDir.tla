------------------------------ MODULE MCTmpDir ------------------------------
(* An instance of TmpDir for TLC: all of its constants come from the .cfg.   *)
EXTENDS TmpDir
=============================================================================
