---------------------------- MODULE MCLockServer -----------------------------
(***************************************************************************)
(* Small instances of LockServer: two children and a pid to spare for the  *)
(* flusher and for reuse.                                                  *)
(***************************************************************************)
EXTENDS LockServer, TLC

=============================================================================
