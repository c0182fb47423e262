------------------------------ MODULE MCLogFile ------------------------------
(***************************************************************************)
(* Small instances of LogFile: lines of three lengths and a buffer that    *)
(* holds one or two of them, so that writes flush it, exactly fill it and  *)
(* leave room.                                                             *)
(***************************************************************************)
EXTENDS LogFile, TLC

CONSTANTS l1, l2, l3

MCLineLen == [l \in Lines |-> CASE l = l1 -> 1 [] l = l2 -> 2 [] l = l3 -> 3]

=============================================================================
