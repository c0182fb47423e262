---------------------------- MODULE MCHttpChild ------------------------------
(***************************************************************************)
(* Small instances of HttpChild: two connections, three requests, files of *)
(* no byte and of one.                                                     *)
(***************************************************************************)
EXTENDS HttpChild

MCSizes == {0, 1}
=============================================================================
