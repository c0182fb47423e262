---------------------------- MODULE MCScriptCache ----------------------------
(***************************************************************************)
(* Instances of ScriptCache: a page that is edited while it is requested,  *)
(* and breaks and is mended again.                                         *)
(***************************************************************************)
EXTENDS ScriptCache

=============================================================================
