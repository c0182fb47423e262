----------------------------- MODULE MCSqlSession -----------------------------
(***************************************************************************)
(* The documented transaction, one that ends without commit() and does not *)
(* catch, and an update on its own.                                        *)
(***************************************************************************)
EXTENDS SqlSession

MCHandlers ==
  { [does |-> <<"start", "update", "update", "commit">>, catches |-> TRUE],
    [does |-> <<"start", "update", "update">>, catches |-> FALSE],
    [does |-> <<"update">>, catches |-> FALSE] }
=============================================================================
