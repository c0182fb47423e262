------------------------------ MODULE MCRequire -------------------------------
(***************************************************************************)
(* Two modules in a directory of the path, and two in the directory modules *)
(* below it, of which one has the name of a module above.  Module a is      *)
(* required by its name from everywhere, so that cycles arise; module c is  *)
(* found by its name only from where modules is at hand, in lib.           *)
(***************************************************************************)
EXTENDS Require

CONSTANTS app, lib, sub, nowhere,  \* directories
          here, modules, usr,      \* entries of require.path
          a, b, c,                 \* names: a and c are plain
          libA, libB, subC, subB

MCDir == [f \in Files |-> IF f \in {libA, libB} THEN lib ELSE sub]

MCUnder ==
  [d \in Dirs |-> [e \in Entries |->
    CASE e = here -> d
      [] e = modules /\ d = lib -> sub
      [] e = usr /\ d = app -> lib
      [] OTHER -> nowhere]]

MCAt ==
  [d \in Dirs |-> [name \in Names |->
    CASE d = lib /\ name = a -> libA
      [] d = lib /\ name = b -> libB
      [] d = sub /\ name = c -> subC
      [] d = sub /\ name = b -> subB
      [] OTHER -> None]]

MCPath == <<here, modules, usr>>
=============================================================================
