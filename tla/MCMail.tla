------------------------------- MODULE MCMail --------------------------------
(***************************************************************************)
(* Instances of Mail: things to write of one block and of two.             *)
(***************************************************************************)
EXTENDS Mail

CONSTANTS page, undefined, boundary, long, plain, other, mime

MCSize == [d \in Data |-> IF d \in {long, mime, other} THEN 2 ELSE 1]

MCSpool == [m \in Mails |-> IF m = mime THEN boundary ELSE undefined]
=============================================================================
