--------------------------- MODULE MCRequestStream ---------------------------
(***************************************************************************)
(* Two clients of RequestStream.  The first sends a request without a      *)
(* body, one with a body that has a null byte, and one without; the body   *)
(* of the second client's first request looks like the end of headers.     *)
(***************************************************************************)
EXTENDS RequestStream

Request(c, r, chars) ==
  LET sent == IF chars = <<>>
                THEN <<"line", "newline", "newline">>
                ELSE <<"line", "newline", "length", "newline", "newline">> \o chars
  IN [i \in DOMAIN sent |->
        [conn |-> c, req |-> r, char |-> sent[i],
         len |-> IF sent[i] = "length" THEN Len(chars) ELSE 0]]

MCStream ==
  <<Request(1, 1, <<>>) \o Request(1, 2, <<"data", "null">>) \o Request(1, 3, <<>>),
    Request(2, 1, <<"newline", "newline", "line">>) \o Request(2, 2, <<>>)>>

\* Numbered and Framed, with the streams named.
ASSUME ClientsOK == Numbered /\ Framed
=============================================================================
