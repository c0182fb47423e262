------------------------------ MODULE Connection ------------------------------
(***************************************************************************)
(* What src/httpd promises a client of a child: its requests are answered  *)
(* one by one and in the order they were sent; the next is read only after *)
(* an answer that announced it and is whole, or else was spoiled by the    *)
(* application; and the child is not ended while it waits for one.  There  *)
(* are no buffers, headers or alarms here.                                 *)
(***************************************************************************)
EXTENDS Naturals, Sequences

CONSTANT
  Limit     \* the requests after which a child keeps no connection

VARIABLES
  state,    \* of the connection, and "ended" when there is no child
  answers,  \* what was answered on the connection
  served    \* the number of requests the child has taken up

vars == <<state, answers, served>>

\* The answer to the request that is served: `whole' is that it is complete and
\* nothing else, `spoiled' that its handler gave it a header that is not ASCII or
\* went on after the header, `ka' that it announces that the connection is kept.
Answer(whole, spoiled, ka) ==
  [req |-> served, whole |-> whole, spoiled |-> spoiled, ka |-> ka]

Init ==
  /\ state = "closed"
  /\ answers = <<>>
  /\ served = 0

Open ==
  /\ state = "closed" /\ served < Limit
  /\ state' = "waiting"
  /\ answers' = <<>>
  /\ UNCHANGED served

Retire ==
  /\ state = "closed" /\ served >= Limit
  /\ state' = "ended"
  /\ UNCHANGED <<answers, served>>

\* A request, or none: the client is silent, or gone.
Ask ==
  /\ state = "waiting"
  /\ served' = served + 1
  /\ state' \in {"serving", "closing"}
  /\ UNCHANGED answers

Reply(whole, ka) ==
  /\ state = "serving"
  /\ ka => served <= Limit
  /\ answers' = Append(answers, Answer(whole, ~whole, ka))
  /\ state' = IF ka THEN "waiting" ELSE "closing"
  /\ UNCHANGED served

\* Something fails: the client has no answer, or a part of one, or a whole one
\* after which the connection is closed whatever it announced.
Fail ==
  /\ state = "serving"
  /\ state' \in {"closing", "ended"}
  /\ \/ UNCHANGED answers
     \/ \E whole, spoiled, ka \in BOOLEAN :
          answers' = Append(answers, Answer(whole, spoiled, ka))
  /\ UNCHANGED served

Shut ==
  /\ state = "closing"
  /\ state' \in {"closed", "ended"}
  /\ UNCHANGED <<answers, served>>

Next ==
  \/ Open \/ Retire \/ Ask \/ (\E whole, ka \in BOOLEAN : Reply(whole, ka))
  \/ Fail \/ Shut

Spec == Init /\ [][Next]_vars

\* Answers belong to consecutive requests, and each but the last is whole, or
\* spoiled, and announced that there may be another.
InOrder ==
  \A i \in DOMAIN answers :
    /\ answers[i].req <= served
    /\ i < Len(answers) => /\ answers[i].whole \/ answers[i].spoiled
                           /\ answers[i].ka
                           /\ answers[i + 1].req = answers[i].req + 1
=============================================================================
