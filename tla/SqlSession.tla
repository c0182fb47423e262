------------------------------ MODULE SqlSession ------------------------------
(***************************************************************************)
(* The MySQL session of a child of the server: src/modules/MySQL.js over   *)
(* src/src/mysql.cpp.  A child has one connection, made when it starts     *)
(* (src/httpd/child.js:448) and used by the handlers of all its requests.  *)
(* Every call pings the server first and connects again, silently, when the *)
(* connection is gone; the server rolls back what a lost session had open. *)
(*                                                                         *)
(* A row <<r, i>> stands for the effect of the i-th update() of request r. *)
(* The server and libmysqlclient are external: what they do is taken from  *)
(* how mysql.cpp uses them and from the options it sets.                   *)
(***************************************************************************)
EXTENDS Naturals, Sequences

CONSTANTS
  Handlers,      \* the handlers of requests: [does, catches], the calls it makes
                 \* and whether it rolls back on an exception, as MySQL.js:25-37
  MaxRequests,   \* bound: the requests
  MaxDrops       \* bound: the times the connection is lost

Calls == {"start", "update", "commit"}

ASSUME ConstantsOK ==
  /\ Handlers \subseteq [does : Seq(Calls), catches : BOOLEAN]
  /\ MaxRequests \in Nat /\ MaxDrops \in Nat

VARIABLES
  pc,       \* "new": to connect, "idle": between requests, "call": in a handler,
            \* "query": in a call, the server has answered the ping
  at,       \* the position of the call that the handler makes next
  undo,     \* it makes the rollback() of its catch
  handler,  \* handler[r] is the handler of request r
  outcome,  \* outcome[r]: what the last call of request r that ended said
  link,     \* "up", "down": lost, "none": not made yet
  auto,     \* libmysqlclient reconnects on its own
  open,     \* the client's last answer said that a transaction is open
  pending,  \* the rows of the transaction that the server has open
  durable,  \* the rows committed
  cut,      \* the requests whose transaction was open when a call reconnected
  unsure,   \* the requests that a commit() failed in which may have committed
  drops     \* counts lost connections

server == <<link, auto, open, pending, durable>>
vars == <<pc, at, undo, handler, outcome, server, cut, unsure, drops>>

req == Len(handler)

Ended == ~undo /\ at > Len(handler[req].does)

\* The call that the handler is at.
Now == IF undo THEN "rollback" ELSE handler[req].does[at]

Init ==
  /\ pc = "new" /\ at = 1 /\ undo = FALSE
  /\ handler = <<>> /\ outcome = <<>>
  /\ link = "none" /\ auto = FALSE /\ open = FALSE
  /\ pending = {} /\ durable = {}
  /\ cut = {} /\ unsure = {} /\ drops = 0

\* The child starts and connects, with MYSQL_OPT_RECONNECT.
Connect ==
  /\ pc = "new"
  /\ pc' = "idle"
  /\ link' = "up" /\ auto' = TRUE /\ open' = FALSE
  /\ UNCHANGED <<at, undo, handler, outcome, pending, durable, cut, unsure, drops>>

\* A request whose handler is h.
Request(h) ==
  /\ pc = "idle" /\ req < MaxRequests
  /\ pc' = "call" /\ at' = 1 /\ undo' = FALSE
  /\ handler' = Append(handler, h)
  /\ outcome' = Append(outcome, "running")
  /\ UNCHANGED <<server, cut, unsure, drops>>

-----------------------------------------------------------------------------
\* The request ends and leaves the session as it is.
LeaveSession == pc' = "idle" /\ undo' = FALSE

\* The handler returns, or calls Server.endRequest().
EndRequest ==
  /\ pc = "call" /\ Ended
  /\ UNCHANGED <<at, handler, outcome, server, cut, unsure, drops>>
  /\ LeaveSession

\* Mutant of Fails: the handler goes on to commit what it has.
Fails_Commits ==
  IF handler[req].catches /\ Now = "update"
    THEN pc' = "call" /\ at' = Len(handler[req].does) /\ UNCHANGED undo
    ELSE LeaveSession /\ UNCHANGED at

\* The call throws: the handler rolls back if it has a `try' around the call,
\* else the exception ends the request (child.js:493-499).
Fails ==
  /\ UNCHANGED at
  /\ IF handler[req].catches /\ Now \in {"update", "commit"}
       THEN pc' = "call" /\ undo' = TRUE
       ELSE LeaveSession

\* The process ends: a signal, the watchdog, or mysql.cpp using a NULL handle.
\* The server rolls back, and the master forks another child.
Die ==
  /\ pc' = "new" /\ undo' = FALSE
  /\ link' = "none" /\ auto' = FALSE /\ open' = FALSE /\ pending' = {}
  /\ UNCHANGED <<at, handler, outcome, durable, cut, unsure, drops>>

Killed == pc # "new" /\ Die

\* The connection is lost; the server rolls back its transaction.
Drop ==
  /\ link = "up" /\ drops < MaxDrops
  /\ link' = "down" /\ pending' = {} /\ drops' = drops + 1
  /\ UNCHANGED <<pc, at, undo, handler, outcome, auto, open, durable, cut, unsure>>

-----------------------------------------------------------------------------
Calling == pc = "call" /\ ~Ended

\* HANDLE(): the ping is answered.
Ping ==
  /\ Calling /\ link = "up"
  /\ pc' = "query"
  /\ UNCHANGED <<at, undo, handler, outcome, server, cut, unsure, drops>>

\* Mutant of PingReconnects: in a transaction too.
PingReconnects_InTransaction ==
  /\ Calling /\ link = "down" /\ auto
  /\ pc' = "query" /\ link' = "up" /\ open' = FALSE
  /\ UNCHANGED <<at, undo, handler, outcome, auto, pending, durable, cut, unsure,
                 drops>>

\* HANDLE() on a lost connection: libmysqlclient reconnects in the ping, unless
\* a transaction was open.
PingReconnects ==
  /\ Calling /\ link = "down" /\ auto /\ ~open
  /\ pc' = "query" /\ link' = "up"
  /\ UNCHANGED <<at, undo, handler, outcome, auto, open, pending, durable, cut,
                 unsure, drops>>

\* HANDLE() connects anew after the ping failed, and the call goes on, whatever
\* the session was in the middle of.  The new handle does not reconnect in a ping.
HandleReconnects ==
  /\ Calling /\ link = "down"
  /\ pc' = "query"
  /\ link' = "up" /\ auto' = FALSE /\ open' = FALSE
  /\ cut' = IF open /\ Now \in {"update", "commit"} THEN cut \cup {req} ELSE cut
  /\ UNCHANGED <<at, undo, handler, outcome, pending, durable, unsure, drops>>

\* HANDLE() cannot connect: it throws and returns NULL, which the call uses.
NullHandle == Calling /\ link = "down" /\ Die

-----------------------------------------------------------------------------
Row == <<req, at>>

\* Mutant of Committed: rollback() sends what commit() sends.
Committed_Rollback(c) ==
  CASE c \in {"start", "commit", "rollback"} -> durable \cup pending
    [] c = "update" /\ ~open -> durable \cup {Row}
    [] OTHER -> durable

\* What is committed once the server has executed call c: a transaction that is
\* open when another starts is committed.
Committed(c) ==
  CASE c \in {"start", "commit"} -> durable \cup pending
    [] c = "update" /\ ~open -> durable \cup {Row}
    [] OTHER -> durable

\* What is pending then.
Uncommitted(c) ==
  CASE c = "update" /\ open -> pending \cup {Row}
    [] c = "update" /\ ~open -> pending
    [] OTHER -> {}

Execute(c) == durable' = Committed(c) /\ pending' = Uncommitted(c)

\* The call returns to the handler.
Returns(c) ==
  /\ pc' = "call" /\ undo' = FALSE
  /\ at' = IF undo THEN Len(handler[req].does) + 1 ELSE at + 1
  /\ open' = CASE c = "start" -> TRUE [] c = "update" -> open [] OTHER -> FALSE
  /\ outcome' = [outcome EXCEPT ![req] = c]

\* The server answers.
Answered ==
  /\ pc = "query" /\ link = "up"
  /\ Execute(Now) /\ Returns(Now)
  /\ UNCHANGED <<handler, link, auto, cut, unsure, drops>>

\* The call of the handler throws.
Throws == Fails /\ outcome' = [outcome EXCEPT ![req] = "error"]

\* The server refuses the statement: an error in it, a constraint.
Refused ==
  /\ pc = "query" /\ link = "up" /\ Now \in {"update", "commit"}
  /\ UNCHANGED <<handler, server, cut, unsure, drops>>
  /\ Throws

\* The connection is lost after the server executed the call and before the
\* client has the answer.
AnswerLost ==
  /\ pc = "query" /\ link = "up" /\ drops < MaxDrops
  /\ durable' = Committed(Now) /\ pending' = {}
  /\ link' = "down" /\ drops' = drops + 1
  /\ unsure' = IF Now = "commit" THEN unsure \cup {req} ELSE unsure
  /\ UNCHANGED <<handler, auto, open, cut>>
  /\ Throws

\* The connection was lost since the ping: libmysqlclient reconnects and sends
\* the call again, unless a transaction was open.
Resent ==
  /\ pc = "query" /\ link = "down" /\ auto /\ ~open
  /\ Execute(Now) /\ Returns(Now)
  /\ link' = "up"
  /\ UNCHANGED <<handler, auto, cut, unsure, drops>>

\* The connection was lost since the ping, and the call throws.
SendFails ==
  /\ pc = "query" /\ link = "down"
  /\ open' = FALSE
  /\ UNCHANGED <<handler, link, auto, pending, durable, cut, unsure, drops>>
  /\ Throws

Next ==
  \/ Connect \/ (\E h \in Handlers : Request(h)) \/ EndRequest \/ Killed \/ Drop
  \/ Ping \/ PingReconnects \/ HandleReconnects \/ NullHandle
  \/ Answered \/ Refused \/ AnswerLost \/ Resent \/ SendFails

Spec == Init /\ [][Next]_vars

-----------------------------------------------------------------------------
\* What request r would have committed.
Rows(r) == {<<r, i>> : i \in {j \in DOMAIN handler[r].does :
                                handler[r].does[j] = "update"}}

\* Every variable has its type, and a process that is new has no session.
TypeOK ==
  /\ pc \in {"new", "idle", "call", "query"}
  /\ at \in Nat \ {0} /\ undo \in BOOLEAN
  /\ handler \in Seq(Handlers) /\ req <= MaxRequests
  /\ outcome \in Seq(Calls \cup {"rollback", "running", "error"}) /\ Len(outcome) = req
  /\ link \in {"up", "down", "none"} /\ auto \in BOOLEAN /\ open \in BOOLEAN
  /\ pending \subseteq (1..req) \X Nat /\ durable \subseteq (1..req) \X Nat
  /\ cut \subseteq 1..req /\ unsure \subseteq 1..req
  /\ drops \in 0..MaxDrops
  /\ (pc = "new") <=> (link = "none")
  /\ pc = "new" => ~open
  /\ link # "up" => pending = {}
  /\ undo => pc \in {"call", "query"}
  /\ pc \in {"call", "query"} => req > 0 /\ at <= Len(handler[req].does) + 1
  /\ pc = "query" => ~Ended

\* A transaction as MySQL.js:25-37 has it.
Documented(r) ==
  LET does == handler[r].does IN
  /\ handler[r].catches
  /\ Len(does) >= 2 /\ does[1] = "start" /\ does[Len(does)] = "commit"
  /\ \A i \in 2..(Len(does) - 1) : does[i] = "update"

\* The documented transaction is committed as a whole or not at all, whatever
\* fails in it and whichever requests follow in the same session, unless a call
\* in it connected again.
AllOrNothing ==
  \A r \in (1..req) \ cut :
    Documented(r) => durable \cap Rows(r) \in {{}, Rows(r)}

Kept(r) == outcome[r] = "commit" /\ Documented(r) => Rows(r) \subseteq durable

\* When commit() returned, all the request did is committed, unless a call
\* connected again in the transaction.
CommitKeeps == \A r \in (1..req) \ cut : Kept(r)

\* "Commit a MySQL transaction" (MySQL.js:330): when commit() returned, what the
\* documented handler did is committed.
CommitCommits == \A r \in 1..req : Kept(r)

\* When rollback() returned, nothing of the transaction is committed, then or
\* later, unless a call connected again in it or the answer to its commit() was
\* lost.
RollbackUndoes ==
  \A r \in (1..req) \ (cut \cup unsure) :
    outcome[r] = "rollback" /\ Documented(r) => durable \cap Rows(r) = {}
=============================================================================
