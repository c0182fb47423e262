------------------------------ MODULE HttpChild ------------------------------
(***************************************************************************)
(* One child of the server between two accepts: HttpChild.run() and        *)
(* errorHandler() of src/httpd/child.js over the request and response      *)
(* objects of src/httpd/request.js and src/httpd/response.js, with the     *)
(* watchdog of src/src/watchdog.cpp.                                       *)
(*                                                                         *)
(* A request is named by the value of requestsHandled while it is served.  *)
(* What the handlers of the application do is any sequence of calls on the *)
(* response: write, sendFile, stop, or an exception of their own.  `buf'   *)
(* holds for each byte of the response buffer the request that wrote it,   *)
(* `wire' what was sent on the connection, grouped by request.  `Allow'    *)
(* names the things outside the child that may go wrong:                   *)
(*   "stall"   a client stops reading, so that a write to it blocks;       *)
(*   "shrink"  a file gets shorter while it is sent, or cannot be opened;  *)
(*   "loop"    a handler loops forever after it sent a file;               *)
(*   "stopped" a handler catches the exception of res.stop() and goes on,  *)
(*             as Jst.executeParsed() does, to write Jst.evalError()'s page. *)
(* What else may be odd about a response is in its `odd':                  *)
(*   "cut"     its header lost its end: it had a character that is not     *)
(*             ASCII, and net.write() sends as many bytes of it as it has  *)
(*             characters;                                                 *)
(*   "late"    a handler added to it after its header was sent with a file;*)
(*   "over"    it has bytes from past the end of a string in memory.       *)
(***************************************************************************)
EXTENDS Naturals, Sequences

CONSTANTS
  RequestsPerChild,   \* Config.requestsPerChild
  Watchdog,           \* Config.watchdogTimeout is not 0
  Sizes,              \* the sizes of files
  Allow,              \* what may go wrong, see above
  MaxConns,           \* bound: the connections accepted
  MaxOps              \* bound: calls a handler makes on the response

ASSUME ConstantsOK ==
  /\ RequestsPerChild \in Nat \ {0}
  /\ Watchdog \in BOOLEAN
  /\ Sizes \subseteq Nat
  /\ Allow \subseteq {"stall", "shrink", "loop", "stopped"}
  /\ MaxConns \in Nat /\ MaxOps \in Nat

VARIABLES
  pc,           \* where the child is
  handled,      \* requestsHandled
  keepAlive,    \* the local variable of run()
  armed,        \* the alarm is set
  buf,          \* the response buffer
  headersSent,  \* res.headersSent
  announced,    \* res.headers.Connection is "Keep-Alive"
  file,         \* the size of the file being sent, or 0
  wire,         \* the responses sent on the connection
  copies,       \* Config.sendFile is false
  reading,      \* the client reads what is sent to it
  conns, ops    \* counts of what the bounds bound

response == <<buf, headersSent, announced, file>>
client == <<wire, reading, conns>>
vars == <<pc, handled, keepAlive, armed, buf, headersSent, announced,
          file, wire, copies, reading, conns, ops>>

Serving == {"handle", "send", "stuck", "error", "end", "flush"}

Init ==
  /\ pc = "accept"
  /\ handled = 0
  /\ keepAlive = FALSE
  /\ armed = FALSE
  /\ buf = <<>>
  /\ headersSent = FALSE
  /\ announced = FALSE
  /\ file = 0
  /\ wire = <<>>
  /\ copies \in BOOLEAN
  /\ reading = TRUE
  /\ conns = 0
  /\ ops = 0

-----------------------------------------------------------------------------
\* Connections.

\* Mutant of Accept: the loop does not test the limit of requests.
Accept_NoLimit ==
  /\ pc = "accept"
  /\ conns < MaxConns
  /\ conns' = conns + 1
  /\ pc' = "read"
  /\ keepAlive' = TRUE
  /\ armed' = FALSE
  /\ wire' = <<>>
  /\ reading' = TRUE
  /\ UNCHANGED <<handled, response, ops, copies>>

\* watchdog.clear() and a connection.
Accept ==
  /\ pc = "accept" /\ handled < RequestsPerChild
  /\ conns < MaxConns
  /\ conns' = conns + 1
  /\ pc' = "read"
  /\ keepAlive' = TRUE
  /\ armed' = FALSE
  /\ wire' = <<>>
  /\ reading' = TRUE
  /\ UNCHANGED <<handled, response, ops, copies>>

\* The child has served its requests: res.close() and process.exit(0).
Exit ==
  /\ pc = "accept" /\ handled >= RequestsPerChild
  /\ pc' = "exited"
  /\ UNCHANGED <<handled, keepAlive, armed, response, client, ops, copies>>

\* net.close(), req.close(), watchdog.clear().
Close ==
  /\ pc = "close"
  /\ pc' = "accept"
  /\ armed' = FALSE
  /\ UNCHANGED <<handled, keepAlive, response, client, ops, copies>>

-----------------------------------------------------------------------------
\* Requests.

\* req.init() is false: the client closed the connection, or sent no complete
\* request for five seconds.
ReadNothing ==
  /\ pc = "read"
  /\ handled' = handled + 1
  /\ keepAlive' = (keepAlive /\ handled + 1 <= RequestsPerChild)
  /\ pc' = "close"
  /\ UNCHANGED <<armed, response, client, ops, copies>>

\* req.init() throws, on a request line without a uri.
ReadThrows ==
  /\ pc = "read"
  /\ handled' = handled + 1
  /\ keepAlive' = (keepAlive /\ handled + 1 <= RequestsPerChild)
  /\ pc' = "error"
  /\ UNCHANGED <<armed, response, client, ops, copies>>

Unsent(r) == [req |-> r, heads |-> 0, len |-> 0, body |-> 0,
              from |-> {}, ka |-> FALSE, odd |-> {}]

\* Mutant of ResInit: the buffer of the last response is kept.
ResInit_KeepsBuffer(ka) ==
  /\ buf' = buf
  /\ headersSent' = FALSE
  /\ announced' = ka
  /\ file' = 0

\* Mutant of ResInit: headersSent of the last response is kept.
ResInit_KeepsSent(ka) ==
  /\ buf' = <<>>
  /\ headersSent' = headersSent
  /\ announced' = ka
  /\ file' = 0

\* Mutant of ResInit: the limit of requests is not announced.
ResInit_IgnoresLimit(ka) ==
  /\ buf' = <<>>
  /\ headersSent' = FALSE
  /\ announced' = TRUE
  /\ file' = 0

\* res.init(): ka is what it returns.
ResInit(ka) ==
  /\ buf' = <<>>
  /\ headersSent' = FALSE
  /\ announced' = ka
  /\ file' = 0

\* Mutant of ReadRequest: the watchdog is not set.
ReadRequest_NoAlarm(asked) ==
  LET ka == asked /\ keepAlive /\ handled + 1 <= RequestsPerChild IN
  /\ pc = "read"
  /\ handled' = handled + 1
  /\ ResInit(ka)
  /\ keepAlive' = ka
  /\ wire' = Append(wire, Unsent(handled + 1))
  /\ ops' = 0
  /\ pc' = "handle"
  /\ UNCHANGED <<armed, reading, conns, copies>>

\* A request is read.  `asked' is that it has a Connection header (whatever its
\* value); the watchdog is set for it.
ReadRequest(asked) ==
  LET ka == asked /\ keepAlive /\ handled + 1 <= RequestsPerChild IN
  /\ pc = "read"
  /\ handled' = handled + 1
  /\ ResInit(ka)
  /\ keepAlive' = ka
  /\ armed' = (armed \/ Watchdog)
  /\ wire' = Append(wire, Unsent(handled + 1))
  /\ ops' = 0
  /\ pc' = "handle"
  /\ UNCHANGED <<reading, conns, copies>>

-----------------------------------------------------------------------------
\* Handlers.

MayAdd == ops < MaxOps

\* What is added to a response after its header was sent comes too late for it.
Added ==
  IF wire[Len(wire)].heads = 0 THEN wire
  ELSE [wire EXCEPT ![Len(wire)].odd = @ \cup {"late"}]

\* res.write().
Write ==
  /\ pc = "handle" /\ MayAdd
  /\ buf' = Append(buf, handled)
  /\ wire' = Added
  /\ ops' = ops + 1
  /\ UNCHANGED <<pc, handled, keepAlive, armed, headersSent, announced,
                 file, reading, conns, copies>>

\* res.sendFile() up to its first write: watchdog.clear(), res.reset() and the
\* size of the file.
SendFile(size) ==
  /\ pc = "handle" /\ MayAdd
  /\ armed' = FALSE
  /\ buf' = <<>>
  /\ wire' = Added
  /\ file' = size
  /\ ops' = ops + 1
  /\ pc' = "send"
  /\ UNCHANGED <<handled, keepAlive, headersSent, announced, reading, conns, copies>>

\* The last response of the connection after the headers, unless they are sent
\* already, and n bytes of requests `from'; `odd' is what is odd about that.
Grown(r, len, n, from, odd) ==
  [req   |-> r.req,
   heads |-> IF headersSent THEN r.heads ELSE r.heads + 1,
   len   |-> IF headersSent THEN r.len ELSE len,
   ka    |-> IF headersSent THEN r.ka ELSE announced,
   body  |-> r.body + n,
   from  |-> r.from \cup from,
   odd   |-> r.odd \cup odd]

Sent(len, n, from, odd) ==
  [wire EXCEPT ![Len(wire)] = Grown(wire[Len(wire)], len, n, from, odd)]

\* sendHeaders() writes out.length bytes of the UTF-8 of `out'.
Header == IF headersSent THEN {{}} ELSE {{}, {"cut"}}

\* sendHeaders() and sendfile(2) until all of the file is sent.
FileSent ==
  /\ pc = "send" /\ reading /\ ~copies
  /\ \E odd \in Header : wire' = Sent(file, file, {handled}, odd)
  /\ headersSent' = TRUE
  /\ file' = 0
  /\ pc' = "handle"
  /\ UNCHANGED <<handled, keepAlive, armed, buf, announced,
                 reading, conns, ops, copies>>

\* Without sendfile(2), net.read() and net.write() of as many bytes as the file
\* had.  If it has become shorter, or cannot be opened, the string that is written
\* (for the latter "null") is shorter than that, and what follows it in memory,
\* which earlier requests used, is written with it.
FileCopied ==
  /\ pc = "send" /\ reading /\ copies
  /\ \E odd \in Header :
       \/ wire' = Sent(file, file, {handled}, odd)
       \/ /\ "shrink" \in Allow /\ file > 0
          /\ wire' = Sent(file, file, 1..handled, odd \cup {"over"})
  /\ headersSent' = TRUE
  /\ file' = 0
  /\ pc' = "handle"
  /\ UNCHANGED <<handled, keepAlive, armed, buf, announced,
                 reading, conns, ops, copies>>

\* A write to the socket or a read of the file fails, or sendfile() cannot open it:
\* an exception, of which the headers may be the cause.
FileFails ==
  /\ pc = "send"
  /\ \/ UNCHANGED wire
     \/ \E odd \in Header : wire' = Sent(file, 0, {}, odd)
  /\ headersSent' = TRUE
  /\ file' = 0
  /\ pc' = "error"
  /\ UNCHANGED <<handled, keepAlive, armed, buf, announced,
                 reading, conns, ops, copies>>

\* The file is shorter than its size was, or sendfile(2) sent only a part of it and
\* the offset, which it moves itself, is moved again: it returns 0 for ever.
FileShrinks ==
  /\ pc = "send" /\ ~copies /\ "shrink" \in Allow
  /\ \E odd \in Header : wire' = Sent(file, 0, {}, odd)
  /\ headersSent' = TRUE
  /\ pc' = "stuck"
  /\ UNCHANGED <<handled, keepAlive, armed, buf, announced, file,
                 reading, conns, ops, copies>>

\* The client has the file: status 304 and res.stop() out of res.sendFile().
NotModified ==
  /\ pc = "handle" /\ MayAdd
  /\ armed' = FALSE
  /\ buf' = <<>>
  /\ pc' = "end"
  /\ UNCHANGED <<handled, keepAlive, headersSent, announced, file,
                 client, ops, copies>>

\* res.reset(): by notFound().
ResetBuffer ==
  /\ pc = "handle" /\ buf # <<>>
  /\ buf' = <<>>
  /\ UNCHANGED <<pc, handled, keepAlive, armed, headersSent, announced,
                 file, client, ops, copies>>

\* res.stop(): watchdog.clear() and throw 'RES.STOP'.
Stop ==
  /\ pc = "handle"
  /\ armed' = FALSE
  /\ \/ pc' = "end" /\ UNCHANGED ops
     \/ "stopped" \in Allow /\ ops < MaxOps /\ ops' = ops + 1 /\ UNCHANGED pc
  /\ UNCHANGED <<handled, keepAlive, response, client, copies>>

\* A handler that returns: an action, requestHandler or the page's own code.
Return ==
  /\ pc = "handle"
  /\ pc' = "end"
  /\ UNCHANGED <<handled, keepAlive, armed, response, client, ops, copies>>

Throw ==
  /\ pc = "handle"
  /\ pc' = "error"
  /\ UNCHANGED <<handled, keepAlive, armed, response, client, ops, copies>>

\* A handler that does not return.
Loop ==
  /\ pc = "handle"
  /\ headersSent => "loop" \in Allow
  /\ pc' = "stuck"
  /\ UNCHANGED <<handled, keepAlive, armed, response, client, ops, copies>>

-----------------------------------------------------------------------------
\* The end of a request.

\* errorHandler() writes its page, or error_action() returns; the connection is
\* closed, without res.flush() and without endRequest().
ErrorPage ==
  /\ pc = "error"
  /\ buf' = <<handled>>
  /\ keepAlive' = FALSE
  /\ armed' = FALSE
  /\ pc' = "close"
  /\ UNCHANGED <<handled, headersSent, announced, file, client, ops, copies>>

\* errorHandler() fails itself, or error_action() calls res.stop():
\* process.exit().
ErrorExit ==
  /\ pc = "error"
  /\ pc' = "dead"
  /\ UNCHANGED <<handled, keepAlive, armed, response, client, ops, copies>>

\* HttpChild.endRequest(), which may throw out of run().
EndRequest ==
  /\ pc = "end"
  /\ pc' \in {"flush", "dead"}
  /\ UNCHANGED <<handled, keepAlive, armed, response, client, ops, copies>>

NothingToSend == headersSent /\ buf = <<>>
FlushedWire(odd) ==
  Sent(Len(buf), Len(buf), {buf[i] : i \in DOMAIN buf}, odd)

\* Mutant of Flush: the watchdog is not cleared at the end of the loop.
Flush_KeepsAlarm ==
  /\ pc = "flush" /\ (reading \/ NothingToSend)
  /\ \E odd \in Header : wire' = FlushedWire(odd)
  /\ headersSent' = TRUE
  /\ buf' = <<>>
  /\ pc' = IF keepAlive THEN "read" ELSE "close"
  /\ UNCHANGED <<handled, keepAlive, armed, announced, file, reading,
                 conns, ops, copies>>

\* res.flush(), res.reset(), the line of the log, watchdog.clear().
Flush ==
  /\ pc = "flush" /\ (reading \/ NothingToSend)
  /\ \E odd \in Header : wire' = FlushedWire(odd)
  /\ headersSent' = TRUE
  /\ buf' = <<>>
  /\ armed' = FALSE
  /\ pc' = IF keepAlive THEN "read" ELSE "close"
  /\ UNCHANGED <<handled, keepAlive, announced, file, reading, conns, ops, copies>>

\* A write in res.flush() throws: before the headers are on the wire or after.
FlushFails ==
  /\ pc = "flush" /\ ~NothingToSend
  /\ headersSent' = TRUE
  /\ \/ UNCHANGED wire
     \/ buf # <<>> /\ \E odd \in Header : wire' = Sent(Len(buf), 0, {}, odd)
  /\ keepAlive' = FALSE
  /\ pc' = "close"
  /\ UNCHANGED <<handled, armed, buf, announced, file, reading, conns, ops, copies>>

\* The alarm goes off: exit(0) in its handler.
WatchdogFires ==
  /\ armed /\ pc \notin {"exited", "dead"}
  /\ pc' = "dead"
  /\ UNCHANGED <<handled, keepAlive, armed, response, client, ops, copies>>

\* SIGPIPE, which nothing handles, from a write to a client that is gone; or a
\* file too large for the stack that net.read() takes it on.
BrokenPipe ==
  /\ pc \in {"send", "flush"}
  /\ pc = "flush" => ~NothingToSend
  /\ pc' = "dead"
  /\ UNCHANGED <<handled, keepAlive, armed, response, client, ops, copies>>

\* The client stops reading.
ClientStalls ==
  /\ "stall" \in Allow /\ reading /\ pc \in Serving \cup {"read"}
  /\ reading' = FALSE
  /\ UNCHANGED <<pc, handled, keepAlive, armed, response, wire, conns, ops, copies>>

Handler ==
  \/ Write \/ (\E size \in Sizes : SendFile(size)) \/ NotModified
  \/ ResetBuffer \/ Stop \/ Return \/ Throw \/ Loop

Request == ReadNothing \/ ReadThrows \/ \E asked \in BOOLEAN : ReadRequest(asked)

Sending == FileSent \/ FileCopied \/ FileFails \/ FileShrinks

Finish == ErrorPage \/ ErrorExit \/ EndRequest \/ Flush \/ FlushFails \/ Close

Next ==
  \/ Accept \/ Exit \/ Request \/ Handler \/ Sending \/ Finish
  \/ WatchdogFires \/ BrokenPipe \/ ClientStalls

Spec == Init /\ [][Next]_vars

\* The child runs when it can: a request arrives or req.init() gives up after
\* five seconds, a handler ends its calls (ops bounds them) unless it loops,
\* a write ends if the client reads, and an alarm that stays set goes off.
\* No write has to fail and no client to stall.
Fairness ==
  /\ WF_vars(Request) /\ WF_vars(Handler) /\ WF_vars(FileSent \/ FileCopied)
  /\ WF_vars(ErrorPage \/ ErrorExit) /\ WF_vars(EndRequest)
  /\ WF_vars(Flush) /\ WF_vars(Close) /\ WF_vars(WatchdogFires)

FairSpec == Spec /\ Fairness

-----------------------------------------------------------------------------
Responses ==
  [req : 1..RequestsPerChild + 1, heads : Nat, len : Nat, body : Nat,
   from : SUBSET (1..RequestsPerChild + 1), ka : BOOLEAN,
   odd : SUBSET {"cut", "late", "over"}]

\* Every variable has its type; a child never goes past its limit of requests
\* by more than the one that it announces as the last.
TypeOK ==
  /\ pc \in Serving \cup {"accept", "read", "close", "exited", "dead"}
  /\ handled \in 0..RequestsPerChild + 1
  /\ keepAlive \in BOOLEAN
  /\ armed \in BOOLEAN
  /\ buf \in Seq(1..RequestsPerChild + 1)
  /\ headersSent \in BOOLEAN
  /\ announced \in BOOLEAN
  /\ file \in Nat
  /\ wire \in Seq(Responses)
  /\ copies \in BOOLEAN
  /\ reading \in BOOLEAN
  /\ conns \in 0..MaxConns
  /\ ops \in 0..MaxOps

\* A response carries no byte that another request wrote: neither an error page
\* left in the buffer nor what a failed flush did not send; unless it has bytes
\* from past the end of a string.
OwnBytes ==
  \A i \in DOMAIN wire : "over" \notin wire[i].odd => wire[i].from \subseteq {wire[i].req}

\* A handler broke the framing of the response, by its header or by adding to it.
Spoiled(r) == r.odd \cap {"cut", "late"} # {}

Complete(r) == r.heads = 1 /\ r.len = r.body /\ ~Spoiled(r)

\* The child reads the next request of a connection only when each response
\* before it is complete, one header and as many bytes as it announced, or was
\* spoiled by its handler; not after any failure of its own.
Framed == pc = "read" => \A i \in DOMAIN wire : Complete(wire[i]) \/ Spoiled(wire[i])

\* After a complete response the connection is kept if and only if its header
\* said so.
KeepAliveHonoured ==
  [][pc = "flush" /\ pc' \in {"read", "close"} /\ Complete(wire'[Len(wire')])
       => (pc' = "read" <=> wire'[Len(wire')].ka)]_vars

\* The handler runs for ever and one of its calls on the response cleared the
\* watchdog before: res.sendFile(), or a res.stop() whose exception it caught.
Unwatched == pc = "stuck" /\ ~armed /\ ops > 0

\* A request ends: its connection is closed or waits for another request, or
\* the process ends.  Only a client that stops reading, and a loop after the
\* watchdog was cleared, hold the child for ever.
RequestEnds == pc \in Serving ~> pc \notin Serving \/ ~reading \/ Unwatched

-----------------------------------------------------------------------------
\* What the client of the connection sees: the responses that are done with, the
\* one to the request being served not among them.
ConnState ==
  CASE pc = "accept" -> "closed"
    [] pc = "read" -> "waiting"
    [] pc \in Serving -> "serving"
    [] pc = "close" -> "closing"
    [] OTHER -> "ended"
Answered ==
  IF pc \in Serving /\ wire # <<>> /\ wire[Len(wire)].req = handled
    THEN Len(wire) - 1
    ELSE Len(wire)
Told(r) ==
  [req |-> r.req, whole |-> Complete(r), spoiled |-> Spoiled(r), ka |-> r.ka]
Answers == [i \in 1..Answered |-> Told(wire[i])]

\* The child implements Connection: however handlers, files, writes and clients
\* fail, requests are answered in order, the next one is read after an answer that
\* announced it, whole or spoiled by its handler, and no alarm ends a child that
\* waits.
Conn == INSTANCE Connection WITH
  Limit <- RequestsPerChild,
  state <- ConnState,
  answers <- Answers,
  served <- handled
RefinesConnection == Conn!Spec
=============================================================================
