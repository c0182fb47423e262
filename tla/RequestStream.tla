---------------------------- MODULE RequestStream ----------------------------
(***************************************************************************)
(* How a child cuts requests out of what a client sends: req.init() and    *)
(* req.close() of src/httpd/request.js over the stream of                  *)
(* src/src/http.cpp, whose buffer FillBuffer() of src/src/SilkJS.h fills   *)
(* with select() and read().  A read that finds no byte for five seconds   *)
(* gives up: in the headers that ends the connection, in a body the        *)
(* request is handled all the same, its length made up with whatever the   *)
(* memory of the buffer held, the bodies of earlier requests among it.     *)
(*                                                                         *)
(* A byte knows the connection and the request it was sent in; `char' is   *)
(* what readHeaders() sees of it: "line" stands for a request line with a  *)
(* uri, "length" for a Content-Length header (its value is `len'),         *)
(* "newline", "null" for the bytes 0 and 255, and "data" for any other.    *)
(***************************************************************************)
EXTENDS Naturals, Sequences

CONSTANTS
  Stream,   \* Stream[c] is what the client of the c-th connection sends
  BufSize,  \* the size of the stream's buffer
  NoStream  \* req's stream is null

Chars == {"line", "length", "newline", "null", "data"}
Conns == DOMAIN Stream
Bytes == [conn : Conns, req : Nat, char : Chars, len : Nat]

\* A byte of the stack that no body left there.
Junk == [conn |-> 0, req |-> 0, char |-> "data", len |-> 0]

ASSUME ConstantsOK ==
  /\ Stream \in Seq(Seq(Bytes))
  /\ \A c \in Conns : \A i \in DOMAIN Stream[c] : Stream[c][i].conn = c
  /\ BufSize \in Nat \ {0}
  /\ NoStream \notin Seq(Bytes)

VARIABLES
  conn,      \* the number of the connection
  toSend,    \* what its client has still to send
  arrived,   \* what the kernel has and the child has not read
  open,      \* the client has not closed the connection
  stream,    \* buffer[pos..size-1] of req's stream, or NoStream
  pc,        \* where the child is
  newlines,  \* newlineCount of readHeaders()
  head,      \* the headers read so far
  need,      \* Content-Length
  body,      \* the body read so far
  handed,    \* the requests of this connection that were handled
  short,     \* a body of this connection did not come in full
  got,       \* how many bytes of the body arrived
  left,      \* what readPost() may find on the stack
  pulse      \* tells one call of select() from the next

client == <<conn, toSend, arrived, open>>
request == <<newlines, head, need, body, got>>
vars == <<conn, toSend, arrived, open, stream, pc, newlines, head, need, body,
          handed, short, got, left, pulse>>

Init ==
  /\ conn = 0
  /\ toSend = <<>>
  /\ arrived = <<>>
  /\ open = FALSE
  /\ stream = NoStream
  /\ pc = "accept"
  /\ newlines = 0
  /\ head = <<>>
  /\ need = 0
  /\ body = <<>>
  /\ handed = <<>>
  /\ short = FALSE
  /\ got = 0
  /\ left = {Junk}
  /\ pulse = FALSE

-----------------------------------------------------------------------------
\* The client.

Connect ==
  /\ pc = "accept" /\ conn + 1 \in Conns
  /\ conn' = conn + 1
  /\ toSend' = Stream[conn + 1]
  /\ arrived' = <<>>
  /\ open' = TRUE
  /\ handed' = <<>>
  /\ short' = FALSE
  /\ pc' = "init"
  /\ UNCHANGED <<stream, request, left, pulse>>

Send ==
  /\ open
  /\ \E n \in 1..Len(toSend) :
       /\ arrived' = arrived \o SubSeq(toSend, 1, n)
       /\ toSend' = SubSeq(toSend, n + 1, Len(toSend))
  /\ UNCHANGED <<conn, open, stream, pc, request, handed, short, left, pulse>>

Leave ==
  /\ open
  /\ open' = FALSE
  /\ UNCHANGED <<conn, toSend, arrived, stream, pc, request, handed, short, left, pulse>>

\* In five seconds one more byte of a header line that has begun, read as it
\* comes.  How long a line is does not matter here, nor is it limited.
Trickle ==
  /\ pc = "headers" /\ stream = <<>> /\ newlines = 0
  /\ open /\ arrived = <<>>
  /\ pulse' = ~pulse
  /\ UNCHANGED <<client, stream, pc, request, handed, short, left>>

-----------------------------------------------------------------------------
\* The child.

\* req.init(): a new stream if there is none.
InitRequest ==
  /\ pc = "init"
  /\ stream' = IF stream = NoStream THEN <<>> ELSE stream
  /\ newlines' = 0
  /\ head' = <<>>
  /\ need' = 0
  /\ body' = <<>>
  /\ got' = 0
  /\ pc' = "headers"
  /\ UNCHANGED <<client, handed, short, left, pulse>>

Reading == pc \in {"headers", "body"}

\* FillBuffer(): up to the size of the buffer of what has arrived.
Fill ==
  LET n == IF Len(arrived) < BufSize THEN Len(arrived) ELSE BufSize IN
  /\ Reading /\ stream = <<>> /\ arrived # <<>>
  /\ stream' = SubSeq(arrived, 1, n)
  /\ arrived' = SubSeq(arrived, n + 1, Len(arrived))
  /\ UNCHANGED <<conn, toSend, open, pc, request, handed, short, left, pulse>>

\* Mutant of NoByte: select() waits without a timeout.
NoByte_Waits == Reading /\ stream = <<>> /\ arrived = <<>> /\ ~open

\* Read() returns -1: five seconds without a byte, or the client is gone.
NoByte == Reading /\ stream = <<>> /\ arrived = <<>>

\* A body that was read stays on the stack until something else overwrites it.
LeftBy(b) == left \cup {b[i] : i \in DOMAIN b}

\* readHeaders() returns null, and req.init() false.
NoHeaders ==
  /\ NoByte /\ pc = "headers"
  /\ pc' = "close"
  /\ UNCHANGED <<client, stream, request, handed, short, left, pulse>>

\* readPost() returns as many bytes as it was asked for if it read one of them,
\* the others being what its `char buf[size]' held before, and false if it read
\* none.
ShortBody ==
  /\ NoByte /\ pc = "body"
  /\ IF body = <<>> THEN UNCHANGED body
     ELSE \E rest \in [(Len(body) + 1)..need -> left] :
            body' = [i \in 1..need |-> IF i \in DOMAIN body THEN body[i] ELSE rest[i]]
  /\ left' = LeftBy(body')
  /\ short' = TRUE
  /\ pc' = "handle"
  /\ UNCHANGED <<client, stream, newlines, head, need, got, handed, pulse>>

FirstLine(h) == {i \in DOMAIN h : \A j \in 1..i : h[j].char # "newline"}
HasUri(h) == \E i \in FirstLine(h) : h[i].char = "line"

\* The Content-Length of the headers, 0 if they have none.
Lengths(h) == {i \in DOMAIN h \ FirstLine(h) : h[i].char = "length"}
ContentLength(h) ==
  IF Lengths(h) = {} THEN 0
  ELSE h[CHOOSE i \in Lengths(h) : \A j \in Lengths(h) : j <= i].len

\* Mutant of Counted: newlineCount is not set back by other characters.
Counted_Sum(b) == IF b.char = "newline" THEN newlines + 1 ELSE newlines

\* newlineCount after byte b.
Counted(b) == IF b.char = "newline" THEN newlines + 1 ELSE 0

\* A byte of the headers.  The second of two newlines ends them; without a uri in
\* the first line req.init() throws, and the connection is closed.
HeaderByte ==
  /\ pc = "headers" /\ stream # NoStream /\ stream # <<>>
  /\ Head(stream).char # "null"
  /\ stream' = Tail(stream)
  /\ newlines' = Counted(Head(stream))
  /\ head' = Append(head, Head(stream))
  /\ \/ newlines' < 2 /\ UNCHANGED <<pc, need>>
     \/ /\ newlines' = 2
        /\ need' = ContentLength(head')
        /\ pc' = IF ~HasUri(head') THEN "close"
                 ELSE IF need' = 0 THEN "handle" ELSE "body"
  /\ UNCHANGED <<client, body, got, handed, short, left, pulse>>

\* A byte 0 or 255 is taken for the end of the connection.
NullByte ==
  /\ pc = "headers" /\ stream # NoStream /\ stream # <<>>
  /\ Head(stream).char = "null"
  /\ stream' = Tail(stream)
  /\ pc' = "close"
  /\ UNCHANGED <<client, request, handed, short, left, pulse>>

\* Mutant of BodyByte: reads one byte more than Content-Length.
BodyByte_OneMore ==
  /\ pc = "body" /\ stream # NoStream /\ stream # <<>>
  /\ stream' = Tail(stream)
  /\ body' = Append(body, Head(stream))
  /\ got' = Len(body')
  /\ \/ Len(body') <= need /\ UNCHANGED <<pc, left>>
     \/ Len(body') > need /\ pc' = "handle" /\ left' = LeftBy(body')
  /\ UNCHANGED <<client, newlines, head, need, handed, short, pulse>>

BodyByte ==
  /\ pc = "body" /\ stream # NoStream /\ stream # <<>>
  /\ stream' = Tail(stream)
  /\ body' = Append(body, Head(stream))
  /\ got' = Len(body')
  /\ \/ Len(body') < need /\ UNCHANGED <<pc, left>>
     \/ Len(body') = need /\ pc' = "handle" /\ left' = LeftBy(body')
  /\ UNCHANGED <<client, newlines, head, need, handed, short, pulse>>

\* The request is handled; the connection is kept or not.
Handle ==
  /\ pc = "handle"
  /\ handed' = Append(handed, [head |-> head, body |-> body, got |-> got])
  /\ pc' \in {"init", "close"}
  /\ UNCHANGED <<client, stream, request, short, left, pulse>>

\* A uri, cookie or form in the request makes req.init() throw.
Reject ==
  /\ pc = "handle"
  /\ pc' = "close"
  /\ UNCHANGED <<client, stream, request, handed, short, left, pulse>>

\* Mutant of Close: req.close() is not called, and the next connection, which
\* gets the same descriptor, finds the stream of the last.
Close_KeepsStream ==
  /\ pc = "close"
  /\ open' = FALSE
  /\ pc' = "accept"
  /\ UNCHANGED <<conn, toSend, arrived, stream, request, handed, short, left, pulse>>

\* net.close() and req.close().
Close ==
  /\ pc = "close"
  /\ open' = FALSE
  /\ stream' = NoStream
  /\ pc' = "accept"
  /\ UNCHANGED <<conn, toSend, arrived, request, handed, short, left, pulse>>

ReadByte == Fill \/ HeaderByte \/ NullByte \/ BodyByte
TimeOut == NoHeaders \/ ShortBody

Next ==
  \/ Connect \/ Send \/ Leave \/ Trickle
  \/ InitRequest \/ ReadByte \/ TimeOut \/ Handle \/ Reject \/ Close

Spec == Init /\ [][Next]_vars

\* The child runs, and a call of select() during which no byte comes times out:
\* every byte starts the five seconds anew.  No client has to send.
Fairness ==
  /\ WF_vars(InitRequest) /\ WF_vars(ReadByte) /\ WF_vars(Handle) /\ WF_vars(Close)
  /\ \A p \in BOOLEAN : WF_vars(pulse = p /\ TimeOut)

FairSpec == Spec /\ Fairness

-----------------------------------------------------------------------------
\* Every variable has its type, and the counters their meaning.
TypeOK ==
  /\ conn \in Conns \cup {0}
  /\ toSend \in Seq(Bytes)
  /\ arrived \in Seq(Bytes)
  /\ open \in BOOLEAN
  /\ stream \in Seq(Bytes) \cup {NoStream}
  /\ pc \in {"accept", "init", "headers", "body", "handle", "close"}
  /\ newlines \in 0..2
  /\ head \in Seq(Bytes)
  /\ need \in Nat
  /\ body \in Seq(Bytes \cup {Junk})
  /\ handed \in Seq([head : Seq(Bytes), body : Seq(Bytes \cup {Junk}), got : Nat])
  /\ short \in BOOLEAN
  /\ got \in Nat
  /\ left \subseteq Bytes \cup {Junk}
  /\ pulse \in BOOLEAN
  /\ Reading => stream # NoStream
  /\ pc = "headers" => newlines < 2 /\ body = <<>>
  /\ pc = "body" => Len(body) < need

\* A request is made of bytes of its own connection: what the last client sent
\* and nobody read is gone.  Bytes of another connection come into a request only
\* after those that arrived of a body that did not come in full.
OwnConnection ==
  \A i \in DOMAIN handed :
    /\ \A j \in DOMAIN handed[i].head : handed[i].head[j].conn = conn
    /\ \A j \in DOMAIN handed[i].body :
         handed[i].body[j].conn # conn => short /\ j > handed[i].got

\* The bytes that the client of connection c sent as its r-th request: all from
\* the first to the last of them.
Positions(c, r) == {i \in DOMAIN Stream[c] : Stream[c][i].req = r}
First(c, r) == CHOOSE i \in Positions(c, r) : \A j \in Positions(c, r) : i <= j
Final(c, r) == CHOOSE i \in Positions(c, r) : \A j \in Positions(c, r) : j <= i
AsSent(c, r) == SubSeq(Stream[c], First(c, r), Final(c, r))

\* The clients number their requests 1, 2, ... in the order they send them.
Numbered ==
  \A c \in Conns : \A i \in DOMAIN Stream[c] :
    /\ i = 1 => Stream[c][i].req = 1
    /\ i > 1 => Stream[c][i].req <= Stream[c][i - 1].req + 1
    /\ \A j \in 1..i : Stream[c][j].req <= Stream[c][i].req

\* The headers of s end at its n-th byte: the second of two newlines.
EndsHeaders(s, n) == n \in 2..Len(s) /\ s[n - 1].char = "newline" /\ s[n].char = "newline"

\* The clients speak HTTP: every request is headers up to the first empty line,
\* and a body of the length they tell.
Framed ==
  \A c \in Conns : \A i \in DOMAIN Stream[c] :
    LET s == AsSent(c, Stream[c][i].req) IN
    \E n \in 2..Len(s) :
      /\ EndsHeaders(s, n)
      /\ \A m \in 2..(n - 1) : ~EndsHeaders(s, m)
      /\ Len(s) = n + ContentLength(SubSeq(s, 1, n))

\* However the bytes arrive, the i-th request handled is the i-th the client
\* sent, with its headers and its body and nothing else, until a body does not
\* come in full.
ParsedAsSent ==
  ~short => \A i \in DOMAIN handed :
              handed[i].head \o handed[i].body = AsSent(conn, i)

\* Reading a request ends, whatever the client sends and whenever it stops or
\* leaves, unless it sends one byte of the headers after another for ever.
ReadingEnds == (<>[][~Trickle]_vars) => (Reading ~> ~Reading)
=============================================================================
