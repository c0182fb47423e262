--------------------------- MODULE HttpChildProofs ---------------------------
(***************************************************************************)
(* Theorems about HttpChild.                                               *)
(***************************************************************************)
EXTENDS HttpChild, TLAPS, SequenceTheorems

\* The requests' numbers: a connection is only kept below the limit.
LimitInv ==
  /\ keepAlive => handled <= RequestsPerChild
  /\ pc = "read" => keepAlive
  /\ pc \in Serving => handled # 0

\* A request that is served is the last on the wire, and the buffer is its own.
Current == {"handle", "send", "stuck", "end", "flush"}
CurrentInv ==
  pc \in Current =>
    /\ wire # <<>>
    /\ wire[Len(wire)].req = handled
    /\ \A i \in DOMAIN buf : buf[i] = handled

TypeInv == TypeOK /\ LimitInv /\ CurrentInv

Numbers == 1..RequestsPerChild + 1
Odd == {"cut", "late", "over"}

\* A response that grows keeps its type.
LEMMA GrownType ==
  ASSUME TypeOK, NEW r \in Responses, NEW len \in Nat, NEW n \in Nat,
         NEW from \in SUBSET Numbers, NEW odd \in SUBSET Odd
  PROVE  Grown(r, len, n, from, odd) \in Responses
<1>1. /\ r.req \in Numbers /\ r.heads \in Nat
      /\ r.len \in Nat /\ r.body \in Nat
      /\ r.from \in SUBSET Numbers /\ r.odd \in SUBSET Odd
  BY DEF Responses, Numbers, Odd
<1>2. r.ka \in BOOLEAN /\ announced \in BOOLEAN
  BY DEF Responses, TypeOK
<1> DEFINE heads == IF headersSent THEN r.heads ELSE r.heads + 1
           length == IF headersSent THEN r.len ELSE len
           ka == IF headersSent THEN r.ka ELSE announced
           body == r.body + n
           all == r.from \cup from
           odds == r.odd \cup odd
<1>3. heads \in Nat /\ length \in Nat /\ body \in Nat
  BY <1>1
<1>4. ka \in BOOLEAN
  BY <1>2
<1>5. all \in SUBSET Numbers /\ odds \in SUBSET Odd
  BY <1>1
<1>6. Grown(r, len, n, from, odd) =
        [req |-> r.req, heads |-> heads, len |-> length, ka |-> ka,
         body |-> body, from |-> all, odd |-> odds]
  BY DEF Grown
<1> HIDE DEF heads, length, ka, body, all, odds
<1> QED
  BY <1>1, <1>3, <1>4, <1>5, <1>6 DEF Responses, Numbers, Odd

\* The last response of the wire replaced by another.
LEMMA Replaced ==
  ASSUME TypeOK, wire # <<>>, NEW new \in Responses
  PROVE  LET after == [wire EXCEPT ![Len(wire)] = new] IN
         /\ after \in Seq(Responses) /\ Len(after) = Len(wire) /\ after # <<>>
         /\ \A i \in 1..Len(wire) : i # Len(wire) => after[i] = wire[i]
         /\ after[Len(wire)] = new
<1>1. wire \in Seq(Responses) /\ Len(wire) \in Nat /\ Len(wire) >= 1
  BY DEF TypeOK
<1>2. Len(wire) \in DOMAIN wire
  BY <1>1
<1> DEFINE after == [wire EXCEPT ![Len(wire)] = new]
<1>3. after \in Seq(Responses) /\ Len(after) = Len(wire)
  BY <1>1, <1>2
<1>4. after # <<>>
  BY <1>1, <1>3
<1>5. /\ \A i \in 1..Len(wire) : i # Len(wire) => after[i] = wire[i]
      /\ after[Len(wire)] = new
  BY <1>1, <1>2
<1> QED
  BY <1>3, <1>4, <1>5

LEMMA LastType ==
  ASSUME TypeOK, wire # <<>>
  PROVE  /\ wire \in Seq(Responses) /\ Len(wire) \in Nat /\ Len(wire) \in DOMAIN wire
         /\ DOMAIN wire = 1..Len(wire) /\ wire[Len(wire)] \in Responses
<1>1. wire \in Seq(Responses)
  BY DEF TypeOK
<1> QED
  BY <1>1

\* Sent changes the last response only.
LEMMA SentIs ==
  ASSUME TypeOK, wire # <<>>, NEW len \in Nat, NEW n \in Nat,
         NEW from \in SUBSET Numbers, NEW odd \in SUBSET Odd
  PROVE  /\ wire[Len(wire)] \in Responses
         /\ Sent(len, n, from, odd) \in Seq(Responses)
         /\ Len(Sent(len, n, from, odd)) = Len(wire)
         /\ Sent(len, n, from, odd) # <<>>
         /\ \A i \in 1..Len(wire) : i # Len(wire) =>
              Sent(len, n, from, odd)[i] = wire[i]
         /\ Sent(len, n, from, odd)[Len(wire)] =
              Grown(wire[Len(wire)], len, n, from, odd)
<1>1. wire[Len(wire)] \in Responses
  BY LastType
<1> DEFINE new == Grown(wire[Len(wire)], len, n, from, odd)
<1>2. new \in Responses
  BY <1>1, GrownType
<1>3. Sent(len, n, from, odd) = [wire EXCEPT ![Len(wire)] = new]
  BY DEF Sent
<1> HIDE DEF new
<1>4. LET after == [wire EXCEPT ![Len(wire)] = new] IN
      /\ after \in Seq(Responses) /\ Len(after) = Len(wire) /\ after # <<>>
      /\ \A i \in 1..Len(wire) : i # Len(wire) => after[i] = wire[i]
      /\ after[Len(wire)] = new
  BY <1>2, Replaced
<1> QED
  BY <1>1, <1>3, <1>4 DEF new

\* Added marks the last response as late, if its header was sent.
LEMMA AddedIs ==
  ASSUME TypeOK, wire # <<>>
  PROVE  LET old == wire[Len(wire)]
             new == Added[Len(wire)]
         IN
         /\ Added \in Seq(Responses) /\ Len(Added) = Len(wire) /\ Added # <<>>
         /\ \A i \in 1..Len(wire) : i # Len(wire) => Added[i] = wire[i]
         /\ new.req = old.req /\ new.from = old.from /\ new.ka = old.ka
         /\ new.odd = old.odd \cup {"late"} \/ Added = wire
         /\ old.heads # 0 => new.odd = old.odd \cup {"late"}
         /\ old.heads = 0 => Added = wire
<1> DEFINE old == wire[Len(wire)]
           late == [old EXCEPT !.odd = @ \cup {"late"}]
<1>1. wire \in Seq(Responses) /\ old \in Responses
  BY LastType
<1>2. CASE old.heads = 0
  BY <1>1, <1>2, LastType DEF Added
<1>3. CASE old.heads # 0
  <2>1. old.odd \cup {"late"} \in SUBSET {"cut", "late", "over"}
    BY <1>1 DEF Responses
  <2>2. /\ late \in Responses /\ late.req = old.req /\ late.from = old.from
        /\ late.ka = old.ka /\ late.odd = old.odd \cup {"late"}
    BY <1>1, <2>1 DEF Responses
  <2>3. Added = [wire EXCEPT ![Len(wire)] = late]
    BY <1>1, <1>3, LastType DEF Added
  <2> HIDE DEF late
  <2>4. LET after == [wire EXCEPT ![Len(wire)] = late] IN
        /\ after \in Seq(Responses) /\ Len(after) = Len(wire) /\ after # <<>>
        /\ \A i \in 1..Len(wire) : i # Len(wire) => after[i] = wire[i]
        /\ after[Len(wire)] = late
    BY <2>2, Replaced
  <2> QED
    BY <1>3, <2>2, <2>3, <2>4
<1> QED
  BY <1>2, <1>3

\* What sending the header can make odd.
LEMMA HeaderOdd ==
  /\ Header \subseteq SUBSET {"cut"}
  /\ headersSent => Header = {{}}
  /\ {"cut"} \subseteq Odd /\ "over" \in Odd /\ {} \in Header
BY DEF Header, Odd

LEMMA FlushedFrom ==
  ASSUME TypeOK
  PROVE  /\ Len(buf) \in Nat
         /\ {buf[i] : i \in DOMAIN buf} \in SUBSET Numbers
<1> DEFINE S == 1..RequestsPerChild + 1
<1>1. buf \in Seq(S)
  BY DEF TypeOK
<1> HIDE DEF S
<1>2. Len(buf) \in Nat /\ \A i \in DOMAIN buf : buf[i] \in S
  BY <1>1
<1>3. {buf[i] : i \in DOMAIN buf} \in SUBSET S
  BY <1>2
<1> QED
  BY <1>2, <1>3 DEF S, Numbers

\* What the writes to the client make of the responses.
LEMMA Sends ==
  ASSUME TypeInv, Sending \/ Flush \/ FlushFails
  PROVE  /\ pc \in Current /\ pc \in Serving /\ handled' = handled /\ handled \in Numbers
         /\ \/ wire' = wire
            \/ \E len \in Nat, n \in Nat, from \in SUBSET Numbers, odd \in SUBSET Odd :
                 /\ wire' = Sent(len, n, from, odd)
                 /\ "over" \notin odd => from \subseteq {handled}
<1>1. pc \in Current /\ pc \in Serving /\ handled' = handled
  BY DEF Sending, FileSent, FileCopied, FileFails, FileShrinks, Flush, FlushFails,
     Current, Serving
<1>2. TypeOK /\ file \in Nat /\ handled \in Nat /\ RequestsPerChild \in Nat
  BY ConstantsOK DEF TypeInv, TypeOK
<1>3. handled \in Numbers /\ 1..handled \in SUBSET Numbers /\ {handled} \in SUBSET Numbers
  BY <1>1, <1>2 DEF TypeInv, LimitInv, TypeOK, Numbers
<1>4. /\ Len(buf) \in Nat /\ {buf[i] : i \in DOMAIN buf} \in SUBSET Numbers
      /\ {buf[i] : i \in DOMAIN buf} \subseteq {handled}
  BY <1>1, <1>2, FlushedFrom DEF TypeInv, CurrentInv
<1>5. \A odd \in Header : odd \in SUBSET Odd /\ odd \cup {"over"} \in SUBSET Odd
  BY HeaderOdd
<1>6. {} \in SUBSET Numbers /\ {} \subseteq {handled} /\ 0 \in Nat
  OBVIOUS
<1> DEFINE Result ==
             \E len \in Nat, n \in Nat, from \in SUBSET Numbers, odd \in SUBSET Odd :
               /\ wire' = Sent(len, n, from, odd)
               /\ "over" \notin odd => from \subseteq {handled}
<1>7. ASSUME NEW len \in Nat, NEW n \in Nat, NEW from \in SUBSET Numbers,
             NEW odd \in SUBSET Odd, wire' = Sent(len, n, from, odd),
             "over" \notin odd => from \subseteq {handled}
      PROVE  Result
  BY <1>7
<1> HIDE DEF Result
<1>8. CASE FileSent
  <2>1. PICK odd \in Header : wire' = Sent(file, file, {handled}, odd)
    BY <1>8 DEF FileSent
  <2>2. odd \in SUBSET Odd /\ file \in Nat /\ {handled} \subseteq {handled}
    BY <1>2, <1>5
  <2>3. Result
    BY <1>3, <1>7, <2>1, <2>2
  <2> QED
    BY <1>1, <1>3, <2>3 DEF Result
<1>9. CASE FileCopied
  <2>1. PICK odd \in Header :
          \/ wire' = Sent(file, file, {handled}, odd)
          \/ wire' = Sent(file, file, 1..handled, odd \cup {"over"})
    BY <1>9 DEF FileCopied
  <2>2. odd \in SUBSET Odd /\ odd \cup {"over"} \in SUBSET Odd /\ "over" \in odd \cup {"over"}
    BY <1>5
  <2>5. file \in Nat /\ {handled} \subseteq {handled}
    BY <1>2
  <2>3. ASSUME wire' = Sent(file, file, {handled}, odd) PROVE Result
    BY <1>3, <1>7, <2>2, <2>3, <2>5
  <2>4. ASSUME wire' = Sent(file, file, 1..handled, odd \cup {"over"}) PROVE Result
    BY <1>3, <1>7, <2>2, <2>4, <2>5
  <2> QED
    BY <1>1, <1>3, <2>1, <2>3, <2>4 DEF Result
<1>10. CASE FileFails \/ FileShrinks
  <2>1. wire' = wire \/ \E odd \in Header : wire' = Sent(file, 0, {}, odd)
    BY <1>10 DEF FileFails, FileShrinks
  <2>2. ASSUME NEW odd \in Header, wire' = Sent(file, 0, {}, odd) PROVE Result
    BY <1>2, <1>5, <1>6, <1>7, <2>2
  <2> QED
    BY <1>1, <1>3, <2>1, <2>2 DEF Result
<1>11. CASE Flush
  <2>1. PICK odd \in Header :
          wire' = Sent(Len(buf), Len(buf), {buf[i] : i \in DOMAIN buf}, odd)
    BY <1>11 DEF Flush, FlushedWire
  <2> QED
    BY <1>1, <1>3, <1>4, <1>5, <1>7, <2>1 DEF Result
<1>12. CASE FlushFails
  <2>1. wire' = wire \/ \E odd \in Header : wire' = Sent(Len(buf), 0, {}, odd)
    BY <1>12 DEF FlushFails
  <2>2. ASSUME NEW odd \in Header, wire' = Sent(Len(buf), 0, {}, odd) PROVE Result
    BY <1>4, <1>5, <1>6, <1>7, <2>2
  <2> QED
    BY <1>1, <1>3, <2>1, <2>2 DEF Result
<1> QED
  BY <1>1, <1>3, <1>8, <1>9, <1>10, <1>11, <1>12 DEF Sending, Result

\* A step changes the last response on the wire at most, and not whose it is.
LastChanges(w) ==
  /\ wire # <<>> /\ w \in Seq(Responses) /\ w # <<>> /\ Len(w) = Len(wire)
  /\ \A i \in 1..Len(wire) : i # Len(wire) => w[i] = wire[i]
  /\ w[Len(wire)].req = wire[Len(wire)].req

LEMMA Changes ==
  ASSUME TypeInv,
         Sending \/ Flush \/ FlushFails \/ Write \/ \E size \in Sizes : SendFile(size)
  PROVE  pc \in Current /\ handled' = handled /\ LastChanges(wire')
<1>1. CASE Write \/ \E size \in Sizes : SendFile(size)
  <2>1. pc \in Current /\ handled' = handled /\ wire' = Added
    BY <1>1 DEF Write, SendFile, Current
  <2>2. TypeOK /\ wire # <<>>
    BY <2>1 DEF TypeInv, CurrentInv
  <2> QED
    BY <2>1, <2>2, AddedIs DEF LastChanges
<1>2. CASE Sending \/ Flush \/ FlushFails
  <2>1. pc \in Current /\ handled' = handled
    BY <1>2, Sends
  <2>2. TypeOK /\ wire # <<>>
    BY <2>1 DEF TypeInv, CurrentInv
  <2>3. CASE wire' = wire
    BY <2>1, <2>2, <2>3, LastType DEF LastChanges
  <2>4. ASSUME NEW len \in Nat, NEW n \in Nat, NEW from \in SUBSET Numbers,
               NEW odd \in SUBSET Odd, wire' = Sent(len, n, from, odd)
        PROVE  LastChanges(wire')
    <3>1. Grown(wire[Len(wire)], len, n, from, odd).req = wire[Len(wire)].req
      BY DEF Grown
    <3> QED
      BY <2>2, <2>4, <3>1, SentIs DEF LastChanges
  <2> QED
    BY <1>2, <2>1, <2>3, <2>4, Sends
<1> QED
  BY <1>1, <1>2

-----------------------------------------------------------------------------
LEMMA LimitStep ==
  ASSUME TypeOK, LimitInv, [Next]_vars PROVE LimitInv'
<1>1. handled \in Nat /\ RequestsPerChild \in Nat
  BY ConstantsOK DEF TypeOK
<1>2. CASE Accept \/ Exit \/ Close
  BY <1>1, <1>2 DEF Accept, Exit, Close, LimitInv, Serving
<1>6. CASE Request
  <2>1. handled' = handled + 1 /\ handled' # 0 /\ pc' # "read"
    BY <1>1, <1>6 DEF Request, ReadNothing, ReadThrows, ReadRequest
  <2>2. keepAlive' => handled + 1 <= RequestsPerChild
    BY <1>6 DEF Request, ReadNothing, ReadThrows, ReadRequest
  <2> QED
    BY <2>1, <2>2 DEF LimitInv
<1>3. CASE Handler \/ Sending
  BY <1>3 DEF Handler, Write, SendFile, NotModified, ResetBuffer, Stop,
     Return, Throw, Loop, Sending, FileSent, FileCopied, FileFails, FileShrinks, LimitInv,
     Serving
<1>4. CASE Finish
  BY <1>4 DEF Finish, ErrorPage, ErrorExit, EndRequest, Flush, FlushFails,
     Close, LimitInv, Serving
<1>5. CASE WatchdogFires \/ BrokenPipe \/ ClientStalls \/ UNCHANGED vars
  BY <1>5 DEF WatchdogFires, BrokenPipe, ClientStalls, vars, LimitInv, Serving
<1> QED
  BY <1>2, <1>3, <1>4, <1>5, <1>6 DEF Next

LEMMA TypeStep ==
  ASSUME TypeInv, [Next]_vars PROVE TypeOK'
<1> USE ConstantsOK DEF TypeInv
<1>1. handled \in Nat /\ RequestsPerChild \in Nat
  BY DEF TypeOK
<1>2. CASE Accept
  <2>1. wire' \in Seq(Responses)
    BY <1>2 DEF Accept
  <2>2. conns' \in 0..MaxConns
    BY <1>2 DEF Accept, TypeOK
  <2>3. keepAlive' \in BOOLEAN /\ armed' \in BOOLEAN /\ reading' \in BOOLEAN
    BY <1>2 DEF Accept
  <2>4. UNCHANGED <<handled, buf, headersSent, announced, file, ops, copies>>
        /\ pc' = "read"
    BY <1>2 DEF Accept, response
  <2> QED
    BY <2>1, <2>2, <2>3, <2>4 DEF TypeOK
<1>3. CASE Exit \/ Close
  BY <1>3 DEF Exit, Close, TypeOK, response, client
<1>4. CASE Request
  <2>1. handled' \in 0..RequestsPerChild + 1 /\ handled' = handled + 1
    BY <1>1, <1>4 DEF Request, ReadNothing, ReadThrows, ReadRequest, LimitInv
  <2>2. keepAlive' \in BOOLEAN
    BY <1>4 DEF Request, ReadNothing, ReadThrows, ReadRequest, TypeOK
  <2>3. CASE ReadNothing \/ ReadThrows
    BY <2>1, <2>2, <2>3 DEF ReadNothing, ReadThrows, TypeOK, Serving, response, client
  <2>4. ASSUME NEW asked \in BOOLEAN, ReadRequest(asked) PROVE TypeOK'
    <3>1. Unsent(handled + 1) \in Responses
      BY <1>1, <2>1 DEF Unsent, Responses
    <3>2. wire' \in Seq(Responses)
      <4>1. wire' = Append(wire, Unsent(handled + 1))
        BY <2>4 DEF ReadRequest
      <4> HIDE DEF Responses, Unsent
      <4> QED
        BY <3>1, <4>1 DEF TypeOK
    <3>3. buf' = <<>> /\ headersSent' = FALSE /\ file' = 0
          /\ announced' = keepAlive'
      BY <2>4 DEF ReadRequest, ResInit
    <3>4. buf' \in Seq(1..RequestsPerChild + 1)
      BY <3>3
    <3>5. armed' \in BOOLEAN
      BY <2>4 DEF ReadRequest, TypeOK
    <3>6. headersSent' \in BOOLEAN /\ announced' \in BOOLEAN
      BY <2>2, <3>3
    <3>7. file' \in Nat /\ ops' \in 0..MaxOps
      BY <2>4, <3>3 DEF ReadRequest
    <3>8. UNCHANGED <<reading, conns, copies>> /\ pc' = "handle"
      BY <2>4 DEF ReadRequest
    <3> QED
      BY <2>1, <2>2, <3>2, <3>4, <3>5, <3>6, <3>7, <3>8 DEF TypeOK, Serving
  <2> QED
    BY <1>4, <2>3, <2>4 DEF Request
<1>5. CASE Write
  <2>1. handled \in 1..RequestsPerChild + 1
    BY <1>5 DEF Write, LimitInv, TypeOK, Serving
  <2>2. buf' \in Seq(1..RequestsPerChild + 1)
    BY <1>5, <2>1 DEF Write, TypeOK
  <2>3. ops' \in 0..MaxOps
    BY <1>5 DEF Write, MayAdd, TypeOK
  <2>4. wire' \in Seq(Responses)
    BY <1>5, Changes DEF LastChanges
  <2>5. UNCHANGED <<pc, handled, keepAlive, armed, headersSent, announced, file,
                    reading, conns, copies>>
    BY <1>5 DEF Write
  <2> QED
    BY <2>2, <2>3, <2>4, <2>5 DEF TypeOK
<1>6. ASSUME NEW size \in Sizes, SendFile(size) PROVE TypeOK'
  <2>1. buf' \in Seq(1..RequestsPerChild + 1)
    BY <1>6 DEF SendFile
  <2>2. ops' \in 0..MaxOps /\ file' \in Nat
    BY <1>6 DEF SendFile, MayAdd, TypeOK
  <2>3. wire' \in Seq(Responses)
    BY <1>6, Changes DEF LastChanges
  <2>4. armed' \in BOOLEAN /\ pc' = "send"
    BY <1>6 DEF SendFile
  <2>5. UNCHANGED <<handled, keepAlive, headersSent, announced, reading, conns, copies>>
    BY <1>6 DEF SendFile
  <2> QED
    BY <2>1, <2>2, <2>3, <2>4, <2>5 DEF TypeOK, Serving
<1>7. CASE NotModified
  <2>1. buf' \in Seq(1..RequestsPerChild + 1)
    BY <1>7 DEF NotModified
  <2> QED
    BY <1>7, <2>1 DEF NotModified, TypeOK, Serving, client
<1>17. CASE ResetBuffer
  <2>1. buf' \in Seq(1..RequestsPerChild + 1)
    BY <1>17 DEF ResetBuffer
  <2> QED
    BY <1>17, <2>1 DEF ResetBuffer, TypeOK, client
<1>8. CASE Stop
  <2>1. ops' \in 0..MaxOps
    BY <1>8 DEF Stop, TypeOK
  <2> QED
    BY <1>8, <2>1 DEF Stop, TypeOK, Serving, response, client
<1>9. CASE Return \/ Throw \/ Loop
  BY <1>9 DEF Return, Throw, Loop, TypeOK, Serving, response, client
<1>10. CASE Sending
  <2>1. wire' \in Seq(Responses)
    BY <1>10, Changes DEF LastChanges
  <2>2. pc' \in Serving /\ headersSent' = TRUE
    BY <1>10 DEF Sending, FileSent, FileCopied, FileFails, FileShrinks, Serving
  <2>3. file' \in Nat
    BY <1>10 DEF Sending, FileSent, FileCopied, FileFails, FileShrinks, TypeOK
  <2>4. UNCHANGED <<handled, keepAlive, armed, buf, announced, reading, conns, ops, copies>>
    BY <1>10 DEF Sending, FileSent, FileCopied, FileFails, FileShrinks
  <2> QED
    BY <2>1, <2>2, <2>3, <2>4 DEF TypeOK
<1>11. CASE ErrorPage
  <2>1. handled \in 1..RequestsPerChild + 1
    BY <1>11 DEF ErrorPage, LimitInv, TypeOK, Serving
  <2>2. buf' \in Seq(1..RequestsPerChild + 1)
    BY <1>11, <2>1 DEF ErrorPage
  <2> QED
    BY <1>11, <2>2 DEF ErrorPage, TypeOK, client
<1>12. CASE ErrorExit \/ EndRequest
  BY <1>12 DEF ErrorExit, EndRequest, TypeOK, Serving, response, client
<1>13. CASE Flush \/ FlushFails
  <2>3. wire' \in Seq(Responses)
    BY <1>13, Changes DEF LastChanges
  <2>4. buf' \in Seq(1..RequestsPerChild + 1)
    <3>1. buf' = <<>> \/ buf' = buf
      BY <1>13 DEF Flush, FlushFails
    <3>2. buf \in Seq(1..RequestsPerChild + 1)
      BY DEF TypeOK
    <3>3. <<>> \in Seq(1..RequestsPerChild + 1)
      OBVIOUS
    <3> QED
      BY <3>1, <3>2, <3>3
  <2>5. headersSent' \in BOOLEAN /\ keepAlive' \in BOOLEAN /\ armed' \in BOOLEAN
    BY <1>13 DEF Flush, FlushFails, TypeOK
  <2>6. pc' \in {"read", "close"}
    BY <1>13 DEF Flush, FlushFails
  <2>7. UNCHANGED <<handled, announced, file, reading, conns, ops, copies>>
    BY <1>13 DEF Flush, FlushFails
  <2> QED
    BY <2>3, <2>4, <2>5, <2>6, <2>7 DEF TypeOK
<1>14. CASE WatchdogFires \/ BrokenPipe
  BY <1>14 DEF WatchdogFires, BrokenPipe, TypeOK, response, client
<1>15. CASE ClientStalls
  BY <1>15 DEF ClientStalls, TypeOK, response
<1>16. CASE UNCHANGED vars
  BY <1>16 DEF vars, TypeOK
<1> QED
  BY <1>2, <1>3, <1>4, <1>5, <1>6, <1>7, <1>8, <1>9, <1>10, <1>11, <1>12,
     <1>13, <1>14, <1>15, <1>16, <1>17 DEF Next, Handler, Finish

LEMMA CurrentStep ==
  ASSUME TypeInv, [Next]_vars PROVE CurrentInv'
<1> USE DEF TypeInv
<1>0. ASSUME LastChanges(wire'), handled' = handled, pc \in Current
      PROVE  wire' # <<>> /\ wire'[Len(wire')].req = handled'
  BY <1>0 DEF LastChanges, CurrentInv
<1>1. CASE Accept \/ Exit \/ Close \/ ReadNothing \/ ReadThrows
  BY <1>1 DEF Accept, Exit, Close, ReadNothing, ReadThrows, CurrentInv, Current
<1>2. ASSUME NEW asked \in BOOLEAN, ReadRequest(asked) PROVE CurrentInv'
  <2>1. wire' = Append(wire, Unsent(handled + 1)) /\ wire \in Seq(Responses)
    BY <1>2 DEF ReadRequest, TypeOK
  <2>2. wire' # <<>> /\ wire'[Len(wire')] = Unsent(handled + 1)
    BY <2>1
  <2>3. Unsent(handled + 1).req = handled'
    BY <1>2 DEF ReadRequest, Unsent
  <2>4. \A i \in DOMAIN buf' : buf'[i] = handled'
    BY <1>2 DEF ReadRequest, ResInit
  <2> QED
    BY <2>2, <2>3, <2>4 DEF CurrentInv
<1>3. CASE Write
  <2>1. buf' = Append(buf, handled) /\ \A i \in DOMAIN buf : buf[i] = handled
    BY <1>3 DEF Write, CurrentInv, Current
  <2>2. buf \in Seq(1..RequestsPerChild + 1)
    BY DEF TypeOK
  <2> DEFINE S == 1..RequestsPerChild + 1
  <2> HIDE DEF S
  <2>3. \A i \in DOMAIN buf' : buf'[i] = handled
    <3>1. buf \in Seq(S)
      BY <2>2 DEF S
    <3> QED
      BY <2>1, <3>1
  <2>4. pc \in Current /\ handled' = handled /\ LastChanges(wire')
    BY <1>3, Changes
  <2> QED
    BY <1>0, <2>3, <2>4 DEF CurrentInv
<1>4. ASSUME NEW size \in Sizes, SendFile(size) PROVE CurrentInv'
  <2>1. pc \in Current /\ handled' = handled /\ LastChanges(wire')
    BY <1>4, Changes
  <2>2. buf' = <<>>
    BY <1>4 DEF SendFile
  <2> QED
    BY <1>0, <2>1, <2>2 DEF CurrentInv
<1>5. CASE NotModified \/ ResetBuffer
  BY <1>5 DEF NotModified, ResetBuffer, CurrentInv, Current, client
<1>6. CASE Stop \/ Return \/ Throw \/ Loop
  BY <1>6 DEF Stop, Return, Throw, Loop, CurrentInv, Current, response, client
<1>7. CASE Sending
  <2>1. pc \in Current /\ handled' = handled /\ LastChanges(wire')
    BY <1>7, Changes
  <2>2. UNCHANGED buf
    BY <1>7 DEF Sending, FileSent, FileCopied, FileFails, FileShrinks
  <2> QED
    BY <1>0, <2>1, <2>2 DEF CurrentInv
<1>8. CASE ErrorPage \/ ErrorExit \/ Flush \/ FlushFails
  BY <1>8 DEF ErrorPage, ErrorExit, Flush, FlushFails, CurrentInv, Current
<1>9. CASE EndRequest
  BY <1>9 DEF EndRequest, CurrentInv, Current, response, client
<1>10. CASE WatchdogFires \/ BrokenPipe
  BY <1>10 DEF WatchdogFires, BrokenPipe, CurrentInv, Current
<1>11. CASE ClientStalls \/ UNCHANGED vars
  BY <1>11 DEF ClientStalls, vars, CurrentInv, response
<1> QED
  BY <1>1, <1>2, <1>3, <1>4, <1>5, <1>6, <1>7, <1>8, <1>9, <1>10, <1>11
  DEF Next, Request, Handler, Finish

LEMMA TypeInvInvariant == Spec => []TypeInv
<1>1. Init => TypeInv
  <2>1. ASSUME Init PROVE TypeOK
    <3>1. buf \in Seq(1..RequestsPerChild + 1) /\ wire \in Seq(Responses)
      BY <2>1 DEF Init
    <3>2. handled \in 0..RequestsPerChild + 1 /\ conns \in 0..MaxConns
          /\ ops \in 0..MaxOps /\ file \in Nat
      BY <2>1, ConstantsOK DEF Init
    <3>3. keepAlive \in BOOLEAN /\ armed \in BOOLEAN /\ headersSent \in BOOLEAN
      BY <2>1 DEF Init
    <3>4. announced \in BOOLEAN /\ reading \in BOOLEAN /\ copies \in BOOLEAN
      BY <2>1 DEF Init
    <3>5. pc = "accept"
      BY <2>1 DEF Init
    <3> QED
      BY <3>1, <3>2, <3>3, <3>4, <3>5 DEF TypeOK
  <2>2. ASSUME Init PROVE LimitInv /\ CurrentInv
    BY <2>2 DEF Init, LimitInv, CurrentInv, Current, Serving
  <2> QED
    BY <2>1, <2>2 DEF TypeInv
<1>2. TypeInv /\ [Next]_vars => TypeInv'
  BY LimitStep, TypeStep, CurrentStep DEF TypeInv
<1> QED
  BY <1>1, <1>2, PTL DEF Spec

\* Every variable keeps its type, and the child its limit of requests: it reads
\* at most one request past RequestsPerChild.
THEOREM TypeInvariant == Spec => []TypeOK
BY TypeInvInvariant, PTL DEF TypeInv

-----------------------------------------------------------------------------
\* The alarm is off wherever the child waits for a client or for work: it is
\* set only for a request and cleared on every way out of one.
IdleUnarmed == pc \in {"accept", "read"} => ~armed

LEMMA IdleStep == ASSUME IdleUnarmed, [Next]_vars PROVE IdleUnarmed'
<1>1. CASE Accept \/ Exit \/ Close \/ Request
  BY <1>1 DEF Accept, Exit, Close, Request, ReadNothing, ReadThrows,
     ReadRequest, IdleUnarmed
<1>2. CASE Handler \/ Sending
  BY <1>2 DEF Handler, Write, SendFile, NotModified, ResetBuffer, Stop,
     Return, Throw, Loop, Sending, FileSent, FileCopied, FileFails, FileShrinks, IdleUnarmed
<1>3. CASE Finish
  BY <1>3 DEF Finish, ErrorPage, ErrorExit, EndRequest, Flush, FlushFails,
     Close, IdleUnarmed
<1>4. CASE WatchdogFires \/ BrokenPipe \/ ClientStalls \/ UNCHANGED vars
  BY <1>4 DEF WatchdogFires, BrokenPipe, ClientStalls, vars, IdleUnarmed
<1> QED
  BY <1>1, <1>2, <1>3, <1>4 DEF Next

\* The watchdog never ends a child that waits for a connection or a request.
THEOREM IdleSafety == Spec => []IdleUnarmed
<1>1. Init => IdleUnarmed
  BY DEF Init, IdleUnarmed
<1> QED
  BY <1>1, IdleStep, PTL DEF Spec

-----------------------------------------------------------------------------
LEMMA OwnBytesStep ==
  ASSUME TypeInv, OwnBytes, [Next]_vars PROVE OwnBytes'
<1>0. TypeOK /\ wire \in Seq(Responses)
  BY DEF TypeInv, TypeOK
<1>1. ASSUME NEW asked \in BOOLEAN, ReadRequest(asked) PROVE OwnBytes'
  <2>1. wire' = Append(wire, Unsent(handled + 1))
    BY <1>1 DEF ReadRequest
  <2>2. Unsent(handled + 1).from = {}
    BY DEF Unsent
  <2>3. ASSUME NEW i \in DOMAIN wire'
        PROVE  wire'[i] = Unsent(handled + 1) \/ (i \in DOMAIN wire /\ wire'[i] = wire[i])
    BY <1>0, <2>1
  <2> QED
    BY <2>2, <2>3 DEF OwnBytes
<1>2. CASE Sending \/ Flush \/ FlushFails
  <2>1. pc \in Current /\ handled' = handled /\ handled \in Numbers
    BY <1>2, Sends DEF TypeInv
  <2>2. wire # <<>> /\ wire[Len(wire)].req = handled
    BY <2>1 DEF TypeInv, CurrentInv
  <2>3. CASE wire' = wire
    BY <2>3 DEF OwnBytes
  <2>4. ASSUME NEW len \in Nat, NEW n \in Nat, NEW from \in SUBSET Numbers,
               NEW odd \in SUBSET Odd, wire' = Sent(len, n, from, odd),
               "over" \notin odd => from \subseteq {handled}
        PROVE  OwnBytes'
    <3> DEFINE old == wire[Len(wire)]
               new == Grown(old, len, n, from, odd)
    <3>1. /\ wire' \in Seq(Responses) /\ Len(wire') = Len(wire)
          /\ \A i \in 1..Len(wire) : i # Len(wire) => wire'[i] = wire[i]
          /\ wire'[Len(wire)] = new
      BY <1>0, <2>2, <2>4, SentIs
    <3>2. new.req = handled /\ new.from = old.from \cup from /\ new.odd = old.odd \cup odd
      BY <2>2 DEF Grown
    <3>3. "over" \notin old.odd => old.from \subseteq {handled}
      BY <1>0, <2>2, LastType DEF OwnBytes
    <3>4. "over" \notin new.odd => new.from \subseteq {new.req}
      BY <2>4, <3>2, <3>3
    <3> HIDE DEF old, new
    <3>5. ASSUME NEW i \in DOMAIN wire', "over" \notin wire'[i].odd
          PROVE  wire'[i].from \subseteq {wire'[i].req}
      <4>1. i \in 1..Len(wire) /\ DOMAIN wire = 1..Len(wire)
        BY <1>0, <3>1
      <4>2. CASE i = Len(wire)
        BY <3>1, <3>4, <3>5, <4>2
      <4>3. CASE i # Len(wire)
        BY <3>1, <3>5, <4>1, <4>3 DEF OwnBytes
      <4> QED
        BY <4>2, <4>3
    <3> QED
      BY <3>5 DEF OwnBytes
  <2> QED
    BY <1>2, <2>3, <2>4, Sends
<1>3. CASE Write \/ \E size \in Sizes : SendFile(size)
  <2>1. wire' = Added /\ pc \in Current
    BY <1>3 DEF Write, SendFile, Current
  <2>2. wire # <<>>
    BY <2>1 DEF TypeInv, CurrentInv
  <2> DEFINE old == wire[Len(wire)]
             new == Added[Len(wire)]
  <2>3. /\ Added \in Seq(Responses) /\ Len(Added) = Len(wire)
        /\ \A i \in 1..Len(wire) : i # Len(wire) => Added[i] = wire[i]
        /\ new.req = old.req /\ new.from = old.from
        /\ new.odd = old.odd \cup {"late"} \/ Added = wire
    BY <1>0, <2>2, AddedIs
  <2>4. ASSUME NEW i \in DOMAIN Added, "over" \notin Added[i].odd
        PROVE  Added[i].from \subseteq {Added[i].req}
    <3>1. i \in 1..Len(wire) /\ DOMAIN wire = 1..Len(wire)
      BY <1>0, <2>3
    <3>2. CASE i = Len(wire)
      <4>1. "over" \notin old.odd
        BY <2>3, <2>4, <3>2
      <4> QED
        BY <2>3, <3>1, <3>2, <4>1 DEF OwnBytes
    <3>3. CASE i # Len(wire)
      BY <2>3, <2>4, <3>1, <3>3 DEF OwnBytes
    <3> QED
      BY <3>2, <3>3
  <2> QED
    BY <2>1, <2>4 DEF OwnBytes
<1>5. CASE Accept
  BY <1>5 DEF Accept, OwnBytes
<1>6. CASE Exit \/ Close \/ ReadNothing \/ ReadThrows
  BY <1>6 DEF Exit, Close, ReadNothing, ReadThrows, client, OwnBytes
<1>7. CASE NotModified \/ ResetBuffer \/ Stop \/ Return \/ Throw \/ Loop
  BY <1>7 DEF NotModified, ResetBuffer, Stop, Return, Throw, Loop, client, response, OwnBytes
<1>8. CASE ErrorPage \/ ErrorExit \/ EndRequest
  BY <1>8 DEF ErrorPage, ErrorExit, EndRequest, client, OwnBytes
<1>9. CASE WatchdogFires \/ BrokenPipe \/ ClientStalls \/ UNCHANGED vars
  BY <1>9 DEF WatchdogFires, BrokenPipe, ClientStalls, vars, client, OwnBytes
<1> QED
  BY <1>1, <1>2, <1>3, <1>5, <1>6, <1>7, <1>8, <1>9 DEF Next, Request, Handler, Finish

\* A response carries no byte that another request wrote, whatever errors left
\* in the buffer of the child, unless it has bytes from past the end of a string.
THEOREM ResponseSafety == Spec => []OwnBytes
<1>1. Init => OwnBytes
  BY DEF Init, OwnBytes
<1>2. TypeInv /\ OwnBytes /\ [Next]_vars => OwnBytes'
  BY OwnBytesStep
<1> QED
  BY <1>1, <1>2, TypeInvInvariant, PTL DEF Spec

-----------------------------------------------------------------------------
\* Why a connection that is kept can be parsed.  While a request is served, the
\* responses before it are complete or spoiled, its own is untouched until the
\* headers are sent, and once they are it is spoiled, or all of it is sent and the
\* buffer is empty.
Whole(r) == Complete(r) \/ Spoiled(r)
Last == wire[Len(wire)]

FramedInv ==
  /\ Framed
  /\ pc \in Current =>
       /\ \A i \in DOMAIN wire : i # Len(wire) => Whole(wire[i])
       /\ keepAlive = announced
       /\ ~headersSent => Last.heads = 0 /\ Last.body = 0
  /\ pc = "send" => buf = <<>>
  /\ pc \in {"handle", "send", "end", "flush"} /\ headersSent => Last.ka = announced
  /\ pc = "send" /\ headersSent => Spoiled(Last)
  /\ pc \in {"handle", "end", "flush"} /\ headersSent =>
       Spoiled(Last) \/ (Complete(Last) /\ buf = <<>>)

\* What the headers and n bytes make of a response that was untouched.
LEMMA FirstSent ==
  ASSUME TypeOK, ~headersSent, NEW r \in Responses, r.heads = 0, r.body = 0,
         NEW len \in Nat, NEW n \in Nat, NEW from, NEW odd
  PROVE  /\ Grown(r, len, n, from, odd).heads = 1
         /\ Grown(r, len, n, from, odd).len = len
         /\ Grown(r, len, n, from, odd).body = n
         /\ Grown(r, len, n, from, odd).ka = announced
<1>1. /\ Grown(r, len, n, from, odd).heads = r.heads + 1
      /\ Grown(r, len, n, from, odd).len = len
      /\ Grown(r, len, n, from, odd).body = r.body + n
  BY DEF Grown
<1>2. Grown(r, len, n, from, odd).ka = announced
  BY DEF Grown
<1> QED
  BY <1>1, <1>2

\* No more bytes change no count of a response that has its headers.
LEMMA NothingSent ==
  ASSUME headersSent, NEW r \in Responses, NEW len, NEW n, n = 0, NEW from, NEW odd
  PROVE  /\ Grown(r, len, n, from, odd).heads = r.heads
         /\ Grown(r, len, n, from, odd).len = r.len
         /\ Grown(r, len, n, from, odd).body = r.body
<1>1. r.body + 0 = r.body
  BY DEF Responses
<1>2. /\ Grown(r, len, n, from, odd).heads = r.heads
      /\ Grown(r, len, n, from, odd).len = r.len
      /\ Grown(r, len, n, from, odd).body = r.body + 0
  BY DEF Grown
<1> QED
  BY <1>1, <1>2

\* What was spoiled stays so, and the header that was sent what it announced.
LEMMA SpoiledStays ==
  ASSUME NEW r, NEW len, NEW n, NEW from, NEW odd
  PROVE  /\ Spoiled(r) => Spoiled(Grown(r, len, n, from, odd))
         /\ headersSent => Grown(r, len, n, from, odd).ka = r.ka
<1>1. Grown(r, len, n, from, odd).odd = r.odd \cup odd
  BY DEF Grown
<1>2. headersSent => Grown(r, len, n, from, odd).ka = r.ka
  BY DEF Grown
<1> QED
  BY <1>1, <1>2 DEF Spoiled

\* A write of all that is announced leaves the response complete, or spoiled.
LEMMA SentWhole ==
  ASSUME TypeInv, FramedInv, pc \in {"send", "flush"},
         NEW len \in Nat, NEW from \in SUBSET Numbers, NEW odd \in SUBSET Odd,
         headersSent /\ ~Spoiled(Last) => len = 0,
         wire' = Sent(len, len, from, odd)
  PROVE  /\ wire' \in Seq(Responses) /\ Len(wire') = Len(wire) /\ wire' # <<>>
         /\ \A i \in DOMAIN wire' : Whole(wire'[i])
         /\ Last'.ka = announced
<1> DEFINE new == Grown(Last, len, len, from, odd)
<1>1. TypeOK /\ wire \in Seq(Responses) /\ pc \in Current
  BY DEF TypeInv, TypeOK, Current
<1>2. wire # <<>> /\ Last \in Responses
  BY <1>1, LastType DEF TypeInv, CurrentInv, Last
<1>3. /\ wire' \in Seq(Responses) /\ Len(wire') = Len(wire) /\ wire' # <<>>
      /\ \A i \in 1..Len(wire) : i # Len(wire) => wire'[i] = wire[i]
      /\ wire'[Len(wire)] = new
  BY <1>1, <1>2, SentIs DEF Last
<1>4. Whole(new) /\ new.ka = announced
  <2>1. CASE ~headersSent
    <3>1. Last.heads = 0 /\ Last.body = 0
      BY <1>1, <2>1 DEF FramedInv
    <3>2. new.heads = 1 /\ new.len = len /\ new.body = len /\ new.ka = announced
      BY <1>1, <1>2, <2>1, <3>1, FirstSent
    <3> QED
      BY <3>2 DEF Whole, Complete
  <2>2. CASE headersSent /\ Spoiled(Last)
    <3>1. Last.ka = announced
      BY <2>2 DEF FramedInv
    <3> QED
      BY <2>2, <3>1, SpoiledStays DEF Whole
  <2>3. CASE headersSent /\ ~Spoiled(Last)
    <3>1. len = 0 /\ Last.ka = announced /\ pc = "flush"
      BY <2>3 DEF FramedInv
    <3>2. Complete(Last)
      BY <2>3, <3>1 DEF FramedInv
    <3>3. new.heads = Last.heads /\ new.len = Last.len /\ new.body = Last.body
      BY <1>2, <2>3, <3>1, NothingSent
    <3>4. new.ka = Last.ka
      BY <2>3, SpoiledStays
    <3> QED
      BY <3>1, <3>2, <3>3, <3>4 DEF Whole, Complete
  <2> QED
    BY <2>1, <2>2, <2>3
<1> HIDE DEF new
<1>5. ASSUME NEW i \in DOMAIN wire' PROVE Whole(wire'[i])
  <2>1. i \in 1..Len(wire) /\ DOMAIN wire = 1..Len(wire)
    BY <1>1, <1>3
  <2>2. i # Len(wire) => Whole(wire[i])
    BY <1>1, <2>1 DEF FramedInv
  <2> QED
    BY <1>3, <1>4, <2>1, <2>2
<1> QED
  BY <1>3, <1>4, <1>5 DEF Last

\* A flush completes the response.
LEMMA FlushCompletes ==
  ASSUME TypeInv, FramedInv, Flush
  PROVE  /\ wire' \in Seq(Responses) /\ Len(wire') = Len(wire) /\ wire' # <<>>
         /\ \A i \in DOMAIN wire' : Whole(wire'[i])
         /\ Last'.ka = announced
<1>1. TypeOK /\ pc = "flush"
  BY DEF TypeInv, Flush
<1> DEFINE from == {buf[i] : i \in DOMAIN buf}
<1>2. Len(buf) \in Nat /\ from \in SUBSET Numbers
  BY <1>1, FlushedFrom
<1>3. PICK odd \in Header : wire' = Sent(Len(buf), Len(buf), from, odd)
  BY DEF Flush, FlushedWire
<1>4. odd \in SUBSET Odd
  BY HeaderOdd
<1>5. headersSent /\ ~Spoiled(Last) => Len(buf) = 0
  BY <1>1 DEF FramedInv
<1> HIDE DEF from
<1> QED
  BY <1>1, <1>2, <1>3, <1>4, <1>5, SentWhole

\* A file that is sent completes the response.
LEMMA FileCompletes ==
  ASSUME TypeInv, FramedInv, FileSent \/ FileCopied
  PROVE  /\ wire' \in Seq(Responses) /\ Len(wire') = Len(wire) /\ wire' # <<>>
         /\ \A i \in DOMAIN wire' : Whole(wire'[i])
         /\ Last'.ka = announced
<1>1. TypeOK /\ pc = "send" /\ file \in Nat
  BY DEF TypeInv, TypeOK, FileSent, FileCopied
<1>2. handled \in Numbers /\ {handled} \in SUBSET Numbers /\ 1..handled \in SUBSET Numbers
  <2>1. handled \in Numbers
    BY Sends DEF Sending
  <2> QED
    BY <2>1, ConstantsOK DEF Numbers
<1>3. headersSent /\ ~Spoiled(Last) => file = 0
  BY <1>1 DEF FramedInv
<1>4. PICK odd \in Header :
        \/ wire' = Sent(file, file, {handled}, odd)
        \/ wire' = Sent(file, file, 1..handled, odd \cup {"over"})
  BY DEF FileSent, FileCopied
<1>5. odd \in SUBSET Odd /\ odd \cup {"over"} \in SUBSET Odd
  BY HeaderOdd
<1>6. CASE wire' = Sent(file, file, {handled}, odd)
  BY <1>1, <1>2, <1>3, <1>5, <1>6, SentWhole
<1>7. CASE wire' = Sent(file, file, 1..handled, odd \cup {"over"})
  BY <1>1, <1>2, <1>3, <1>5, <1>7, SentWhole
<1> QED
  BY <1>4, <1>6, <1>7

\* What is added after the headers spoils the response.
LEMMA Adds ==
  ASSUME TypeInv, FramedInv, pc = "handle", wire' = Added
  PROVE  /\ wire' \in Seq(Responses) /\ Len(wire') = Len(wire) /\ wire' # <<>>
         /\ \A i \in DOMAIN wire' : i # Len(wire') => Whole(wire'[i])
         /\ ~headersSent => wire' = wire
         /\ headersSent => Spoiled(Last') /\ Last'.ka = announced
<1>1. TypeOK /\ wire \in Seq(Responses) /\ pc \in Current /\ wire # <<>>
  BY DEF TypeInv, TypeOK, Current, CurrentInv
<1> DEFINE new == Added[Len(wire)]
<1>2. /\ Added \in Seq(Responses) /\ Len(Added) = Len(wire) /\ Added # <<>>
      /\ \A i \in 1..Len(wire) : i # Len(wire) => Added[i] = wire[i]
      /\ new.ka = Last.ka
      /\ new.odd = Last.odd \cup {"late"} \/ Added = wire
      /\ Last.heads # 0 => new.odd = Last.odd \cup {"late"}
      /\ Last.heads = 0 => Added = wire
  BY <1>1, AddedIs DEF Last
<1>3. \A i \in DOMAIN Added : i # Len(wire) => Whole(Added[i])
  <2> SUFFICES ASSUME NEW i \in DOMAIN Added, i # Len(wire) PROVE Whole(Added[i])
    OBVIOUS
  <2>1. i \in 1..Len(wire) /\ DOMAIN wire = 1..Len(wire)
    BY <1>1, <1>2
  <2>2. Whole(wire[i])
    BY <1>1, <2>1 DEF FramedInv
  <2> QED
    BY <1>2, <2>1, <2>2
<1>4. ~headersSent => Added = wire
  BY <1>1, <1>2 DEF FramedInv
<1>5. ASSUME headersSent PROVE Spoiled(new) /\ new.ka = announced
  <2>1. Last.ka = announced /\ (Spoiled(Last) \/ Last.heads = 1)
    BY <1>5 DEF FramedInv, Complete
  <2>2. CASE Last.heads = 1
    <3>1. new.odd = Last.odd \cup {"late"}
      BY <1>2, <2>2
    <3>2. "late" \in new.odd
      BY <3>1
    <3>3. Spoiled(new)
      BY <3>2 DEF Spoiled
    <3> QED
      BY <1>2, <2>1, <3>3
  <2>3. CASE Spoiled(Last)
    <3>1. CASE new.odd = Last.odd \cup {"late"}
      BY <1>2, <2>1, <3>1 DEF Spoiled
    <3>2. CASE Added = wire
      BY <2>1, <2>3, <3>2 DEF Last
    <3> QED
      BY <1>2, <3>1, <3>2
  <2> QED
    BY <2>1, <2>2, <2>3
<1>6. Last' = new
  BY <1>2 DEF Last
<1> QED
  BY <1>2, <1>3, <1>4, <1>5, <1>6

LEMMA FramedStep ==
  ASSUME TypeInv, FramedInv, [Next]_vars
  PROVE  FramedInv'
<1>0. TypeOK /\ wire \in Seq(Responses)
  BY DEF TypeInv, TypeOK
<1>1. CASE Accept
  BY <1>1 DEF Accept, FramedInv, Framed, Current
<1>2. CASE Exit \/ Close \/ ReadNothing \/ ReadThrows
  BY <1>2 DEF Exit, Close, ReadNothing, ReadThrows, FramedInv, Framed, Current
<1>3. ASSUME NEW asked \in BOOLEAN, ReadRequest(asked) PROVE FramedInv'
  <2>1. wire' = Append(wire, Unsent(handled + 1)) /\ pc = "read" /\ pc' = "handle"
    BY <1>3 DEF ReadRequest
  <2>2. /\ Len(wire') = Len(wire) + 1 /\ wire'[Len(wire')] = Unsent(handled + 1)
        /\ \A i \in DOMAIN wire' : i # Len(wire') =>
             i \in DOMAIN wire /\ wire'[i] = wire[i]
    BY <1>0, <2>1
  <2>3. \A i \in DOMAIN wire : Whole(wire[i])
    BY <2>1 DEF FramedInv, Framed, Whole
  <2>4. Unsent(handled + 1).heads = 0 /\ Unsent(handled + 1).body = 0
    BY DEF Unsent
  <2>5. headersSent' = FALSE /\ keepAlive' = announced'
    BY <1>3 DEF ReadRequest, ResInit
  <2>6. \A i \in DOMAIN wire' : i # Len(wire') => Whole(wire'[i])
    BY <2>2, <2>3
  <2>7. Last'.heads = 0 /\ Last'.body = 0
    BY <2>2, <2>4 DEF Last
  <2> QED
    BY <2>1, <2>5, <2>6, <2>7 DEF FramedInv, Framed
<1>4. CASE Write \/ \E size \in Sizes : SendFile(size)
  <2>1. /\ pc = "handle" /\ pc \in Current /\ wire' = Added /\ pc' \in {"handle", "send"}
        /\ UNCHANGED <<keepAlive, headersSent, announced>>
        /\ pc' = "send" => buf' = <<>>
    BY <1>4 DEF Write, SendFile, Current
  <2>2. /\ \A i \in DOMAIN wire' : i # Len(wire') => Whole(wire'[i])
        /\ ~headersSent => wire' = wire
        /\ headersSent => Spoiled(Last') /\ Last'.ka = announced
    BY <2>1, Adds
  <2>3. keepAlive' = announced'
    BY <2>1 DEF FramedInv
  <2>4. ~headersSent' => Last'.heads = 0 /\ Last'.body = 0
    <3> SUFFICES ASSUME ~headersSent PROVE Last'.heads = 0 /\ Last'.body = 0
      BY <2>1
    <3>1. Last' = Last
      BY <2>2 DEF Last
    <3> QED
      BY <2>1, <3>1 DEF FramedInv
  <2>5. headersSent' => Spoiled(Last') /\ Last'.ka = announced'
    BY <2>1, <2>2
  <2> QED
    BY <2>1, <2>2, <2>3, <2>4, <2>5 DEF FramedInv, Framed
<1>6. CASE NotModified \/ ResetBuffer
  BY <1>6 DEF NotModified, ResetBuffer, client, FramedInv, Framed, Current, Last
<1>7. CASE Stop \/ Return \/ Throw \/ Loop
  BY <1>7 DEF Stop, Return, Throw, Loop, response, client, FramedInv, Framed, Current,
     Last
<1>8. CASE FileFails
  BY <1>8 DEF FileFails, FramedInv, Framed, Current
<1>9. CASE FileSent \/ FileCopied
  <2>1. /\ pc = "send" /\ pc \in Current /\ headersSent' = TRUE /\ pc' = "handle"
        /\ UNCHANGED <<keepAlive, announced, buf>>
    BY <1>9 DEF FileSent, FileCopied, Current
  <2>2. /\ wire' \in Seq(Responses) /\ wire' # <<>>
        /\ \A i \in DOMAIN wire' : Whole(wire'[i])
        /\ Last'.ka = announced'
    BY <1>9, <2>1, FileCompletes
  <2>3. Len(wire') \in DOMAIN wire'
    BY <2>2
  <2>4. Complete(Last') \/ Spoiled(Last')
    BY <2>2, <2>3 DEF Whole, Last
  <2>5. keepAlive' = announced' /\ buf' = <<>>
    BY <2>1 DEF FramedInv
  <2> QED
    BY <2>1, <2>2, <2>4, <2>5 DEF FramedInv, Framed
<1>15. CASE FileShrinks
  <2>1. /\ pc = "send" /\ pc \in Current /\ pc' = "stuck" /\ headersSent' = TRUE
        /\ UNCHANGED <<keepAlive, announced>>
    BY <1>15 DEF FileShrinks, Current
  <2>2. LastChanges(wire')
    BY <1>15, Changes DEF Sending
  <2>3. \A i \in DOMAIN wire' : i # Len(wire') => Whole(wire'[i])
    <3> SUFFICES ASSUME NEW i \in DOMAIN wire', i # Len(wire') PROVE Whole(wire'[i])
      OBVIOUS
    <3>1. i \in 1..Len(wire) /\ DOMAIN wire = 1..Len(wire) /\ i # Len(wire)
      BY <1>0, <2>2 DEF LastChanges
    <3>2. wire'[i] = wire[i]
      BY <2>2, <3>1 DEF LastChanges
    <3> QED
      BY <2>1, <3>1, <3>2 DEF FramedInv
  <2>4. keepAlive' = announced'
    BY <2>1 DEF FramedInv
  <2> QED
    BY <2>1, <2>3, <2>4 DEF FramedInv, Framed
<1>10. CASE Flush
  <2>1. \A i \in DOMAIN wire' : Whole(wire'[i])
    BY <1>10, FlushCompletes
  <2>2. pc' \in {"read", "close"}
    BY <1>10 DEF Flush
  <2> QED
    BY <2>1, <2>2 DEF FramedInv, Framed, Current, Whole
<1>11. CASE FlushFails \/ ErrorPage \/ ErrorExit
  BY <1>11 DEF FlushFails, ErrorPage, ErrorExit, FramedInv, Framed, Current
<1>12. CASE EndRequest
  BY <1>12 DEF EndRequest, response, client, FramedInv, Framed, Current, Last
<1>13. CASE WatchdogFires \/ BrokenPipe
  BY <1>13 DEF WatchdogFires, BrokenPipe, FramedInv, Framed, Current
<1>14. CASE ClientStalls \/ UNCHANGED vars
  BY <1>14 DEF ClientStalls, vars, response, FramedInv, Framed, Last
<1> QED
  BY <1>1, <1>2, <1>3, <1>4, <1>6, <1>7, <1>8, <1>9, <1>10, <1>11,
     <1>12, <1>13, <1>14, <1>15 DEF Next, Request, Handler, Sending, Finish

LEMMA FramedInvInvariant == Spec => [](TypeInv /\ FramedInv)
<1>1. Init => FramedInv
  BY DEF Init, FramedInv, Framed, Current
<1>2. TypeInv /\ FramedInv /\ [Next]_vars => FramedInv'
  BY FramedStep
<1> QED
  BY <1>1, <1>2, TypeInvInvariant, PTL DEF Spec

\* Whatever fails, the responses on a connection that is read again are complete,
\* so that the client can tell where the next begins; but for those whose handler
\* gave them a header that is not ASCII, or added to them after their header.
THEOREM FramedSafety == Spec => []Framed
BY FramedInvInvariant, PTL DEF FramedInv

LEMMA KeepAliveStep ==
  ASSUME TypeInv, FramedInv, [Next]_vars, pc = "flush",
         pc' \in {"read", "close"}, Complete(wire'[Len(wire')])
  PROVE  pc' = "read" <=> wire'[Len(wire')].ka
<1>1. Flush \/ FlushFails
  BY DEF Next, Accept, Exit, Request, ReadNothing, ReadThrows, ReadRequest,
     Handler, Write, SendFile, NotModified, ResetBuffer, Stop, Return, Throw,
     Loop, Sending, FileSent, FileCopied, FileFails, FileShrinks, Finish, ErrorPage,
     ErrorExit, EndRequest, Close, WatchdogFires, BrokenPipe, ClientStalls, vars
<1>2. keepAlive = announced
  BY DEF FramedInv, Current
<1>3. CASE Flush
  <2>1. wire'[Len(wire')].ka = announced
    BY <1>3, FlushCompletes DEF Last
  <2>2. pc' = IF keepAlive THEN "read" ELSE "close"
    BY <1>3 DEF Flush
  <2>3. announced \in BOOLEAN
    BY DEF TypeInv, TypeOK
  <2>4. CASE announced
    BY <1>2, <2>1, <2>2, <2>4
  <2>5. CASE ~announced
    BY <1>2, <2>1, <2>2, <2>5
  <2> QED
    BY <2>4, <2>5
<1>4. CASE FlushFails
  <2>1. TypeOK /\ wire # <<>> /\ Last \in Responses /\ wire'[Len(wire')] = Last'
    BY LastType DEF TypeInv, CurrentInv, Current, Last
  <2>2. Len(buf) \in Nat /\ {} \in SUBSET Numbers
    BY <2>1, FlushedFrom
  <2>3. wire' = wire \/ (buf # <<>> /\ \E odd \in Header : wire' = Sent(Len(buf), 0, {}, odd))
    BY <1>4 DEF FlushFails
  <2>4. buf # <<>> => Len(buf) # 0
    BY <2>1 DEF TypeOK
  <2>5. CASE wire' = wire
    <3>1. Last' = Last
      BY <2>5 DEF Last
    <3>2. CASE ~headersSent
      BY <2>1, <3>1, <3>2 DEF FramedInv, Complete, Current
    <3>3. CASE headersSent
      <4>1. buf # <<>>
        BY <1>4, <3>3 DEF FlushFails, NothingToSend
      <4>2. Spoiled(Last)
        BY <3>3, <4>1 DEF FramedInv
      <4> QED
        BY <2>1, <3>1, <4>2 DEF Complete
    <3> QED
      BY <3>2, <3>3
  <2>6. ASSUME NEW odd \in Header, buf # <<>>, wire' = Sent(Len(buf), 0, {}, odd)
        PROVE  FALSE
    <3>1. odd \in SUBSET Odd
      BY HeaderOdd
    <3>2. /\ Len(wire') = Len(wire)
          /\ wire'[Len(wire)] = Grown(Last, Len(buf), 0, {}, odd)
      BY <2>1, <2>2, <2>6, <3>1, SentIs DEF Last
    <3>3. CASE ~headersSent
      <4>1. Last.heads = 0 /\ Last.body = 0
        BY <3>3 DEF FramedInv, Current
      <4>2. /\ Grown(Last, Len(buf), 0, {}, odd).len = Len(buf)
            /\ Grown(Last, Len(buf), 0, {}, odd).body = 0
        BY <2>1, <2>2, <3>3, <4>1, FirstSent
      <4> QED
        BY <2>4, <2>6, <3>2, <4>2 DEF Complete
    <3>4. CASE headersSent
      <4>1. Spoiled(Last)
        BY <2>6, <3>4 DEF FramedInv
      <4>2. Spoiled(Grown(Last, Len(buf), 0, {}, odd))
        BY <4>1, SpoiledStays
      <4> QED
        BY <3>2, <4>2 DEF Complete
    <3> QED
      BY <3>3, <3>4
  <2> QED
    BY <2>3, <2>5, <2>6
<1> QED
  BY <1>1, <1>3, <1>4

\* The connection is kept after a complete response if and only if its header said
\* so.
THEOREM KeepAliveSafety == Spec => KeepAliveHonoured
<1>1. TypeInv /\ FramedInv /\ [Next]_vars =>
        [pc = "flush" /\ pc' \in {"read", "close"} /\ Complete(wire'[Len(wire')])
           => (pc' = "read" <=> wire'[Len(wire')].ka)]_vars
  BY KeepAliveStep
<1> QED
  BY <1>1, FramedInvInvariant, PTL DEF Spec, KeepAliveHonoured
-----------------------------------------------------------------------------
\* The refinement.  The answers a client has are the responses of requests that
\* are done with: while a request is served its response, if there is one yet,
\* is the last on the wire and no answer.
Tellings == [req : Nat, whole : BOOLEAN, spoiled : BOOLEAN, ka : BOOLEAN]

OrderInv == \A i \in DOMAIN wire : wire[i].req <= handled

ConnInv == TypeInv /\ FramedInv /\ IdleUnarmed /\ OrderInv

LEMMA ToldType ==
  ASSUME NEW r \in Responses
  PROVE  Told(r) \in Tellings
<1>1. r.req \in Nat /\ r.ka \in BOOLEAN
  BY ConstantsOK DEF Responses
<1>2. Complete(r) \in BOOLEAN /\ Spoiled(r) \in BOOLEAN
  BY DEF Complete, Spoiled
<1> QED BY <1>1, <1>2 DEF Told, Tellings

\* The answers by their number and one by one.
LEMMA AnswersAre ==
  ASSUME TypeOK
  PROVE  /\ wire \in Seq(Responses) /\ Len(wire) \in Nat
         /\ Answered \in 0..Len(wire)
         /\ Answers \in Seq(Tellings) /\ Len(Answers) = Answered
         /\ \A i \in 1..Answered : Answers[i] = Told(wire[i])
<1>1. wire \in Seq(Responses) /\ Len(wire) \in Nat
  BY DEF TypeOK
<1>2. wire # <<>> => Len(wire) >= 1
  BY <1>1
<1>3. Answered \in 0..Len(wire)
  BY <1>1, <1>2 DEF Answered
<1> DEFINE n == Answered
<1>4. \A i \in 1..n : Told(wire[i]) \in Tellings
  <2> SUFFICES ASSUME NEW i \in 1..n PROVE Told(wire[i]) \in Tellings
    OBVIOUS
  <2>1. i \in 1..Len(wire)
    BY <1>1, <1>3
  <2>2. wire[i] \in Responses
    BY <1>1, <2>1
  <2> QED BY <2>2, ToldType
<1>5. Answers = [i \in 1..n |-> Told(wire[i])]
  BY DEF Answers
<1> HIDE DEF n
<1>6. n \in Nat
  BY <1>1, <1>3 DEF n
<1>7. Answers \in [1..n -> Tellings]
  BY <1>4, <1>5
<1>8. Answers \in Seq(Tellings) /\ Len(Answers) = n
  BY <1>6, <1>7
<1>9. \A i \in 1..n : Answers[i] = Told(wire[i])
  BY <1>5
<1> QED BY <1>1, <1>3, <1>8, <1>9 DEF n

\* The answers stay when their number and the responses they are do.
LEMMA AnswersStay ==
  ASSUME TypeOK, TypeOK', Answered' = Answered,
         \A i \in 1..Answered : wire'[i] = wire[i]
  PROVE  Answers' = Answers
<1>1. /\ Answers \in Seq(Tellings) /\ Len(Answers) = Answered
      /\ \A i \in 1..Answered : Answers[i] = Told(wire[i])
  BY AnswersAre
<1>2. Answers' = [i \in 1..Answered |-> Told(wire'[i])]
  BY DEF Answers
<1>3. Answers = [i \in 1..Answered |-> Told(wire[i])]
  BY DEF Answers
<1> QED BY <1>2, <1>3

\* A request that is done with is one answer more.
LEMMA AnswersGrow ==
  ASSUME TypeOK, TypeOK', Answered + 1 = Len(wire), Answered' = Len(wire'),
         Len(wire') = Len(wire), \A i \in 1..Len(wire) : i # Len(wire) => wire'[i] = wire[i]
  PROVE  Answers' = Append(Answers, Told(wire'[Len(wire')]))
<1> DEFINE n == Answered
           x == Told(wire'[Len(wire')])
<1>1. /\ Answers \in Seq(Tellings) /\ Len(Answers) = n /\ n \in Nat /\ Len(wire) = n + 1
      /\ \A i \in 1..n : Answers[i] = Told(wire[i])
  BY AnswersAre
<1>2. wire' \in Seq(Responses) /\ Len(wire') = n + 1
  BY <1>1 DEF TypeOK
<1>3. \A i \in 1..(n + 1) : Told(wire'[i]) \in Tellings
  BY <1>2, ToldType
<1>4. Answers' = [i \in 1..(n + 1) |-> Told(wire'[i])]
  BY <1>2 DEF Answers
<1>5. x = Told(wire'[n + 1]) /\ x \in Tellings
  BY <1>1, <1>2, <1>3
<1> HIDE DEF n, x
<1>6. Answers' \in [1..(n + 1) -> Tellings] /\ n + 1 \in Nat
  BY <1>1, <1>3, <1>4
<1>7. Answers' \in Seq(Tellings) /\ Len(Answers') = n + 1
  BY <1>6
<1>8. /\ Append(Answers, x) \in Seq(Tellings) /\ Len(Append(Answers, x)) = n + 1
      /\ \A i \in 1..n : Append(Answers, x)[i] = Answers[i]
      /\ Append(Answers, x)[n + 1] = x
  BY <1>1, <1>5, AppendProperties
<1>9. ASSUME NEW i \in 1..(n + 1) PROVE Answers'[i] = Append(Answers, x)[i]
  <2>1. CASE i = n + 1
    BY <1>4, <1>5, <1>8, <2>1
  <2>2. CASE i # n + 1
    <3>1. i \in 1..n /\ i \in 1..Len(wire) /\ i # Len(wire)
      BY <1>1, <2>2
    <3>2. wire'[i] = wire[i]
      BY <3>1
    <3> QED BY <1>1, <1>4, <1>8, <3>1, <3>2
  <2> QED BY <2>1, <2>2
<1>10. Answers' = Append(Answers, x)
  BY <1>7, <1>8, <1>9, SeqEqual
<1> QED BY <1>10 DEF x

\* How many answers there are.
LEMMA HowMany ==
  ASSUME TypeInv
  PROVE  /\ pc \in Current => Answered + 1 = Len(wire) /\ wire # <<>>
         /\ pc \notin Serving => Answered = Len(wire)
         /\ Answered = Len(wire) \/ Answered + 1 = Len(wire)
<1>1. wire \in Seq(Responses) /\ Len(wire) \in Nat
  BY DEF TypeInv, TypeOK
<1>2. Current \subseteq Serving
  BY DEF Current, Serving
<1> QED BY <1>1, <1>2 DEF TypeInv, CurrentInv, Answered

-----------------------------------------------------------------------------
\* OrderInv: the requests on the wire are no later than the one being served.
LEMMA OrderStep ==
  ASSUME TypeInv, OrderInv, [Next]_vars
  PROVE  OrderInv'
<1>0. /\ TypeOK /\ wire \in Seq(Responses) /\ Len(wire) \in Nat /\ handled \in Nat
      /\ DOMAIN wire = 1..Len(wire)
  BY ConstantsOK DEF TypeInv, TypeOK
<1>r. \A i \in DOMAIN wire : wire[i].req \in Nat
  <2> SUFFICES ASSUME NEW i \in 1..Len(wire) PROVE wire[i].req \in Nat
    BY <1>0
  <2>1. wire[i] \in Responses
    BY <1>0
  <2>2. wire[i].req \in 1..RequestsPerChild + 1
    BY <2>1 DEF Responses
  <2> QED BY <2>2, ConstantsOK
<1>1. CASE Accept
  BY <1>1 DEF Accept, OrderInv
<1>2. CASE ReadNothing \/ ReadThrows
  <2>1. wire' = wire /\ handled' = handled + 1
    BY <1>2 DEF ReadNothing, ReadThrows, client
  <2> QED BY <1>0, <1>r, <2>1 DEF OrderInv
<1>3. ASSUME NEW asked \in BOOLEAN, ReadRequest(asked) PROVE OrderInv'
  <2>1. wire' = Append(wire, Unsent(handled + 1)) /\ handled' = handled + 1
    BY <1>3 DEF ReadRequest
  <2>2. /\ DOMAIN wire' = 1..(Len(wire) + 1)
        /\ wire'[Len(wire) + 1] = Unsent(handled + 1)
        /\ \A i \in 1..Len(wire) : wire'[i] = wire[i]
    BY <1>0, <2>1
  <2>3. Unsent(handled + 1).req = handled + 1
    BY DEF Unsent
  <2>4. ASSUME NEW i \in 1..(Len(wire) + 1) PROVE wire'[i].req <= handled + 1
    <3>1. CASE i = Len(wire) + 1
      BY <1>0, <2>2, <2>3, <3>1
    <3>2. CASE i # Len(wire) + 1
      <4>1. i \in DOMAIN wire /\ wire'[i] = wire[i]
        BY <1>0, <2>2, <3>2
      <4> QED BY <1>0, <1>r, <4>1 DEF OrderInv
    <3> QED BY <3>1, <3>2
  <2> QED BY <2>1, <2>2, <2>4 DEF OrderInv
<1>4. CASE Sending \/ Flush \/ FlushFails \/ Write \/ \E size \in Sizes : SendFile(size)
  <2>1. handled' = handled /\ LastChanges(wire')
    BY <1>4, Changes
  <2>2. ASSUME NEW i \in 1..Len(wire) PROVE wire'[i].req = wire[i].req
    BY <2>1 DEF LastChanges
  <2>3. DOMAIN wire' = 1..Len(wire)
    BY <2>1 DEF LastChanges
  <2>4. \A i \in 1..Len(wire) : wire'[i].req <= handled
    BY <1>0, <2>2 DEF OrderInv
  <2> QED BY <2>1, <2>3, <2>4 DEF OrderInv
<1>5. CASE Exit \/ Close \/ NotModified \/ ResetBuffer \/ Stop \/ Return \/ Throw \/ Loop
             \/ ErrorPage \/ ErrorExit \/ EndRequest
  <2>1. UNCHANGED <<wire, handled>>
    BY <1>5 DEF Exit, Close, NotModified, ResetBuffer, Stop, Return, Throw, Loop,
       ErrorPage, ErrorExit, EndRequest, client, response
  <2> QED BY <2>1 DEF OrderInv
<1>6. CASE WatchdogFires \/ BrokenPipe \/ ClientStalls \/ UNCHANGED vars
  <2>1. UNCHANGED <<wire, handled>>
    BY <1>6 DEF WatchdogFires, BrokenPipe, ClientStalls, vars, client
  <2> QED BY <2>1 DEF OrderInv
<1> QED BY <1>1, <1>2, <1>3, <1>4, <1>5, <1>6 DEF Next, Request, Handler, Finish
-----------------------------------------------------------------------------
\* What a step does to the answers.
LEMMA States ==
  /\ pc = "accept" => ConnState = "closed"
  /\ pc = "read" => ConnState = "waiting"
  /\ pc \in Serving => ConnState = "serving"
  /\ pc = "close" => ConnState = "closing"
  /\ pc \in {"exited", "dead"} => ConnState = "ended"
  BY DEF ConnState, Serving

LEMMA StatesNext ==
  /\ pc' = "accept" => ConnState' = "closed"
  /\ pc' = "read" => ConnState' = "waiting"
  /\ pc' \in Serving => ConnState' = "serving"
  /\ pc' = "close" => ConnState' = "closing"
  /\ pc' \in {"exited", "dead"} => ConnState' = "ended"
  BY DEF ConnState, Serving

\* A request goes on: what the client has been told stays.
LEMMA GoesOn ==
  ASSUME TypeInv, TypeOK', pc \in Serving, pc' \in Serving, handled' = handled,
         Len(wire') = Len(wire), wire' = <<>> <=> wire = <<>>,
         wire # <<>> => wire'[Len(wire)].req = wire[Len(wire)].req,
         \A i \in 1..Len(wire) : i # Len(wire) => wire'[i] = wire[i],
         Answered = Len(wire) => wire' = wire
  PROVE  UNCHANGED Conn!vars
<1>1. TypeOK
  BY DEF TypeInv
<1>2. Answered' = Answered
  BY DEF Answered
<1>3. Answered \in 0..Len(wire) /\ Len(wire) \in Nat
  BY <1>1, AnswersAre
<1>4. \A i \in 1..Answered : wire'[i] = wire[i]
  <2>1. CASE Answered = Len(wire)
    BY <2>1
  <2>2. CASE Answered # Len(wire)
    <3>1. \A i \in 1..Answered : i \in 1..Len(wire) /\ i # Len(wire)
      BY <1>3, <2>2
    <3> QED BY <3>1
  <2> QED BY <2>1, <2>2
<1>5. Answers' = Answers
  BY <1>1, <1>2, <1>4, AnswersStay
<1>6. ConnState = "serving" /\ ConnState' = "serving"
  BY States, StatesNext
<1> QED BY <1>5, <1>6 DEF Conn!vars

\* A request ends without a word, or with what is on the wire for it.
LEMMA IsOver ==
  ASSUME TypeInv, TypeOK', pc \in Serving, pc' \in {"close", "dead"}, handled' = handled,
         OrderInv, Len(wire') = Len(wire),
         wire # <<>> => wire'[Len(wire)].req = wire[Len(wire)].req,
         \A i \in 1..Len(wire) : i # Len(wire) => wire'[i] = wire[i],
         Answered = Len(wire) => wire' = wire
  PROVE  Conn!Fail
<1>1. TypeOK /\ pc' \notin Serving
  BY DEF TypeInv, Serving
<1>2. /\ Answered \in 0..Len(wire) /\ Len(wire) \in Nat
      /\ Answered = Len(wire) \/ Answered + 1 = Len(wire)
  BY <1>1, AnswersAre, HowMany
<1>3. Answered' = Len(wire')
  BY <1>1 DEF Answered
<1>4. ConnState = "serving" /\ ConnState' \in {"closing", "ended"}
  BY States, StatesNext
<1>5. CASE Answered = Len(wire)
  <2>1. Answered' = Answered /\ \A i \in 1..Answered : wire'[i] = wire[i]
    BY <1>3, <1>5
  <2>2. Answers' = Answers
    BY <1>1, <2>1, AnswersStay
  <2> QED BY <1>4, <2>2 DEF Conn!Fail
<1>6. CASE Answered + 1 = Len(wire)
  <2> DEFINE r == wire'[Len(wire')]
  <2>1. Answers' = Append(Answers, Told(r))
    BY <1>1, <1>3, <1>6, AnswersGrow
  <2>2. wire' \in Seq(Responses) /\ Len(wire) \in 1..Len(wire')
    BY <1>2, <1>6 DEF TypeOK
  <2>3. r \in Responses
    BY <2>2
  <2>4. r.req = handled
    <3>1. wire # <<>> /\ wire[Len(wire)].req = handled
      BY <1>2, <1>6 DEF Answered
    <3> QED BY <3>1
  <2>5. r.ka \in BOOLEAN /\ Complete(r) \in BOOLEAN /\ Spoiled(r) \in BOOLEAN
    BY <2>3 DEF Responses, Complete, Spoiled
  <2> HIDE DEF r
  <2>6. Told(r) = Conn!Answer(Complete(r), Spoiled(r), r.ka)
    BY <2>4 DEF Told, Conn!Answer
  <2>7. \E whole, spoiled, ka \in BOOLEAN :
          Answers' = Append(Answers, Conn!Answer(whole, spoiled, ka))
    BY <2>1, <2>5, <2>6
  <2> QED BY <1>4, <2>7 DEF Conn!Fail
<1> QED BY <1>2, <1>5, <1>6

\* The flush of a response is the reply to its request.
LEMMA FlushReplies ==
  ASSUME TypeInv, TypeOK', FramedInv, Flush
  PROVE  \E whole, ka \in BOOLEAN : Conn!Reply(whole, ka)
<1>1. /\ pc = "flush" /\ pc \in Current /\ pc \in Serving /\ handled' = handled
      /\ pc' = IF keepAlive THEN "read" ELSE "close"
  BY DEF Flush, Current, Serving
<1>2. /\ TypeOK /\ keepAlive \in BOOLEAN /\ wire \in Seq(Responses)
      /\ keepAlive = announced
      /\ keepAlive => handled <= RequestsPerChild
  BY <1>1 DEF TypeInv, TypeOK, LimitInv, FramedInv
<1>3. /\ wire' \in Seq(Responses) /\ Len(wire') = Len(wire) /\ wire' # <<>>
      /\ \A i \in DOMAIN wire' : Whole(wire'[i])
      /\ wire'[Len(wire')].ka = announced
  BY FlushCompletes DEF Last
<1>4. /\ \A i \in 1..Len(wire) : i # Len(wire) => wire'[i] = wire[i]
      /\ wire'[Len(wire)].req = handled
  <2>1. wire # <<>> /\ wire[Len(wire)].req = handled
    BY <1>1 DEF TypeInv, CurrentInv
  <2>2. LastChanges(wire')
    BY Changes
  <2> QED BY <2>1, <2>2 DEF LastChanges
<1> DEFINE r == wire'[Len(wire')]
<1>5. /\ Answered + 1 = Len(wire) /\ Answered' = Len(wire')
  <2>1. pc' \notin Serving
    BY <1>1 DEF Serving
  <2>2. Answered' = Len(wire')
    BY <2>1 DEF Answered
  <2> QED BY <1>1, <2>2, HowMany
<1>6. Answers' = Append(Answers, Told(r))
  BY <1>2, <1>3, <1>4, <1>5, AnswersGrow
<1>7. Whole(r) /\ r.req = handled /\ r.ka = keepAlive
  <2>1. Len(wire') \in DOMAIN wire'
    BY <1>3
  <2> QED BY <1>2, <1>3, <1>4, <2>1
<1> HIDE DEF r
<1>8. /\ Complete(r) \in BOOLEAN /\ Spoiled(r) \in BOOLEAN
      /\ Spoiled(r) = ~Complete(r)
  BY <1>7 DEF Whole, Complete, Spoiled
<1>9. Told(r) = Conn!Answer(Complete(r), ~Complete(r), keepAlive)
  BY <1>7, <1>8 DEF Told, Conn!Answer
<1>10. /\ ConnState = "serving"
       /\ ConnState' = IF keepAlive THEN "waiting" ELSE "closing"
  BY <1>1, States, StatesNext
<1>11. Conn!Reply(Complete(r), keepAlive)
  BY <1>1, <1>2, <1>6, <1>9, <1>10 DEF Conn!Reply
<1> QED BY <1>2, <1>8, <1>11
\* A step on a connection that is not serving keeps the answers it keeps.
LEMMA Untouched ==
  ASSUME TypeInv, TypeOK', wire' = wire, Answered' = Len(wire), Answered = Len(wire)
  PROVE  Answers' = Answers
<1>1. TypeOK
  BY DEF TypeInv
<1> QED BY <1>1, AnswersStay

\* Each step of the child is a step of the connection, or none.
LEMMA ConnStep ==
  ASSUME ConnInv, TypeOK', [Next]_vars
  PROVE  [Conn!Next]_(Conn!vars)
<1>0. /\ TypeInv /\ FramedInv /\ IdleUnarmed /\ OrderInv /\ TypeOK
      /\ wire \in Seq(Responses) /\ Len(wire) \in Nat /\ handled \in Nat
  BY ConstantsOK DEF ConnInv, TypeInv, TypeOK
<1>1. CASE Accept
  <2>1. /\ pc = "accept" /\ pc' = "read" /\ handled < RequestsPerChild
        /\ handled' = handled /\ wire' = <<>>
    BY <1>1 DEF Accept
  <2>2. Answered' = 0
    BY <2>1 DEF Answered, Serving
  <2>3. Answers' = <<>>
    BY <2>2 DEF Answers
  <2> QED BY <2>1, <2>3, States, StatesNext DEF Conn!Open, Conn!Next
<1>2. CASE Exit
  <2>1. /\ pc = "accept" /\ pc' = "exited" /\ handled >= RequestsPerChild
        /\ handled' = handled /\ wire' = wire
    BY <1>2 DEF Exit, client
  <2>2. Answers' = Answers
    <3>1. Answered = Len(wire) /\ Answered' = Len(wire)
      BY <2>1 DEF Answered, Serving
    <3> QED BY <1>0, <2>1, <3>1, Untouched
  <2> QED BY <2>1, <2>2, States, StatesNext DEF Conn!Retire, Conn!Next
<1>3. CASE ReadNothing \/ ReadThrows
  <2>1. /\ pc = "read" /\ pc' \in {"close", "error"} /\ pc' \in Serving \cup {"close"}
        /\ handled' = handled + 1 /\ wire' = wire
    BY <1>3 DEF ReadNothing, ReadThrows, client, Serving
  <2>2. Answered = Len(wire)
    BY <2>1 DEF Answered, Serving
  <2>3. Answered' = Len(wire)
    <3>1. wire # <<>> => wire[Len(wire)].req # handled'
      <4> SUFFICES ASSUME wire # <<>> PROVE wire[Len(wire)].req # handled + 1
        BY <2>1
      <4>1. Len(wire) \in DOMAIN wire
        BY <1>0
      <4>2. wire[Len(wire)].req <= handled
        BY <1>0, <4>1 DEF OrderInv
      <4>3. wire[Len(wire)] \in Responses
        BY <1>0, <4>1
      <4>4. wire[Len(wire)].req \in Nat
        BY <4>3, ConstantsOK DEF Responses
      <4> QED BY <1>0, <4>2, <4>4
    <3> QED BY <2>1, <3>1 DEF Answered
  <2>4. Answers' = Answers
    BY <1>0, <2>1, <2>2, <2>3, Untouched
  <2>5. ConnState = "waiting" /\ ConnState' \in {"serving", "closing"}
    BY <2>1, States, StatesNext
  <2> QED BY <2>1, <2>4, <2>5 DEF Conn!Ask, Conn!Next
<1>4. ASSUME NEW asked \in BOOLEAN, ReadRequest(asked) PROVE Conn!Next
  <2>1. /\ pc = "read" /\ pc' = "handle" /\ pc' \in Serving
        /\ handled' = handled + 1 /\ wire' = Append(wire, Unsent(handled + 1))
    BY <1>4 DEF ReadRequest, Serving
  <2>2. /\ Len(wire') = Len(wire) + 1 /\ wire' # <<>>
        /\ wire'[Len(wire) + 1] = Unsent(handled + 1)
        /\ \A i \in 1..Len(wire) : wire'[i] = wire[i]
    BY <1>0, <2>1
  <2>3. Answered = Len(wire)
    BY <2>1 DEF Answered, Serving
  <2>4. wire'[Len(wire')].req = handled'
    BY <2>1, <2>2 DEF Unsent
  <2>5. Answered' = Len(wire') - 1
    BY <2>1, <2>2, <2>4 DEF Answered
  <2>6. Answered' = Answered
    BY <1>0, <2>2, <2>3, <2>5
  <2>7. Answers' = Answers
    BY <1>0, <2>2, <2>3, <2>6, AnswersStay
  <2>8. ConnState = "waiting" /\ ConnState' = "serving"
    BY <2>1, States, StatesNext
  <2> QED BY <2>1, <2>7, <2>8 DEF Conn!Ask, Conn!Next
<1>5. CASE Handler \/ Sending \/ (EndRequest /\ pc' = "flush")
  <2>1. pc \in Current /\ pc \in Serving /\ pc' \in Serving /\ handled' = handled
    BY <1>5 DEF Handler, Write, SendFile, NotModified, ResetBuffer, Stop, Return,
       Throw, Loop, Sending, FileSent, FileCopied, FileFails, FileShrinks, EndRequest, Current,
       Serving
  <2>2. Answered + 1 = Len(wire) /\ wire # <<>>
    BY <1>0, <2>1, HowMany
  <2>3. CASE wire' = wire
    BY <1>0, <2>1, <2>3, GoesOn
  <2>4. CASE Sending \/ Write \/ \E size \in Sizes : SendFile(size)
    <3>1. LastChanges(wire')
      BY <1>0, <2>4, Changes
    <3>2. /\ Len(wire') = Len(wire) /\ wire' # <<>>
          /\ wire'[Len(wire)].req = wire[Len(wire)].req
          /\ \A i \in 1..Len(wire) : i # Len(wire) => wire'[i] = wire[i]
      BY <3>1 DEF LastChanges
    <3>3. Answered # Len(wire)
      BY <1>0, <2>2, AnswersAre
    <3> QED BY <1>0, <2>1, <2>2, <3>2, <3>3, GoesOn
  <2>5. wire' = wire \/ Sending \/ Write \/ \E size \in Sizes : SendFile(size)
    BY <1>5 DEF Handler, NotModified, ResetBuffer, Stop, Return, Throw, Loop,
       EndRequest, client
  <2> QED BY <2>3, <2>4, <2>5
<1>6. CASE Flush
  BY <1>0, <1>6, FlushReplies DEF Conn!Next
<1>7. CASE FlushFails
  <2>1. /\ pc = "flush" /\ pc \in Current /\ pc \in Serving /\ pc' = "close"
        /\ handled' = handled
    BY <1>7 DEF FlushFails, Current, Serving
  <2>2. Answered + 1 = Len(wire) /\ Answered # Len(wire)
    BY <1>0, <2>1, HowMany, AnswersAre
  <2>3. LastChanges(wire')
    BY <1>0, <1>7, Changes
  <2>4. /\ Len(wire') = Len(wire)
        /\ wire'[Len(wire)].req = wire[Len(wire)].req
        /\ \A i \in 1..Len(wire) : i # Len(wire) => wire'[i] = wire[i]
    BY <2>3 DEF LastChanges
  <2> QED BY <1>0, <2>1, <2>2, <2>4, IsOver DEF Conn!Next
<1>8. CASE ErrorPage \/ ErrorExit \/ (EndRequest /\ pc' = "dead") \/ BrokenPipe
             \/ (WatchdogFires /\ pc \in Serving)
  <2>1. /\ pc \in Serving /\ pc' \in {"close", "dead"} /\ handled' = handled
        /\ wire' = wire
    BY <1>8 DEF ErrorPage, ErrorExit, EndRequest, BrokenPipe, WatchdogFires, client,
       Serving
  <2> QED BY <1>0, <2>1, IsOver DEF Conn!Next
<1>9. CASE Close \/ (WatchdogFires /\ pc = "close")
  <2>1. /\ pc = "close" /\ pc' \in {"accept", "dead"} /\ handled' = handled
        /\ wire' = wire
    BY <1>9 DEF Close, WatchdogFires, client
  <2>2. Answers' = Answers
    <3>1. Answered = Len(wire) /\ Answered' = Len(wire)
      BY <2>1 DEF Answered, Serving
    <3> QED BY <1>0, <2>1, <3>1, Untouched
  <2>3. ConnState = "closing" /\ ConnState' \in {"closed", "ended"}
    BY <2>1, States, StatesNext
  <2> QED BY <2>1, <2>2, <2>3 DEF Conn!Shut, Conn!Next
<1>10. CASE ClientStalls \/ UNCHANGED vars
  <2>1. pc' = pc /\ wire' = wire /\ handled' = handled
    BY <1>10 DEF ClientStalls, vars
  <2>2. Answered' = Answered /\ ConnState' = ConnState
    BY <2>1 DEF Answered, ConnState
  <2>3. Answers' = Answers
    BY <1>0, <2>1, <2>2, AnswersStay
  <2> QED BY <2>1, <2>2, <2>3 DEF Conn!vars
<1>11. WatchdogFires => pc \in Serving \cup {"close"}
  BY <1>0 DEF WatchdogFires, IdleUnarmed, TypeOK
<1>12. EndRequest => pc' \in {"flush", "dead"}
  BY DEF EndRequest
<1> QED BY <1>1, <1>2, <1>3, <1>4, <1>5, <1>6, <1>7, <1>8, <1>9, <1>10, <1>11, <1>12
  DEF Next, Request, Finish

\* The loop of a child implements Connection: whatever fails and in whatever order,
\* the requests of a connection are answered in order, the next one is read after
\* an answer that announced it, whole or spoiled by its own handler, and no alarm
\* ends a child that waits.
THEOREM ConnectionRefinement == Spec => RefinesConnection
<1>1. Init => Conn!Init
  <2> SUFFICES ASSUME Init PROVE Conn!Init
    OBVIOUS
  <2>1. pc = "accept" /\ wire = <<>> /\ handled = 0
    BY DEF Init
  <2>2. Answered = 0
    BY <2>1 DEF Answered
  <2>3. Answers = <<>>
    BY <2>2 DEF Answers
  <2> QED BY <2>1, <2>3, States DEF Conn!Init
<1>2. Init => OrderInv
  BY DEF Init, OrderInv
<1>3. TypeInv /\ OrderInv /\ [Next]_vars => OrderInv'
  BY OrderStep
<1>4. ConnInv /\ TypeOK' /\ [Next]_vars => [Conn!Next]_(Conn!vars)
  BY ConnStep
<1>5. Spec => []ConnInv
  <2>1. ConnInv <=> (TypeInv /\ FramedInv) /\ IdleUnarmed /\ OrderInv
    BY DEF ConnInv
  <2>2. Spec => [](TypeInv /\ FramedInv)
    BY FramedInvInvariant
  <2> QED BY <1>2, <1>3, <2>1, <2>2, IdleSafety, TypeInvInvariant, PTL DEF Spec
<1> QED
  BY <1>1, <1>4, <1>5, TypeInvariant, PTL DEF Spec, RefinesConnection, Conn!Spec
\* Why a connection is answered in order: when the next request is read or
\* served, the last answer is to the one before it, announced it, and is whole or spoiled.
ConnOrder ==
  /\ handled \in Nat
  /\ Answers \in Seq(Tellings)
  /\ \A i \in 1..Len(Answers) : Answers[i].req <= handled
  /\ \A i \in 1..Len(Answers) : i < Len(Answers) =>
       /\ Answers[i].whole \/ Answers[i].spoiled
       /\ Answers[i].ka
       /\ Answers[i + 1].req = Answers[i].req + 1
  /\ ConnState = "waiting" /\ Answers # <<>> =>
       LET last == Answers[Len(Answers)]
       IN  (last.whole \/ last.spoiled) /\ last.ka /\ last.req = handled
  /\ ConnState = "serving" /\ Answers # <<>> =>
       LET last == Answers[Len(Answers)]
       IN  (last.whole \/ last.spoiled) /\ last.ka /\ last.req + 1 = handled

\* An answer to the request that is served, after those that may be followed.
LEMMA ConnAppends ==
  ASSUME ConnOrder, ConnState = "serving", handled' = handled,
         NEW whole \in BOOLEAN, NEW spoiled \in BOOLEAN, NEW ka \in BOOLEAN,
         Answers' = Append(Answers, Conn!Answer(whole, spoiled, ka)),
         ConnState' # "serving", ConnState' = "waiting" => (whole \/ spoiled) /\ ka
  PROVE  ConnOrder'
<1> DEFINE x == Conn!Answer(whole, spoiled, ka)
           n == Len(Answers)
<1>1. /\ x \in Tellings /\ x.req = handled
      /\ x.whole = whole /\ x.spoiled = spoiled /\ x.ka = ka
  BY DEF ConnOrder, Tellings, Conn!Answer
<1>2. Answers \in Seq(Tellings) /\ n \in Nat /\ handled \in Nat
  BY DEF ConnOrder
<1> HIDE DEF x, n
<1>3. /\ Answers' \in Seq(Tellings) /\ Len(Answers') = n + 1 /\ Answers' # <<>>
      /\ \A i \in 1..n : Answers'[i] = Answers[i]
      /\ Answers'[n + 1] = x
  BY <1>1, <1>2, AppendProperties DEF x, n
<1>4. ASSUME NEW i \in 1..(n + 1)
      PROVE  /\ Answers'[i].req <= handled
             /\ i < n + 1 => /\ Answers'[i].whole \/ Answers'[i].spoiled
                             /\ Answers'[i].ka
                             /\ Answers'[i + 1].req = Answers'[i].req + 1
  <2>1. CASE i = n + 1
    BY <1>1, <1>2, <1>3, <2>1
  <2>2. CASE i < n
    <3>1. i \in 1..n /\ i + 1 \in 1..n
      BY <1>2, <2>2
    <3>2. Answers'[i] = Answers[i] /\ Answers'[i + 1] = Answers[i + 1]
      BY <1>3, <3>1
    <3>3. /\ Answers[i].req <= handled /\ Answers[i].ka
          /\ Answers[i].whole \/ Answers[i].spoiled
          /\ Answers[i + 1].req = Answers[i].req + 1
      BY <2>2, <3>1 DEF ConnOrder, n
    <3> QED BY <3>2, <3>3
  <2>3. CASE i = n
    <3>1. i \in 1..n /\ Answers # <<>>
      BY <1>2, <2>3 DEF n
    <3>2. /\ Answers[n].whole \/ Answers[n].spoiled
          /\ Answers[n].ka /\ Answers[n].req + 1 = handled
          /\ Answers[n].req <= handled
      BY <2>3, <3>1 DEF ConnOrder, n
    <3>3. Answers'[i] = Answers[n] /\ Answers'[i + 1] = x
      BY <1>3, <2>3, <3>1
    <3> QED BY <1>1, <3>2, <3>3
  <2>4. i = n + 1 \/ i < n \/ i = n
    BY <1>2
  <2> QED BY <2>1, <2>2, <2>3, <2>4
<1>5. ConnState' = "waiting" =>
        /\ Answers'[n + 1].whole \/ Answers'[n + 1].spoiled
        /\ Answers'[n + 1].ka
        /\ Answers'[n + 1].req = handled
  BY <1>1, <1>3
<1> QED BY <1>2, <1>3, <1>4, <1>5 DEF ConnOrder

LEMMA ConnOrderStep ==
  ASSUME ConnOrder, [Conn!Next]_(Conn!vars)
  PROVE  ConnOrder'
<1>1. CASE Conn!Open
  <2>1. Answers' = <<>> /\ handled' = handled
    BY <1>1 DEF Conn!Open
  <2>2. Answers' \in Seq(Tellings) /\ Len(Answers') = 0
    BY <2>1
  <2> QED BY <2>1, <2>2 DEF ConnOrder
<1>2. CASE Conn!Ask
  <2>1. /\ ConnState = "waiting" /\ ConnState' # "waiting"
        /\ Answers' = Answers /\ handled' = handled + 1
    BY <1>2 DEF Conn!Ask
  <2>2. \A i \in 1..Len(Answers) : Answers[i].req \in Nat
    <3> SUFFICES ASSUME NEW i \in 1..Len(Answers) PROVE Answers[i].req \in Nat
      OBVIOUS
    <3>1. Answers[i] \in Tellings
      BY DEF ConnOrder
    <3> QED BY <3>1 DEF Tellings
  <2>3. \A i \in 1..Len(Answers) : Answers[i].req <= handled + 1
    BY <2>2 DEF ConnOrder
  <2> QED BY <2>1, <2>3 DEF ConnOrder
<1>3. ASSUME NEW whole \in BOOLEAN, NEW ka \in BOOLEAN, Conn!Reply(whole, ka)
      PROVE  ConnOrder'
  <2>1. /\ ConnState = "serving" /\ handled' = handled
        /\ Answers' = Append(Answers, Conn!Answer(whole, ~whole, ka))
        /\ ConnState' = IF ka THEN "waiting" ELSE "closing"
    BY <1>3 DEF Conn!Reply
  <2>2. ConnState' # "serving" /\ (ConnState' = "waiting" => (whole \/ ~whole) /\ ka)
    BY <2>1
  <2>3. (~whole) \in BOOLEAN
    BY Zenon
  <2> QED BY <2>1, <2>2, <2>3, ConnAppends
<1>4. CASE Conn!Fail
  <2>1. /\ ConnState = "serving" /\ handled' = handled
        /\ ConnState' # "serving" /\ ConnState' # "waiting"
    BY <1>4 DEF Conn!Fail
  <2>2. CASE Answers' = Answers
    BY <2>1, <2>2 DEF ConnOrder
  <2>3. ASSUME NEW whole \in BOOLEAN, NEW spoiled \in BOOLEAN, NEW ka \in BOOLEAN,
               Answers' = Append(Answers, Conn!Answer(whole, spoiled, ka))
        PROVE  ConnOrder'
    BY <2>1, <2>3, ConnAppends
  <2> QED BY <1>4, <2>2, <2>3 DEF Conn!Fail
<1>5. CASE Conn!Retire \/ Conn!Shut
  <2>1. /\ ConnState' # "serving" /\ ConnState' # "waiting"
        /\ Answers' = Answers /\ handled' = handled
    BY <1>5 DEF Conn!Retire, Conn!Shut
  <2> QED BY <2>1 DEF ConnOrder
<1>6. CASE UNCHANGED Conn!vars
  BY <1>6 DEF Conn!vars, ConnOrder
<1> QED BY <1>1, <1>2, <1>3, <1>4, <1>5, <1>6 DEF Conn!Next

\* What Connection promises, of the responses on the wire: the answers of a
\* connection belong to consecutive requests, and each of them but the last
\* announced that the connection is kept and is whole, or spoiled by its handler.
THEOREM AnswersInOrder == Spec => []Conn!InOrder
<1>1. Conn!Init => ConnOrder
  <2> SUFFICES ASSUME Conn!Init PROVE ConnOrder
    OBVIOUS
  <2>1. ConnState = "closed" /\ Answers = <<>> /\ handled = 0
    BY DEF Conn!Init
  <2>2. Answers \in Seq(Tellings) /\ Len(Answers) = 0
    BY <2>1
  <2> QED BY <2>1, <2>2 DEF ConnOrder
<1>2. ConnOrder => Conn!InOrder
  <2> SUFFICES ASSUME ConnOrder, NEW i \in DOMAIN Answers
               PROVE  /\ Answers[i].req <= handled
                      /\ i < Len(Answers) =>
                           /\ Answers[i].whole \/ Answers[i].spoiled
                           /\ Answers[i].ka
                           /\ Answers[i + 1].req = Answers[i].req + 1
    BY DEF Conn!InOrder
  <2>1. i \in 1..Len(Answers)
    BY DEF ConnOrder
  <2> QED BY <2>1 DEF ConnOrder
<1>3. ConnOrder /\ [Conn!Next]_(Conn!vars) => ConnOrder'
  BY ConnOrderStep
<1> QED
  BY <1>1, <1>2, <1>3, ConnectionRefinement, PTL DEF RefinesConnection, Conn!Spec
=============================================================================
