------------------------- MODULE RequestStreamProofs -------------------------
(***************************************************************************)
(* Proofs about RequestStream, for every number of clients, every stream   *)
(* of bytes and every size of the buffer.                                  *)
(***************************************************************************)
EXTENDS RequestStream, TLAPS, SequenceTheorems, WellFoundedInduction

-----------------------------------------------------------------------------
\* Facts about the sequences and sets of the model.

\* A non-empty set of natural numbers has a least member.
LEMMA Least ==
  ASSUME NEW T, T \subseteq Nat, T # {}
  PROVE  \E x \in T : \A y \in T : x <= y
<1> DEFINE R == OpToRel(<, Nat)
<1>1. IsWellFoundedOn(R, Nat)
  BY NatLessThanWellFounded DEF R
<1>2. ASSUME NEW x \in Nat, NEW y \in Nat, y < x PROVE <<y, x>> \in R
  BY <1>2 DEF R, OpToRel
<1> HIDE DEF R
<1>3. PICK x \in T : \A y \in T : ~ (<<y, x>> \in R)
  BY <1>1, WFMin
<1>4. ASSUME NEW y \in T PROVE x <= y
  <2>1. x \in Nat /\ y \in Nat
    OBVIOUS
  <2>2. ~ (<<y, x>> \in R)
    BY <1>3
  <2>3. ~ (y < x)
    BY <2>1, <2>2, <1>2
  <2> QED BY <2>1, <2>3
<1> QED BY <1>4

\* A non-empty set of positions in a sequence has a last member.
LEMMA Last ==
  ASSUME NEW n \in Nat, NEW L, L \subseteq 1..n, L # {}
  PROVE  \E i \in L : \A j \in L : j <= i
<1> DEFINE T == {n - i : i \in L}
<1>1. T \subseteq Nat /\ T # {}
  OBVIOUS
<1>2. PICK x \in T : \A y \in T : x <= y
  <2> HIDE DEF T
  <2> QED BY <1>1, Least
<1>3. PICK i \in L : x = n - i
  OBVIOUS
<1>4. ASSUME NEW j \in L PROVE j <= i
  <2>1. n - j \in T
    OBVIOUS
  <2>2. x <= n - j
    BY <1>2, <2>1
  <2> QED BY <1>3, <2>2
<1> QED BY <1>4

\* A sequence of members of another set.
LEMMA Retype ==
  ASSUME NEW S, NEW q \in Seq(S), NEW T, \A i \in 1..Len(q) : q[i] \in T
  PROVE  q \in Seq(T)
<1>1. Len(q) \in Nat /\ q \in [1..Len(q) -> S]
  BY LenProperties
<1>2. q \in [1..Len(q) -> T]
  BY <1>1
<1> QED BY <1>1, <1>2, SeqDef

\* A sequence cut in two.
LEMMA Cut ==
  ASSUME NEW S, NEW q \in Seq(S), NEW n \in 0..Len(q)
  PROVE  SubSeq(q, 1, n) \in Seq(S) /\ SubSeq(q, n + 1, Len(q)) \in Seq(S)
<1>1. Len(q) \in Nat /\ \A i \in 1..Len(q) : q[i] \in S
  BY LenProperties
<1>2. SubSeq(q, 1, n) \in Seq(S)
  BY <1>1, SubSeqProperties
<1>3. SubSeq(q, n + 1, Len(q)) \in Seq(S)
  BY <1>1, SubSeqProperties
<1> QED BY <1>2, <1>3

\* A byte moved from the front of one sequence to the end of another.
LEMMA Move ==
  ASSUME NEW S, NEW q \in Seq(S), q # <<>>, NEW T, S \subseteq T, NEW r \in Seq(T)
  PROVE  /\ Head(q) \in S /\ Tail(q) \in Seq(S)
         /\ Append(r, Head(q)) \in Seq(T)
         /\ Len(Append(r, Head(q))) = Len(r) + 1
<1>1. Head(q) \in S /\ Tail(q) \in Seq(S)
  BY HeadTailProperties
<1> QED BY <1>1, AppendProperties

\* A body made up to its length.
LEMMA MadeUp ==
  ASSUME NEW S, NEW q \in Seq(S), NEW n \in Nat, NEW rest \in [(Len(q) + 1)..n -> S]
  PROVE  [i \in 1..n |-> IF i \in DOMAIN q THEN q[i] ELSE rest[i]] \in Seq(S)
<1>1. DOMAIN q = 1..Len(q) /\ Len(q) \in Nat /\ \A i \in DOMAIN q : q[i] \in S
  BY LenProperties
<1> DEFINE e(i) == IF i \in DOMAIN q THEN q[i] ELSE rest[i]
<1>2. \A i \in 1..n : e(i) \in S
  <2> SUFFICES ASSUME NEW i \in 1..n, i \notin DOMAIN q PROVE rest[i] \in S
    BY <1>1
  <2>1. i \in (Len(q) + 1)..n
    BY <1>1
  <2> QED BY <2>1
<1>3. [i \in 1..n |-> e(i)] \in [1..n -> S]
  BY <1>2
<1> QED BY <1>3, SeqDef

\* What readPost() leaves on the stack.
LEMMA LeftType ==
  ASSUME NEW b \in Seq(Bytes \cup {Junk}), left \subseteq Bytes \cup {Junk}
  PROVE  LeftBy(b) \subseteq Bytes \cup {Junk}
<1>1. \A i \in DOMAIN b : b[i] \in Bytes \cup {Junk}
  BY LenProperties
<1> QED BY <1>1 DEF LeftBy

\* The Content-Length of headers is a natural number.
LEMMA LengthType ==
  ASSUME NEW h \in Seq(Bytes)
  PROVE  ContentLength(h) \in Nat
<1>1. CASE Lengths(h) = {}
  BY <1>1 DEF ContentLength
<1>2. CASE Lengths(h) # {}
  <2>1. DOMAIN h = 1..Len(h) /\ Len(h) \in Nat
    BY LenProperties
  <2>2. Lengths(h) \subseteq 1..Len(h)
    BY <2>1 DEF Lengths
  <2>3. \E i \in Lengths(h) : \A j \in Lengths(h) : j <= i
    BY <1>2, <2>1, <2>2, Last
  <2> DEFINE m == CHOOSE i \in Lengths(h) : \A j \in Lengths(h) : j <= i
  <2>4. m \in Lengths(h)
    BY <2>3
  <2>5. h[m] \in Bytes
    BY <2>2, <2>4, ElementOfSeq
  <2> QED BY <1>2, <2>5 DEF ContentLength, Bytes
<1> QED BY <1>1, <1>2

-----------------------------------------------------------------------------
\* What is handed on.
Handed == [head : Seq(Bytes), body : Seq(Bytes \cup {Junk}), got : Nat]

\* The bytes the client of the connection sends, and the strengthening of
\* OwnConnection: everything on its way to a handled request is made of them, but
\* for what a body lacks.
Own == {b \in Bytes : b.conn = conn}
OwnParts(h, b, n) ==
  /\ \A j \in DOMAIN h : h[j].conn = conn
  /\ \A j \in DOMAIN b : b[j].conn # conn => short /\ j > n

OwnInv ==
  /\ toSend \in Seq(Own)
  /\ arrived \in Seq(Own)
  /\ stream \in Seq(Own) \cup {NoStream}
  /\ pc = "accept" => stream = NoStream
  /\ pc \in {"headers", "body", "handle"} => OwnParts(head, body, got)
  /\ pc \in {"headers", "body"} => got = Len(body)
  /\ OwnConnection

-----------------------------------------------------------------------------
\* The variables keep their types; reading a request never runs past the end of
\* its headers or of its body, and never without a stream.
THEOREM TypeInvariant == Spec => []TypeOK
<1>1. Init => TypeOK
  <2>1. <<>> \in Seq(Bytes) /\ <<>> \in Seq(Bytes \cup {Junk})
    BY EmptySeq
  <2>2. <<>> \in Seq(Handed)
    BY EmptySeq
  <2> SUFFICES ASSUME Init PROVE TypeOK
    OBVIOUS
  <2>3. toSend \in Seq(Bytes) /\ arrived \in Seq(Bytes) /\ head \in Seq(Bytes)
    BY <2>1 DEF Init
  <2>4. body \in Seq(Bytes \cup {Junk})
    BY <2>1 DEF Init
  <2>5. handed \in Seq(Handed)
    BY <2>2 DEF Init
  <2>6. ~Reading /\ pc = "accept"
    BY DEF Init, Reading
  <2>7. pc # "headers" /\ pc # "body"
    BY <2>6
  <2>8. conn \in Conns \cup {0} /\ open \in BOOLEAN /\ short \in BOOLEAN
    BY DEF Init
  <2>9. newlines \in 0..2 /\ need \in Nat /\ got \in Nat /\ left \subseteq Bytes \cup {Junk}
    BY DEF Init
  <2>11. pulse \in BOOLEAN
    BY DEF Init
  <2>10. stream \in Seq(Bytes) \cup {NoStream}
    BY DEF Init
  <2> USE DEF Handed
  <2> QED BY <2>3, <2>4, <2>5, <2>6, <2>7, <2>8, <2>9, <2>10, <2>11 DEF TypeOK
<1>2. TypeOK /\ [Next]_vars => TypeOK'
  <2> SUFFICES ASSUME TypeOK, [Next]_vars PROVE TypeOK'
    OBVIOUS
  <2> USE DEF TypeOK, Reading, client, request, Handed
  <2>0. \A q \in Seq(Bytes) : q # <<>> => Head(q) \in Bytes /\ Tail(q) \in Seq(Bytes)
    BY HeadTailProperties
  <2>1. CASE Connect
    <3>1. conn + 1 \in Conns
      BY <2>1 DEF Connect
    <3>2. Stream[conn + 1] \in Seq(Bytes)
      BY <3>1, ConstantsOK, LenProperties DEF Conns
    <3>3. <<>> \in Seq(Bytes)
      BY EmptySeq
    <3>4. <<>> \in Seq(Handed)
      BY EmptySeq
    <3> QED BY <2>1, <3>1, <3>2, <3>3, <3>4 DEF Connect
  <2>2. CASE Send
    <3>1. PICK n \in 1..Len(toSend) :
            /\ arrived' = arrived \o SubSeq(toSend, 1, n)
            /\ toSend' = SubSeq(toSend, n + 1, Len(toSend))
      BY <2>2 DEF Send
    <3>2. n \in 0..Len(toSend)
      BY LenProperties
    <3>3. SubSeq(toSend, 1, n) \in Seq(Bytes) /\ toSend' \in Seq(Bytes)
      BY <3>1, <3>2, Cut
    <3>4. arrived' \in Seq(Bytes)
      BY <3>1, <3>3, ConcatProperties
    <3> QED BY <2>2, <3>3, <3>4 DEF Send
  <2>3. CASE Leave
    BY <2>3 DEF Leave
  <2>4. CASE InitRequest
    <3>1. <<>> \in Seq(Bytes) /\ <<>> \in Seq(Bytes \cup {Junk})
      BY EmptySeq
    <3>2. <<>> # NoStream
      BY <3>1, ConstantsOK
    <3> QED BY <2>4, <3>1, <3>2 DEF InitRequest
  <2>5. CASE Fill
    <3> DEFINE n == IF Len(arrived) < BufSize THEN Len(arrived) ELSE BufSize
    <3>1. n \in 0..Len(arrived)
      BY LenProperties, ConstantsOK
    <3>2. SubSeq(arrived, 1, n) \in Seq(Bytes) /\ SubSeq(arrived, n + 1, Len(arrived)) \in Seq(Bytes)
      BY <3>1, Cut
    <3>3. stream' \in Seq(Bytes) /\ arrived' \in Seq(Bytes)
      BY <2>5, <3>2 DEF Fill
    <3>4. stream' # NoStream
      BY <3>3, ConstantsOK
    <3> QED BY <2>5, <3>3, <3>4 DEF Fill
  <2>6. CASE NoHeaders
    BY <2>6 DEF NoHeaders
  <2>7. CASE ShortBody
    <3>1. body' \in Seq(Bytes \cup {Junk})
      <4>1. CASE body = <<>>
        BY <2>7, <4>1 DEF ShortBody
      <4>2. CASE body # <<>>
        <5>1. PICK rest \in [(Len(body) + 1)..need -> left] :
                body' = [i \in 1..need |-> IF i \in DOMAIN body THEN body[i] ELSE rest[i]]
          BY <2>7, <4>2 DEF ShortBody
        <5>2. rest \in [(Len(body) + 1)..need -> Bytes \cup {Junk}]
          OBVIOUS
        <5>3. body \in Seq(Bytes \cup {Junk}) /\ need \in Nat
          OBVIOUS
        <5>4. [i \in 1..need |-> IF i \in DOMAIN body THEN body[i] ELSE rest[i]]
                \in Seq(Bytes \cup {Junk})
          <6> HIDE DEF TypeOK, Junk, Bytes
          <6> QED BY <5>2, <5>3, MadeUp
        <5> QED BY <5>1, <5>4
      <4> QED BY <4>1, <4>2
    <3>2. left' \subseteq Bytes \cup {Junk}
      BY <2>7, <3>1, LeftType DEF ShortBody
    <3> QED BY <2>7, <3>1, <3>2 DEF ShortBody
  <2>8. CASE HeaderByte
    <3>1. Head(stream) \in Bytes /\ stream' \in Seq(Bytes)
      BY <2>8, <2>0 DEF HeaderByte
    <3>2. stream' # NoStream
      BY <3>1, ConstantsOK
    <3>3. head' \in Seq(Bytes)
      BY <2>8, <3>1, AppendProperties DEF HeaderByte
    <3>4. newlines' \in 0..2
      BY <2>8 DEF HeaderByte, Counted
    <3>5. CASE newlines' < 2 /\ UNCHANGED <<pc, need>>
      BY <2>8, <3>1, <3>2, <3>3, <3>4, <3>5 DEF HeaderByte
    <3>6. CASE /\ newlines' = 2
               /\ need' = ContentLength(head')
               /\ pc' = IF ~HasUri(head') THEN "close"
                        ELSE IF need' = 0 THEN "handle" ELSE "body"
      <4>1. need' \in Nat
        BY <3>3, <3>6, LengthType
      <4>2. body = <<>>
        BY <2>8 DEF HeaderByte
      <4>3. pc' = "body" => Len(body') < need'
        BY <2>8, <3>6, <4>1, <4>2 DEF HeaderByte
      <4> QED BY <2>8, <3>1, <3>2, <3>3, <3>4, <3>6, <4>1, <4>3 DEF HeaderByte
    <3> QED BY <2>8, <3>5, <3>6 DEF HeaderByte
  <2>9. CASE NullByte
    <3>1. stream' \in Seq(Bytes)
      BY <2>9, <2>0 DEF NullByte
    <3> QED BY <2>9, <3>1 DEF NullByte
  <2>10. CASE BodyByte
    <3>1. stream \in Seq(Bytes) /\ stream # <<>>
      BY <2>10 DEF BodyByte
    <3>2. /\ stream' \in Seq(Bytes) /\ body' \in Seq(Bytes \cup {Junk})
          /\ Len(body') = Len(body) + 1
      BY <2>10, <3>1, Move DEF BodyByte
    <3>3. stream' # NoStream
      BY <3>2, ConstantsOK
    <3>4. Len(body) \in Nat
      BY LenProperties
    <3>5. pc' = "body" => Len(body') < need'
      BY <2>10, <3>2, <3>4 DEF BodyByte
    <3>6. left' \subseteq Bytes \cup {Junk}
      BY <2>10, <3>2, LeftType DEF BodyByte
    <3>7. got' \in Nat
      BY <2>10, <3>2, <3>4 DEF BodyByte
    <3>8. pc' \in {"body", "handle"} /\ pulse' = pulse /\ short' = short /\ open' = open
      BY <2>10 DEF BodyByte
    <3>9. UNCHANGED <<conn, toSend, arrived, newlines, head, need, handed>>
      BY <2>10 DEF BodyByte
    <3> QED BY <3>2, <3>3, <3>5, <3>6, <3>7, <3>8, <3>9
  <2>11. CASE Handle
    <3>1. [head |-> head, body |-> body, got |-> got] \in Handed
      BY DEF Handed
    <3>2. handed' \in Seq(Handed)
      BY <2>11, <3>1, AppendProperties DEF Handle
    <3> QED BY <2>11, <3>2 DEF Handle
  <2>12. CASE Reject
    BY <2>12 DEF Reject
  <2>13. CASE Close
    BY <2>13 DEF Close
  <2>14. CASE UNCHANGED vars
    BY <2>14 DEF vars
  <2>15. CASE Trickle
    BY <2>15 DEF Trickle
  <2> QED BY <2>1, <2>2, <2>3, <2>4, <2>5, <2>6, <2>7, <2>8, <2>9, <2>10, <2>11,
             <2>12, <2>13, <2>14, <2>15 DEF Next, ReadByte, TimeOut
<1> QED BY <1>1, <1>2, PTL DEF Spec

-----------------------------------------------------------------------------
\* OwnInv holds at the start, every step keeps it, and OwnConnection follows.
LEMMA OwnInvInit == Init => OwnInv
<1> SUFFICES ASSUME Init PROVE OwnInv
  OBVIOUS
<1>1. <<>> \in Seq(Own)
  BY EmptySeq
<1>2. toSend \in Seq(Own) /\ arrived \in Seq(Own)
  BY <1>1 DEF Init
<1>3. handed = <<>> /\ DOMAIN handed = {}
  BY DEF Init
<1> QED BY <1>2, <1>3 DEF Init, OwnInv, OwnConnection

\* What was handed on stays, and a body once short remains so.
LEMMA OwnStays ==
  ASSUME OwnConnection, conn' = conn, handed' = handed, short => short'
  PROVE  OwnConnection'
BY DEF OwnConnection

LEMMA PartsStay ==
  ASSUME NEW h, NEW b, NEW n, OwnParts(h, b, n), conn' = conn, short => short'
  PROVE  OwnParts(h, b, n)'
BY DEF OwnParts

\* A byte of the connection is added to the headers or to a body.
LEMMA OwnAppend ==
  ASSUME NEW S, NEW q \in Seq(S), NEW x \in S, x.conn = conn,
         \A j \in DOMAIN q : q[j].conn = conn
  PROVE  \A j \in DOMAIN Append(q, x) : Append(q, x)[j].conn = conn
<1>1. /\ Len(Append(q, x)) = Len(q) + 1 /\ Append(q, x) \in Seq(S)
      /\ \A j \in 1..Len(q) : Append(q, x)[j] = q[j]
      /\ Append(q, x)[Len(q) + 1] = x
  BY AppendProperties
<1>2. DOMAIN Append(q, x) = 1..(Len(q) + 1) /\ DOMAIN q = 1..Len(q) /\ Len(q) \in Nat
  BY <1>1, LenProperties
<1> SUFFICES ASSUME NEW j \in 1..(Len(q) + 1) PROVE Append(q, x)[j].conn = conn
  BY <1>2
<1>3. CASE j = Len(q) + 1
  BY <1>1, <1>3
<1>4. CASE j # Len(q) + 1
  <2>1. j \in 1..Len(q)
    BY <1>2, <1>4
  <2> QED BY <1>1, <1>2, <2>1
<1> QED BY <1>3, <1>4

LEMMA OwnInvStep == TypeOK /\ OwnInv /\ [Next]_vars => OwnInv'
<1> SUFFICES ASSUME TypeOK, OwnInv, [Next]_vars PROVE OwnInv'
  OBVIOUS
<1>0. /\ toSend \in Seq(Own) /\ arrived \in Seq(Own) /\ OwnConnection
      /\ stream # NoStream => stream \in Seq(Own)
      /\ stream \in Seq(Own) \cup {NoStream}
  BY DEF OwnInv
<1>a. conn' = conn => Own' = Own
  BY DEF Own
<1>b. ASSUME NEW q, q \in Seq(Own), q # <<>>
      PROVE  Head(q) \in Bytes /\ Head(q).conn = conn /\ Tail(q) \in Seq(Own)
  BY <1>b, HeadTailProperties DEF Own
<1>c. ASSUME UNCHANGED <<conn, toSend, arrived, stream, pc, request, handed, short>>
      PROVE  OwnInv'
  <2>1. OwnConnection'
    BY <1>0, <1>c, OwnStays
  <2>2. OwnParts(head, body, got) => OwnParts(head, body, got)'
    BY <1>c DEF OwnParts, request
  <2> QED BY <1>a, <1>c, <2>1, <2>2 DEF OwnInv, request
<1>d. ASSUME UNCHANGED <<conn, toSend, arrived, handed, short>>, stream' = Tail(stream),
             stream # NoStream, stream # <<>>,
             pc' # "accept",
             pc' \in {"headers", "body", "handle"} => OwnParts(head, body, got)',
             pc' \in {"headers", "body"} => got' = Len(body')
      PROVE  OwnInv'
  <2>1. OwnConnection'
    BY <1>0, <1>d, OwnStays
  <2>2. stream' \in Seq(Own)
    BY <1>0, <1>b, <1>d
  <2> QED BY <1>0, <1>a, <1>d, <2>1, <2>2 DEF OwnInv
<1>1. CASE Connect
  <2>1. conn' \in Conns /\ toSend' = Stream[conn']
    BY <1>1 DEF Connect
  <2>2. Stream[conn'] \in Seq(Bytes)
    BY <2>1, ConstantsOK, LenProperties DEF Conns
  <2>3. \A i \in 1..Len(Stream[conn']) : Stream[conn'][i] \in Own'
    <3>1. DOMAIN Stream[conn'] = 1..Len(Stream[conn'])
      BY <2>2, LenProperties
    <3> QED BY <2>1, <2>2, <3>1, ElementOfSeq, ConstantsOK DEF Own
  <2>4. Stream[conn'] \in Seq(Own')
    BY <2>2, <2>3, Retype
  <2>5. toSend' \in Seq(Own')
    BY <2>1, <2>4
  <2>6. arrived' \in Seq(Own') /\ handed' = <<>>
    BY <1>1, EmptySeq DEF Connect
  <2>7. pc' = "init" /\ stream' = NoStream
    BY <1>1 DEF Connect, OwnInv
  <2>8. OwnConnection'
    BY <2>6 DEF OwnConnection
  <2> QED BY <2>5, <2>6, <2>7, <2>8 DEF OwnInv
<1>2. CASE Send
  <2>1. PICK n \in 1..Len(toSend) :
          /\ arrived' = arrived \o SubSeq(toSend, 1, n)
          /\ toSend' = SubSeq(toSend, n + 1, Len(toSend))
    BY <1>2 DEF Send
  <2>2. n \in 0..Len(toSend)
    BY <1>0, LenProperties
  <2>3. SubSeq(toSend, 1, n) \in Seq(Own) /\ toSend' \in Seq(Own)
    BY <1>0, <2>1, <2>2, Cut
  <2>4. arrived' \in Seq(Own)
    BY <1>0, <2>1, <2>3, ConcatProperties
  <2>5. UNCHANGED <<conn, stream, pc, request, handed, short>>
    BY <1>2 DEF Send
  <2>6. OwnConnection' /\ (OwnParts(head, body, got) => OwnParts(head, body, got)')
    BY <1>0, <2>5, OwnStays DEF OwnParts, request
  <2> QED BY <1>a, <2>3, <2>4, <2>5, <2>6 DEF OwnInv, request
<1>3. CASE Leave
  BY <1>3, <1>c DEF Leave
<1>4. CASE Trickle
  BY <1>4, <1>c DEF Trickle, client
<1>5. CASE InitRequest
  <2>1. /\ stream' = IF stream = NoStream THEN <<>> ELSE stream
        /\ head' = <<>> /\ body' = <<>> /\ got' = 0 /\ pc' = "headers"
        /\ UNCHANGED <<conn, toSend, arrived, handed, short>>
    BY <1>5 DEF InitRequest, client
  <2>2. stream' \in Seq(Own)
    BY <1>0, <2>1, EmptySeq
  <2>3. OwnParts(head, body, got)' /\ got' = Len(body')
    BY <2>1, EmptySeq DEF OwnParts
  <2>4. OwnConnection'
    BY <1>0, <2>1, OwnStays
  <2> QED BY <1>0, <1>a, <2>1, <2>2, <2>3, <2>4 DEF OwnInv
<1>6. CASE Fill
  <2> DEFINE n == IF Len(arrived) < BufSize THEN Len(arrived) ELSE BufSize
  <2>1. n \in 0..Len(arrived)
    BY <1>0, LenProperties, ConstantsOK
  <2>2. SubSeq(arrived, 1, n) \in Seq(Own) /\ SubSeq(arrived, n + 1, Len(arrived)) \in Seq(Own)
    BY <1>0, <2>1, Cut
  <2>3. stream' \in Seq(Own) /\ arrived' \in Seq(Own)
    BY <1>6, <2>2 DEF Fill
  <2>4. UNCHANGED <<conn, toSend, pc, request, handed, short>> /\ pc # "accept"
    BY <1>6 DEF Fill, Reading
  <2>5. OwnConnection' /\ (OwnParts(head, body, got) => OwnParts(head, body, got)')
    BY <1>0, <2>4, OwnStays DEF OwnParts, request
  <2> QED BY <1>a, <2>3, <2>4, <2>5 DEF OwnInv, request
<1>7. CASE ShortBody
  <2>1. /\ pc = "body" /\ pc' = "handle" /\ short'
        /\ UNCHANGED <<conn, toSend, arrived, stream, head, got, handed>>
    BY <1>7 DEF ShortBody, NoByte, client
  <2>2. OwnParts(head, body, got) /\ got = Len(body)
    BY <2>1 DEF OwnInv
  <2>3. body \in Seq(Bytes \cup {Junk}) /\ need \in Nat
    BY DEF TypeOK
  <2>4. DOMAIN body = 1..Len(body) /\ Len(body) \in Nat
    BY <2>3, LenProperties
  <2>5. OwnParts(head, body, got)'
    <3>1. CASE body = <<>>
      <4>1. body' = body
        BY <1>7, <3>1 DEF ShortBody
      <4> QED BY <2>1, <2>2, <4>1 DEF OwnParts
    <3>2. CASE body # <<>>
      <4>1. PICK rest : body' = [i \in 1..need |-> IF i \in DOMAIN body THEN body[i] ELSE rest[i]]
        BY <1>7, <3>2 DEF ShortBody
      <4>2. ASSUME NEW j \in DOMAIN body', body'[j].conn # conn PROVE j > got
        <5>1. j \in 1..need
          BY <4>1
        <5>2. CASE j \in DOMAIN body
          <6>1. body'[j] = body[j]
            BY <4>1, <5>1, <5>2
          <6> QED BY <2>2, <4>2, <5>2, <6>1 DEF OwnParts
        <5>3. CASE j \notin DOMAIN body
          BY <2>2, <2>4, <5>1, <5>3
        <5> QED BY <5>2, <5>3
      <4> QED BY <2>1, <2>2, <4>2 DEF OwnParts
    <3> QED BY <3>1, <3>2
  <2>6. OwnConnection'
    BY <1>0, <2>1, OwnStays
  <2> QED BY <1>0, <1>a, <2>1, <2>5, <2>6 DEF OwnInv
<1>8. CASE NoHeaders
  <2>1. pc' = "close" /\ UNCHANGED <<conn, toSend, arrived, stream, handed, short>>
    BY <1>8 DEF NoHeaders, client
  <2>2. OwnConnection'
    BY <1>0, <2>1, OwnStays
  <2> QED BY <1>0, <1>a, <2>1, <2>2 DEF OwnInv
<1>9. CASE HeaderByte
  <2>1. /\ stream # NoStream /\ stream # <<>> /\ stream' = Tail(stream) /\ pc = "headers"
        /\ head' = Append(head, Head(stream))
        /\ UNCHANGED <<conn, toSend, arrived, body, got, handed, short>>
        /\ pc' # "accept"
    BY <1>9 DEF HeaderByte, client
  <2>2. head \in Seq(Bytes) /\ body = <<>> /\ got = Len(body)
    BY <2>1 DEF TypeOK, OwnInv
  <2>3. Head(stream) \in Bytes /\ Head(stream).conn = conn
    BY <1>0, <1>b, <2>1
  <2>4. OwnParts(head, body, got)
    BY <2>1 DEF OwnInv
  <2>5. \A j \in DOMAIN head' : head'[j].conn = conn
    <3>1. \A j \in DOMAIN head : head[j].conn = conn
      BY <2>4 DEF OwnParts
    <3> QED BY <2>1, <2>2, <2>3, <3>1, OwnAppend
  <2>6. OwnParts(head, body, got)'
    BY <2>1, <2>4, <2>5 DEF OwnParts
  <2>7. got' = Len(body')
    BY <2>1, <2>2
  <2> QED BY <1>d, <2>1, <2>6, <2>7
<1>10. CASE NullByte
  BY <1>10, <1>d DEF NullByte, client
<1>11. CASE BodyByte
  <2>1. /\ stream # NoStream /\ stream # <<>> /\ stream' = Tail(stream) /\ pc = "body"
        /\ body' = Append(body, Head(stream)) /\ got' = Len(body')
        /\ UNCHANGED <<conn, toSend, arrived, head, handed, short>>
        /\ pc' # "accept"
    BY <1>11 DEF BodyByte, client
  <2>2. body \in Seq(Bytes \cup {Junk}) /\ got = Len(body)
    BY <2>1 DEF TypeOK, OwnInv
  <2>3. Head(stream) \in Bytes /\ Head(stream).conn = conn
    BY <1>0, <1>b, <2>1
  <2>4. OwnParts(head, body, got)
    BY <2>1 DEF OwnInv
  <2>5. \A j \in DOMAIN body : body[j].conn = conn
    <3> SUFFICES ASSUME NEW j \in DOMAIN body PROVE ~(j > got)
      BY <2>4 DEF OwnParts
    <3>1. j \in 1..Len(body) /\ Len(body) \in Nat
      BY <2>2, LenProperties
    <3> QED BY <2>2, <3>1
  <2>6. \A j \in DOMAIN body' : body'[j].conn = conn
    BY <2>1, <2>2, <2>3, <2>5, OwnAppend
  <2>7. OwnParts(head, body, got)'
    BY <2>1, <2>4, <2>6 DEF OwnParts
  <2> QED BY <1>d, <2>1, <2>7
<1>12. CASE Handle
  <2> DEFINE r == [head |-> head, body |-> body, got |-> got]
  <2>1. /\ handed' = Append(handed, r) /\ pc = "handle" /\ pc' \in {"init", "close"}
        /\ UNCHANGED <<conn, toSend, arrived, stream, short>>
    BY <1>12 DEF Handle, client
  <2>2. OwnParts(head, body, got)
    BY <2>1 DEF OwnInv
  <2>3. handed \in Seq(Handed) /\ r \in Handed
    BY DEF TypeOK, Handed
  <2>4. r.head = head /\ r.body = body /\ r.got = got
    OBVIOUS
  <2> HIDE DEF r
  <2>5. /\ Append(handed, r) \in Seq(Handed) /\ Len(Append(handed, r)) = Len(handed) + 1
        /\ \A i \in 1..Len(handed) : Append(handed, r)[i] = handed[i]
        /\ Append(handed, r)[Len(handed) + 1] = r
    BY <2>3, AppendProperties
  <2>6. /\ DOMAIN handed = 1..Len(handed) /\ Len(handed) \in Nat
        /\ DOMAIN handed' = 1..(Len(handed) + 1)
    BY <2>1, <2>3, <2>5, LenProperties
  <2>7. ASSUME NEW i \in DOMAIN handed'
        PROVE  OwnParts(handed'[i].head, handed'[i].body, handed'[i].got)
    <3>1. CASE i = Len(handed) + 1
      BY <2>1, <2>2, <2>4, <2>5, <3>1
    <3>2. CASE i # Len(handed) + 1
      <4>1. i \in DOMAIN handed /\ handed'[i] = handed[i]
        BY <2>1, <2>5, <2>6, <3>2
      <4> QED BY <1>0, <4>1 DEF OwnConnection, OwnParts
    <3> QED BY <3>1, <3>2
  <2>8. OwnConnection'
    BY <2>1, <2>7 DEF OwnConnection, OwnParts
  <2> QED BY <1>0, <1>a, <2>1, <2>8 DEF OwnInv
<1>13. CASE Reject
  <2>1. pc' = "close" /\ UNCHANGED <<conn, toSend, arrived, stream, handed, short>>
    BY <1>13 DEF Reject, client
  <2>2. OwnConnection'
    BY <1>0, <2>1, OwnStays
  <2> QED BY <1>0, <1>a, <2>1, <2>2 DEF OwnInv
<1>14. CASE Close
  <2>1. pc' = "accept" /\ stream' = NoStream /\ UNCHANGED <<conn, toSend, arrived, handed, short>>
    BY <1>14 DEF Close
  <2>2. OwnConnection'
    BY <1>0, <2>1, OwnStays
  <2> QED BY <1>0, <1>a, <2>1, <2>2 DEF OwnInv
<1>15. CASE UNCHANGED vars
  BY <1>15, <1>c DEF vars, request
<1> QED BY <1>1, <1>2, <1>3, <1>4, <1>5, <1>6, <1>7, <1>8, <1>9, <1>10, <1>11,
           <1>12, <1>13, <1>14, <1>15 DEF Next, ReadByte, TimeOut

\* A request is made of the bytes of its own connection, however many clients
\* come and whenever they leave, because req.close() drops what was read ahead; a
\* byte of another stands in it only where its body did not come in full.
THEOREM OwnConnectionSafety == Spec => []OwnConnection
<1>1. OwnInv => OwnConnection
  BY DEF OwnInv
<1> QED BY <1>1, OwnInvInit, OwnInvStep, TypeInvariant, PTL DEF Spec

-----------------------------------------------------------------------------
\* The bytes of the connection stand in the buffers in the order they were sent:
\* the next byte the child reads is the one after the last it read.
Buffered == IF stream = NoStream THEN <<>> ELSE stream
Done == Len(Stream[conn]) - Len(toSend) - Len(arrived) - Len(Buffered)
Placed(q, c, n) == \A i \in 1..Len(q) : q[i] = Stream[c][n + i]

Unread ==
  /\ conn \in Conns
  /\ Done \in Nat
  /\ Placed(Buffered, conn, Done)
  /\ Placed(arrived, conn, Done + Len(Buffered))
  /\ Placed(toSend, conn, Done + Len(Buffered) + Len(arrived))

UnreadInv ==
  /\ pc = "accept" => ~open
  /\ pc # "accept" => Unread

\* A client's bytes have their types.
LEMMA StreamType ==
  ASSUME NEW c \in Conns
  PROVE  /\ Stream[c] \in Seq(Bytes) /\ Len(Stream[c]) \in Nat
         /\ DOMAIN Stream[c] = 1..Len(Stream[c])
         /\ \A i \in 1..Len(Stream[c]) : Stream[c][i] \in Bytes /\ Stream[c][i].req \in Nat
<1>1. Stream[c] \in Seq(Bytes)
  BY ConstantsOK, LenProperties DEF Conns
<1>2. Len(Stream[c]) \in Nat /\ DOMAIN Stream[c] = 1..Len(Stream[c])
  BY <1>1, LenProperties
<1>3. \A i \in 1..Len(Stream[c]) : Stream[c][i] \in Bytes
  BY <1>1, ElementOfSeq
<1> QED BY <1>1, <1>2, <1>3 DEF Bytes

\* The parts of a sequence cut in two stand where they stood.
LEMMA CutAt ==
  ASSUME NEW S, NEW q \in Seq(S), NEW k \in 0..Len(q)
  PROVE  /\ SubSeq(q, 1, k) \in Seq(S) /\ Len(SubSeq(q, 1, k)) = k
         /\ \A i \in 1..k : SubSeq(q, 1, k)[i] = q[i]
         /\ SubSeq(q, k + 1, Len(q)) \in Seq(S)
         /\ Len(SubSeq(q, k + 1, Len(q))) = Len(q) - k
         /\ \A i \in 1..(Len(q) - k) : SubSeq(q, k + 1, Len(q))[i] = q[k + i]
<1>1. Len(q) \in Nat /\ \A i \in 1..Len(q) : q[i] \in S
  BY LenProperties
<1>2. /\ SubSeq(q, 1, k) \in Seq(S) /\ Len(SubSeq(q, 1, k)) = k
      /\ \A i \in 1..k : SubSeq(q, 1, k)[i] = q[i]
  <2>1. \A i \in 1..k : q[i] \in S
    BY <1>1
  <2>2. /\ SubSeq(q, 1, k) \in Seq(S)
        /\ Len(SubSeq(q, 1, k)) = IF 1 <= k THEN k - 1 + 1 ELSE 0
        /\ \A i \in 1..(k - 1 + 1) : SubSeq(q, 1, k)[i] = q[1 + i - 1]
    BY <1>1, <2>1, SubSeqProperties
  <2> QED BY <1>1, <2>2
<1>3. /\ SubSeq(q, k + 1, Len(q)) \in Seq(S)
      /\ Len(SubSeq(q, k + 1, Len(q))) = Len(q) - k
      /\ \A i \in 1..(Len(q) - k) : SubSeq(q, k + 1, Len(q))[i] = q[k + i]
  <2>1. \A i \in (k + 1)..Len(q) : q[i] \in S
    BY <1>1
  <2>2. /\ SubSeq(q, k + 1, Len(q)) \in Seq(S)
        /\ Len(SubSeq(q, k + 1, Len(q))) =
             IF k + 1 <= Len(q) THEN Len(q) - (k + 1) + 1 ELSE 0
        /\ \A i \in 1..(Len(q) - (k + 1) + 1) :
             SubSeq(q, k + 1, Len(q))[i] = q[(k + 1) + i - 1]
    BY <1>1, <2>1, SubSeqProperties
  <2> QED BY <1>1, <2>2
<1> QED BY <1>2, <1>3

\* What is in the buffer, and how much of it.
LEMMA BufferedType ==
  ASSUME TypeOK
  PROVE  /\ Buffered \in Seq(Bytes) /\ Len(Buffered) \in Nat
         /\ arrived \in Seq(Bytes) /\ Len(arrived) \in Nat
         /\ toSend \in Seq(Bytes) /\ Len(toSend) \in Nat
<1>1. Buffered \in Seq(Bytes)
  BY EmptySeq DEF TypeOK, Buffered
<1>2. arrived \in Seq(Bytes) /\ toSend \in Seq(Bytes)
  BY DEF TypeOK
<1> QED BY <1>1, <1>2, LenProperties

\* Reading a byte takes the one that was sent after those already read.
LEMMA TakesNext ==
  ASSUME TypeOK, Unread, stream # NoStream, stream # <<>>, stream' = Tail(stream),
         conn' = conn, toSend' = toSend, arrived' = arrived
  PROVE  /\ Done' = Done + 1 /\ Done + 1 <= Len(Stream[conn])
         /\ Head(stream) = Stream[conn][Done + 1] /\ Head(stream) \in Bytes
         /\ Unread'
<1>1. Buffered = stream /\ stream \in Seq(Bytes)
  BY DEF Buffered, TypeOK
<1>2. /\ Tail(stream) \in Seq(Bytes) /\ Len(Tail(stream)) = Len(stream) - 1
      /\ \A i \in 1..Len(Tail(stream)) : Tail(stream)[i] = stream[i + 1]
      /\ Head(stream) \in Bytes /\ Head(stream) = stream[1] /\ Len(stream) \in Nat \ {0}
  <2>1. Head(stream) = stream[1]
    BY DEF Head
  <2> QED BY <1>1, <2>1, HeadTailProperties, EmptySeq
<1>3. Buffered' = Tail(stream)
  <2>1. stream' # NoStream
    BY <1>2, ConstantsOK
  <2> QED BY <2>1 DEF Buffered
<1>4. /\ Len(toSend) \in Nat /\ Len(arrived) \in Nat /\ Len(Stream[conn]) \in Nat
      /\ Done \in Nat /\ conn \in Conns
  BY BufferedType, StreamType DEF Unread
<1>5. Done = Len(Stream[conn]) - Len(toSend) - Len(arrived) - Len(stream)
  BY <1>1 DEF Done
<1>6. Done' = Len(Stream[conn]) - Len(toSend) - Len(arrived) - (Len(stream) - 1)
  BY <1>2, <1>3 DEF Done
<1>7. Done' = Done + 1 /\ Done + 1 <= Len(Stream[conn])
  BY <1>2, <1>4, <1>5, <1>6
<1>8. \A i \in 1..Len(stream) : stream[i] = Stream[conn][Done + i]
  BY <1>1 DEF Unread, Placed
<1>9. Head(stream) = Stream[conn][Done + 1]
  BY <1>2, <1>8
<1>10. Unread'
  <2>1. \A i \in 1..(Len(stream) - 1) : Tail(stream)[i] = Stream[conn][Done + 1 + i]
    <3> SUFFICES ASSUME NEW i \in 1..(Len(stream) - 1)
                 PROVE  Tail(stream)[i] = Stream[conn][Done + 1 + i]
      OBVIOUS
    <3>1. Tail(stream)[i] = stream[i + 1] /\ i + 1 \in 1..Len(stream)
      BY <1>2
    <3>2. Done + (i + 1) = Done + 1 + i
      BY <1>4
    <3> QED BY <1>8, <3>1, <3>2
  <2>2. Placed(Buffered, conn, Done)'
    BY <1>2, <1>3, <1>7, <2>1 DEF Placed
  <2>3. Len(Buffered') = Len(stream) - 1
    BY <1>2, <1>3
  <2>4. /\ Done' + Len(Buffered') = Done + Len(Buffered)
        /\ Done' + Len(Buffered') + Len(arrived') = Done + Len(Buffered) + Len(arrived)
    BY <1>1, <1>2, <1>4, <1>7, <2>3
  <2>5. Placed(arrived, conn, Done + Len(Buffered))'
    BY <2>4 DEF Unread, Placed
  <2>6. Placed(toSend, conn, Done + Len(Buffered) + Len(arrived))'
    BY <2>4 DEF Unread, Placed
  <2>7. Done' \in Nat /\ conn' \in Conns
    BY <1>4, <1>7
  <2> QED BY <2>2, <2>5, <2>6, <2>7 DEF Unread
<1> QED BY <1>2, <1>7, <1>9, <1>10

\* Every other step keeps the bytes in their order, and reads none.
LEMMA NoneRead ==
  ASSUME TypeOK, Unread, Send \/ Fill
  PROVE  Done' = Done /\ Unread'
<1>1. /\ Buffered \in Seq(Bytes) /\ Len(Buffered) \in Nat
      /\ arrived \in Seq(Bytes) /\ Len(arrived) \in Nat
      /\ toSend \in Seq(Bytes) /\ Len(toSend) \in Nat
      /\ Len(Stream[conn]) \in Nat /\ Done \in Nat /\ conn \in Conns
  BY BufferedType, StreamType DEF Unread
<1>2. CASE Send
  <2>1. PICK n \in 1..Len(toSend) :
          /\ arrived' = arrived \o SubSeq(toSend, 1, n)
          /\ toSend' = SubSeq(toSend, n + 1, Len(toSend))
    BY <1>2 DEF Send
  <2>2. n \in 0..Len(toSend) /\ n \in Nat
    BY <1>1
  <2> DEFINE a == SubSeq(toSend, 1, n)
             z == SubSeq(toSend, n + 1, Len(toSend))
  <2>3. /\ a \in Seq(Bytes) /\ Len(a) = n /\ \A i \in 1..n : a[i] = toSend[i]
        /\ Len(z) = Len(toSend) - n
        /\ \A i \in 1..(Len(toSend) - n) : z[i] = toSend[n + i]
    <3>1. toSend \in Seq(Bytes)
      BY <1>1
    <3> QED BY <2>2, <3>1, CutAt
  <2> HIDE DEF a, z
  <2>4. /\ Len(arrived \o a) = Len(arrived) + Len(a)
        /\ \A i \in 1..(Len(arrived) + Len(a)) :
             (arrived \o a)[i] = IF i <= Len(arrived) THEN arrived[i] ELSE a[i - Len(arrived)]
    <3>1. arrived \in Seq(Bytes) /\ a \in Seq(Bytes)
      BY <1>1, <2>3
    <3> QED BY <3>1, ConcatProperties
  <2>5. arrived' = arrived \o a /\ toSend' = z /\ conn' = conn /\ stream' = stream
    BY <1>2, <2>1 DEF Send, a, z
  <2>6. Buffered' = Buffered
    BY <2>5 DEF Buffered
  <2>7. Len(arrived') = Len(arrived) + n /\ Len(toSend') = Len(toSend) - n
    BY <2>3, <2>4, <2>5
  <2>8. Done' = Done
    <3>1. Done' = Len(Stream[conn]) - (Len(toSend) - n) - (Len(arrived) + n) - Len(Buffered)
      BY <2>5, <2>6, <2>7 DEF Done
    <3>2. Done = Len(Stream[conn]) - Len(toSend) - Len(arrived) - Len(Buffered)
      BY DEF Done
    <3> QED BY <1>1, <2>2, <3>1, <3>2
  <2> DEFINE d == Done + Len(Buffered)
  <2>9. /\ d \in Nat /\ d' = d
        /\ \A i \in 1..Len(arrived) : arrived[i] = Stream[conn][d + i]
        /\ \A i \in 1..Len(toSend) : toSend[i] = Stream[conn][d + Len(arrived) + i]
    BY <1>1, <2>6, <2>8 DEF Unread, Placed
  <2>10. Placed(arrived, conn, Done + Len(Buffered))'
    <3> SUFFICES ASSUME NEW i \in 1..(Len(arrived) + n)
                 PROVE  (arrived \o a)[i] = Stream[conn][d + i]
      BY <2>5, <2>6, <2>7, <2>8 DEF Placed
    <3> HIDE DEF d
    <3>1. CASE i <= Len(arrived)
      BY <1>1, <2>2, <2>3, <2>4, <2>9, <3>1
    <3>2. CASE i > Len(arrived)
      <4>1. i - Len(arrived) \in 1..n /\ i - Len(arrived) \in 1..Len(toSend)
        BY <1>1, <2>2, <3>2
      <4>2. (arrived \o a)[i] = toSend[i - Len(arrived)]
        BY <1>1, <2>2, <2>3, <2>4, <3>2, <4>1
      <4>3. d + Len(arrived) + (i - Len(arrived)) = d + i
        BY <1>1, <2>9
      <4> QED BY <2>9, <4>1, <4>2, <4>3
    <3>3. i <= Len(arrived) \/ i > Len(arrived)
      BY <1>1, <2>2
    <3> QED BY <3>1, <3>2, <3>3
  <2>11. Placed(toSend, conn, Done + Len(Buffered) + Len(arrived))'
    <3> SUFFICES ASSUME NEW i \in 1..(Len(toSend) - n)
                 PROVE  z[i] = Stream[conn][d + (Len(arrived) + n) + i]
      BY <2>5, <2>6, <2>7, <2>8 DEF Placed
    <3> HIDE DEF d
    <3>1. z[i] = toSend[n + i] /\ n + i \in 1..Len(toSend)
      BY <1>1, <2>2, <2>3
    <3>2. d + Len(arrived) + (n + i) = d + (Len(arrived) + n) + i
      BY <1>1, <2>2, <2>9
    <3> QED BY <2>9, <3>1, <3>2
  <2>12. Placed(Buffered, conn, Done)'
    BY <2>5, <2>6, <2>8 DEF Unread, Placed
  <2>13. Done' \in Nat /\ conn' \in Conns
    BY <1>1, <2>5, <2>8
  <2> QED BY <2>8, <2>10, <2>11, <2>12, <2>13 DEF Unread
<1>3. CASE Fill
  <2> DEFINE n == IF Len(arrived) < BufSize THEN Len(arrived) ELSE BufSize
             a == SubSeq(arrived, 1, n)
             z == SubSeq(arrived, n + 1, Len(arrived))
  <2>1. n \in 0..Len(arrived) /\ n \in Nat
    BY <1>1, ConstantsOK
  <2>2. stream' = a /\ arrived' = z /\ conn' = conn /\ toSend' = toSend /\ stream = <<>>
    BY <1>3 DEF Fill
  <2> HIDE DEF n
  <2>3. /\ a \in Seq(Bytes) /\ Len(a) = n /\ \A i \in 1..n : a[i] = arrived[i]
        /\ Len(z) = Len(arrived) - n
        /\ \A i \in 1..(Len(arrived) - n) : z[i] = arrived[n + i]
    <3>1. arrived \in Seq(Bytes)
      BY <1>1
    <3> QED BY <2>1, <3>1, CutAt
  <2> HIDE DEF a, z
  <2>4. Buffered = <<>> /\ Len(Buffered) = 0
    BY <2>2, EmptySeq DEF Buffered
  <2>5. Buffered' = a
    BY <2>2, <2>3, ConstantsOK DEF Buffered
  <2>6. Len(Buffered') = n /\ Len(arrived') = Len(arrived) - n
    BY <2>2, <2>3, <2>5
  <2>7. Done' = Done
    <3>1. Done' = Len(Stream[conn]) - Len(toSend) - (Len(arrived) - n) - n
      BY <2>2, <2>6 DEF Done
    <3>2. Done = Len(Stream[conn]) - Len(toSend) - Len(arrived) - 0
      BY <2>4 DEF Done
    <3> QED BY <1>1, <2>1, <3>1, <3>2
  <2>8. \A i \in 1..Len(arrived) : arrived[i] = Stream[conn][Done + i]
    <3>1. Done + Len(Buffered) = Done
      BY <1>1, <2>4
    <3> QED BY <3>1 DEF Unread, Placed
  <2>9. Placed(Buffered, conn, Done)'
    <3> SUFFICES ASSUME NEW i \in 1..n PROVE a[i] = Stream[conn][Done + i]
      BY <2>2, <2>5, <2>6, <2>7 DEF Placed
    <3>1. i \in 1..Len(arrived)
      BY <1>1, <2>1
    <3>2. a[i] = arrived[i]
      BY <2>3
    <3> QED BY <2>8, <3>1, <3>2
  <2>10. Placed(arrived, conn, Done + Len(Buffered))'
    <3> SUFFICES ASSUME NEW i \in 1..(Len(arrived) - n)
                 PROVE  z[i] = Stream[conn][Done + n + i]
      BY <2>2, <2>6, <2>7 DEF Placed
    <3>1. z[i] = arrived[n + i] /\ n + i \in 1..Len(arrived)
      BY <1>1, <2>1, <2>3
    <3>2. Done + (n + i) = Done + n + i
      BY <1>1, <2>1
    <3> QED BY <2>8, <3>1, <3>2
  <2>11. Placed(toSend, conn, Done + Len(Buffered) + Len(arrived))'
    <3>1. Done' + Len(Buffered') + Len(arrived') = Done + Len(Buffered) + Len(arrived)
      BY <1>1, <2>1, <2>4, <2>6, <2>7
    <3> QED BY <2>2, <3>1 DEF Unread, Placed
  <2>12. Done' \in Nat /\ conn' \in Conns
    BY <1>1, <2>2, <2>7
  <2> QED BY <2>7, <2>9, <2>10, <2>11, <2>12 DEF Unread
<1> QED BY <1>2, <1>3
\* The steps that neither read nor move a byte.
LEMMA StaysUnread ==
  ASSUME Unread, conn' = conn, toSend' = toSend, arrived' = arrived, Buffered' = Buffered
  PROVE  Done' = Done /\ Unread'
<1>1. Done' = Done
  BY DEF Done
<1> QED BY <1>1 DEF Unread, Placed

\* A new connection: all of it is still to be sent.
LEMMA ConnectUnread ==
  ASSUME TypeOK, OwnInv, Connect
  PROVE  Done' = 0 /\ Unread'
<1>1. /\ conn' \in Conns /\ toSend' = Stream[conn'] /\ arrived' = <<>> /\ stream' = NoStream
  BY DEF Connect, OwnInv
<1>2. Buffered' = <<>>
  BY <1>1 DEF Buffered
<1>3. Len(Stream[conn']) \in Nat
  BY <1>1, StreamType
<1>4. Len(Buffered') = 0 /\ Len(arrived') = 0
  BY <1>1, <1>2, EmptySeq
<1>5. Done' = Len(Stream[conn']) - Len(Stream[conn']) - 0 - 0
  BY <1>1, <1>4 DEF Done
<1>6. Done' = 0
  BY <1>3, <1>5
<1>7. Done' + Len(Buffered') = 0 /\ Done' + Len(Buffered') + Len(arrived') = 0
  BY <1>4, <1>6
<1>8. Placed(Buffered, conn, Done)' /\ Placed(arrived, conn, Done + Len(Buffered))'
  BY <1>4 DEF Placed
<1>9. Placed(toSend, conn, Done + Len(Buffered) + Len(arrived))'
  <2>1. \A i \in 1..Len(Stream[conn']) : Stream[conn'][i] = Stream[conn'][0 + i]
    BY <1>3
  <2> QED BY <1>1, <1>7, <2>1 DEF Placed
<1> QED BY <1>1, <1>6, <1>8, <1>9 DEF Unread

-----------------------------------------------------------------------------
\* The first n bytes of connection c are its first r requests.
Divides(c, n, r) == \A i \in DOMAIN Stream[c] : i <= n <=> Stream[c][i].req <= r

\* The request after the first r is a block of the stream, and after it r + 1
\* requests are read.
LEMMA Block ==
  ASSUME Numbered, NEW c \in Conns, NEW r \in Nat, NEW n \in Nat, Divides(c, n, r),
         n + 1 <= Len(Stream[c])
  PROVE  /\ AsSent(c, r + 1) \in Seq(Bytes) /\ Len(AsSent(c, r + 1)) \in Nat
         /\ n + Len(AsSent(c, r + 1)) <= Len(Stream[c])
         /\ \A i \in 1..Len(AsSent(c, r + 1)) : AsSent(c, r + 1)[i] = Stream[c][n + i]
         /\ Divides(c, n + Len(AsSent(c, r + 1)), r + 1)
         /\ Stream[c][n + 1].req = r + 1
<1> DEFINE s == Stream[c]
           P == Positions(c, r + 1)
<1>1. /\ s \in Seq(Bytes) /\ Len(s) \in Nat /\ DOMAIN s = 1..Len(s)
      /\ \A i \in 1..Len(s) : s[i] \in Bytes /\ s[i].req \in Nat
  BY StreamType
<1>2. /\ 1 <= Len(s) => s[1].req = 1
      /\ \A i \in 2..Len(s) : s[i].req <= s[i - 1].req + 1
      /\ \A i \in 1..Len(s) : \A j \in 1..i : s[j].req <= s[i].req
  <2>1. \A i \in 1..Len(s) :
          /\ i = 1 => s[i].req = 1
          /\ i > 1 => s[i].req <= s[i - 1].req + 1
          /\ \A j \in 1..i : s[j].req <= s[i].req
    BY <1>1 DEF Numbered
  <2> HIDE DEF s
  <2>2. 1 <= Len(s) => s[1].req = 1
    BY <1>1, <2>1
  <2>3. \A i \in 2..Len(s) : i \in 1..Len(s) /\ i > 1
    BY <1>1
  <2>4. \A i \in 2..Len(s) : s[i].req <= s[i - 1].req + 1
    BY <2>1, <2>3
  <2> QED BY <2>1, <2>2, <2>4
<1>3. \A i \in 1..Len(s) : i <= n <=> s[i].req <= r
  BY <1>1 DEF Divides
<1>4. P = {i \in 1..Len(s) : s[i].req = r + 1}
  BY <1>1 DEF Positions
<1>5. First(c, r + 1) = CHOOSE i \in P : \A j \in P : i <= j
  BY DEF First
<1>6. Final(c, r + 1) = CHOOSE i \in P : \A j \in P : j <= i
  BY DEF Final
<1>7. AsSent(c, r + 1) = SubSeq(s, First(c, r + 1), Final(c, r + 1))
  BY DEF AsSent
<1> HIDE DEF s, P
<1>8. s[n + 1].req = r + 1
  <2>1. n + 1 \in 1..Len(s) /\ s[n + 1].req > r /\ s[n + 1].req \in Nat
    BY <1>1, <1>3 DEF s
  <2>2. CASE n = 0
    BY <1>2, <2>1, <2>2
  <2>3. CASE n > 0
    <3>1. n \in 1..Len(s) /\ n + 1 \in 2..Len(s) /\ (n + 1) - 1 = n
      BY <1>1, <2>1, <2>3
    <3>2. s[n].req <= r /\ s[n].req \in Nat
      BY <1>1, <1>3, <3>1
    <3>3. s[n + 1].req <= s[n].req + 1
      BY <1>2, <3>1
    <3> QED BY <2>1, <3>2, <3>3
  <2> QED BY <2>2, <2>3
<1>9. n + 1 \in P /\ P \subseteq (n + 1)..Len(s)
  <2>1. n + 1 \in 1..Len(s)
    BY <1>1 DEF s
  <2>2. ASSUME NEW i \in P PROVE i \in (n + 1)..Len(s)
    <3>1. i \in 1..Len(s) /\ s[i].req = r + 1
      BY <1>4, <2>2
    <3>2. ~(s[i].req <= r)
      BY <3>1
    <3> QED BY <1>3, <3>1, <3>2
  <2> QED BY <1>4, <1>8, <2>1, <2>2
<1>10. First(c, r + 1) = n + 1
  <2>1. \A j \in P : n + 1 <= j
    BY <1>9
  <2>2. \A i \in P : (\A j \in P : i <= j) => i = n + 1
    BY <1>9
  <2> QED BY <1>5, <1>9, <2>1, <2>2
<1> DEFINE b == Final(c, r + 1)
<1>11. b \in P /\ \A j \in P : j <= b
  <2>1. P \subseteq 1..Len(s) /\ P # {}
    BY <1>4, <1>9
  <2>2. \E i \in P : \A j \in P : j <= i
    BY <1>1, <2>1, Last
  <2> QED BY <1>6, <2>2
<1>12. AsSent(c, r + 1) = SubSeq(s, n + 1, b)
  BY <1>7, <1>10
<1> HIDE DEF b
<1>13. b \in (n + 1)..Len(s) /\ b \in Nat /\ b \in 1..Len(s) /\ s[b].req = r + 1
  BY <1>4, <1>9, <1>11
<1>14. /\ SubSeq(s, n + 1, b) \in Seq(Bytes)
       /\ Len(SubSeq(s, n + 1, b)) = b - n
       /\ \A i \in 1..(b - n) : SubSeq(s, n + 1, b)[i] = s[n + i]
  <2>1. \A i \in (n + 1)..b : s[i] \in Bytes
    BY <1>1, <1>13
  <2>2. n + 1 \in Int /\ b \in Int
    BY <1>13
  <2>3. /\ SubSeq(s, n + 1, b) \in Seq(Bytes)
        /\ Len(SubSeq(s, n + 1, b)) = IF n + 1 <= b THEN b - (n + 1) + 1 ELSE 0
        /\ \A i \in 1..(b - (n + 1) + 1) : SubSeq(s, n + 1, b)[i] = s[(n + 1) + i - 1]
    BY <2>1, <2>2, SubSeqProperties
  <2>4. b - (n + 1) + 1 = b - n /\ \A i \in 1..(b - n) : (n + 1) + i - 1 = n + i
    BY <1>13
  <2>5. Len(SubSeq(s, n + 1, b)) = b - n
    BY <1>13, <2>3
  <2>6. \A i \in 1..(b - n) : SubSeq(s, n + 1, b)[i] = s[(n + 1) + i - 1]
    BY <2>3, <2>4
  <2> QED BY <2>3, <2>4, <2>5, <2>6
<1>15. \A i \in 1..Len(s) : i <= b <=> s[i].req <= r + 1
  <2> SUFFICES ASSUME NEW i \in 1..Len(s) PROVE i <= b <=> s[i].req <= r + 1
    OBVIOUS
  <2>1. i <= b => s[i].req <= r + 1
    <3> SUFFICES ASSUME i <= b PROVE s[i].req <= r + 1
      OBVIOUS
    <3>1. i \in 1..b
      BY <1>13
    <3> QED BY <1>2, <1>13, <3>1
  <2>2. ASSUME i > b, s[i].req <= r + 1 PROVE FALSE
    <3>1. ~(i <= n)
      BY <1>13, <2>2
    <3>2. ~(s[i].req <= r) /\ s[i].req \in Nat
      BY <1>1, <1>3, <3>1
    <3>3. s[i].req = r + 1
      BY <2>2, <3>2
    <3>4. i \in P
      BY <1>4, <3>3
    <3> QED BY <1>11, <1>13, <2>2, <3>4
  <2>3. i <= b \/ i > b
    BY <1>13
  <2> QED BY <2>1, <2>2, <2>3
<1>16. /\ Len(AsSent(c, r + 1)) = b - n /\ n + (b - n) = b /\ b - n \in Nat
  BY <1>12, <1>13, <1>14
<1>17. Divides(c, b, r + 1)
  BY <1>1, <1>15 DEF Divides, s
<1>18. Stream[c] = s
  BY DEF s
<1>19. /\ AsSent(c, r + 1) \in Seq(Bytes)
       /\ \A i \in 1..Len(AsSent(c, r + 1)) : AsSent(c, r + 1)[i] = Stream[c][n + i]
  BY <1>12, <1>14, <1>16, <1>18
<1>20. n + Len(AsSent(c, r + 1)) = b /\ b <= Len(Stream[c])
  BY <1>13, <1>16, <1>18
<1> QED BY <1>8, <1>16, <1>17, <1>18, <1>19, <1>20

\* Headers read from the start of a request end where the client ended them, and
\* tell how long the request is.
LEMMA HeadersEnd ==
  ASSUME Numbered, Framed, NEW c \in Conns, NEW r \in Nat, NEW n \in Nat, Divides(c, n, r),
         NEW h \in Seq(Bytes), n + Len(h) <= Len(Stream[c]), Placed(h, c, n),
         EndsHeaders(h, Len(h)), \A m \in 2..(Len(h) - 1) : ~EndsHeaders(h, m)
  PROVE  Len(AsSent(c, r + 1)) = Len(h) + ContentLength(h)
<1> DEFINE s == AsSent(c, r + 1)
<1>1. Len(h) \in Nat /\ Len(h) >= 2 /\ Len(Stream[c]) \in Nat
  BY LenProperties, StreamType DEF EndsHeaders
<1>2. n + 1 <= Len(Stream[c])
  BY <1>1
<1>3. /\ s \in Seq(Bytes) /\ Len(s) \in Nat
      /\ \A i \in 1..Len(s) : s[i] = Stream[c][n + i]
      /\ Stream[c][n + 1].req = r + 1
  BY <1>2, Block
<1>4. n + 1 \in DOMAIN Stream[c]
  BY <1>2, StreamType
<1>5. PICK m \in 2..Len(s) :
        /\ EndsHeaders(s, m)
        /\ \A k \in 2..(m - 1) : ~EndsHeaders(s, k)
        /\ Len(s) = m + ContentLength(SubSeq(s, 1, m))
  <2>1. s = AsSent(c, Stream[c][n + 1].req)
    BY <1>3
  <2> HIDE DEF s
  <2> QED BY <1>4, <2>1 DEF Framed
<1> HIDE DEF s
<1>6. \A i \in 1..Len(h) : i <= Len(s) => h[i] = s[i]
  <2>1. \A i \in 1..Len(h) : h[i] = Stream[c][n + i]
    BY DEF Placed
  <2>2. \A i \in 1..Len(h) : i <= Len(s) => i \in 1..Len(s)
    BY <1>1, <1>3
  <2> QED BY <1>3, <2>1, <2>2
<1>7. m \in Nat /\ Len(s) \in Nat /\ m <= Len(s)
  BY <1>3, <1>5
<1>8. ~(m < Len(h))
  <2> SUFFICES ASSUME m < Len(h) PROVE FALSE
    OBVIOUS
  <2>1. m \in 1..Len(h) /\ m - 1 \in 1..Len(h) /\ m - 1 <= Len(s) /\ m \in 2..(Len(h) - 1)
        /\ m \in 2..Len(h)
    BY <1>1, <1>5, <1>7
  <2>2. h[m] = s[m] /\ h[m - 1] = s[m - 1]
    BY <1>6, <1>7, <2>1
  <2>3. EndsHeaders(h, m)
    BY <1>5, <2>1, <2>2 DEF EndsHeaders
  <2> QED BY <2>1, <2>3
<1>9. ~(Len(h) < m)
  <2> SUFFICES ASSUME Len(h) < m PROVE FALSE
    OBVIOUS
  <2> DEFINE k == Len(h)
  <2>1. k \in 1..Len(h) /\ k - 1 \in 1..Len(h) /\ k - 1 <= Len(s) /\ k <= Len(s)
        /\ k \in 2..Len(s) /\ k \in 2..(m - 1)
    BY <1>1, <1>7
  <2>2. h[k] = s[k] /\ h[k - 1] = s[k - 1]
    BY <1>6, <2>1
  <2>3. EndsHeaders(s, k)
    BY <2>1, <2>2 DEF EndsHeaders
  <2> QED BY <1>5, <2>1, <2>3
<1>10. m = Len(h)
  BY <1>1, <1>7, <1>8, <1>9
<1>11. SubSeq(s, 1, m) = h
  <2>1. m \in 0..Len(s)
    BY <1>7
  <2>2. /\ SubSeq(s, 1, m) \in Seq(Bytes) /\ Len(SubSeq(s, 1, m)) = m
        /\ \A i \in 1..m : SubSeq(s, 1, m)[i] = s[i]
    BY <1>3, <2>1, CutAt
  <2>3. \A i \in 1..m : SubSeq(s, 1, m)[i] = h[i]
    BY <1>6, <1>7, <1>10, <2>2
  <2> QED BY <1>10, <2>2, <2>3, SeqEqual
<1> QED BY <1>5, <1>10, <1>11 DEF s
-----------------------------------------------------------------------------
\* Why requests are parsed as sent: the child is always as far in the stream as
\* the requests it handled and what it read of the next one reach.
Start == Done - Len(head) - Len(body)

Current ==
  /\ Start \in Nat
  /\ Placed(head, conn, Start)
  /\ Placed(body, conn, Start + Len(head))
  /\ Divides(conn, Start, Len(handed))

\* No headers end in h yet, and k counts the newlines at its end.
InHeaders(h, k) ==
  /\ \A m \in 2..Len(h) : ~EndsHeaders(h, m)
  /\ k = IF h # <<>> /\ h[Len(h)].char = "newline" THEN 1 ELSE 0

Whole == ~short =>
  /\ pc = "init" => Divides(conn, Done, Len(handed))
  /\ pc \in {"headers", "body", "handle"} => Current
  /\ pc = "headers" => InHeaders(head, newlines)
  /\ pc = "body" =>
       head # <<>> /\ Len(AsSent(conn, Len(handed) + 1)) = Len(head) + need
  /\ pc = "handle" =>
       head # <<>> /\ Len(AsSent(conn, Len(handed) + 1)) = Len(head) + Len(body)

ParseInv ==
  /\ UnreadInv
  /\ Whole
  /\ ParsedAsSent

\* A byte put at the end of what was read is where it was sent.
LEMMA PlacedAppend ==
  ASSUME NEW S, NEW q \in Seq(S), NEW x \in S, NEW c, NEW n \in Nat, Placed(q, c, n),
         x = Stream[c][n + Len(q) + 1]
  PROVE  /\ Append(q, x) \in Seq(S) /\ Len(Append(q, x)) = Len(q) + 1
         /\ Append(q, x)[Len(q) + 1] = x
         /\ \A i \in 1..Len(q) : Append(q, x)[i] = q[i]
         /\ Placed(Append(q, x), c, n)
<1>1. /\ Append(q, x) \in Seq(S) /\ Len(Append(q, x)) = Len(q) + 1
      /\ Append(q, x)[Len(q) + 1] = x
      /\ \A i \in 1..Len(q) : Append(q, x)[i] = q[i]
      /\ Len(q) \in Nat
  BY AppendProperties, LenProperties
<1>2. Placed(Append(q, x), c, n)
  <2> SUFFICES ASSUME NEW i \in 1..(Len(q) + 1)
               PROVE  Append(q, x)[i] = Stream[c][n + i]
    BY <1>1 DEF Placed
  <2>1. CASE i = Len(q) + 1
    <3>1. n + Len(q) + 1 = n + i
      BY <1>1, <2>1
    <3> QED BY <1>1, <2>1, <3>1
  <2>2. CASE i # Len(q) + 1
    <3>1. i \in 1..Len(q)
      BY <1>1, <2>2
    <3> QED BY <1>1, <3>1 DEF Placed
  <2> QED BY <2>1, <2>2
<1> QED BY <1>1, <1>2

\* The lengths of what was read of a request.
LEMMA ReadType ==
  ASSUME TypeOK
  PROVE  /\ head \in Seq(Bytes) /\ Len(head) \in Nat /\ DOMAIN head = 1..Len(head)
         /\ body \in Seq(Bytes \cup {Junk}) /\ Len(body) \in Nat
         /\ Len(handed) \in Nat /\ DOMAIN handed = 1..Len(handed) /\ need \in Nat
<1>1. head \in Seq(Bytes) /\ body \in Seq(Bytes \cup {Junk}) /\ need \in Nat
  BY DEF TypeOK
<1>2. handed \in Seq(Handed)
  BY DEF TypeOK, Handed
<1> QED BY <1>1, <1>2, LenProperties

\* A byte of the headers.
LEMMA HeaderWhole ==
  ASSUME Numbered, Framed, TypeOK, TypeOK', Unread, Whole, HeaderByte, ~short
  PROVE  Whole'
<1> DEFINE x == Head(stream)
           h == Append(head, x)
           r == Len(handed)
<1>1. /\ stream # NoStream /\ stream # <<>> /\ stream' = Tail(stream) /\ head' = h
      /\ newlines' = Counted(x) /\ conn' = conn /\ toSend' = toSend /\ arrived' = arrived
      /\ body' = body /\ handed' = handed /\ short' = short /\ pc = "headers"
  BY DEF HeaderByte, client
<1>2. /\ Done' = Done + 1 /\ Done + 1 <= Len(Stream[conn])
      /\ x = Stream[conn][Done + 1] /\ x \in Bytes
  BY <1>1, TakesNext
<1>3. /\ Start \in Nat /\ Placed(head, conn, Start) /\ Divides(conn, Start, r)
      /\ InHeaders(head, newlines)
  BY <1>1 DEF Whole, Current
<1>4. body = <<>> /\ Len(body) = 0 /\ newlines \in 0..2
  BY <1>1, EmptySeq DEF TypeOK
<1>5. /\ head \in Seq(Bytes) /\ Len(head) \in Nat /\ r \in Nat /\ Done \in Nat
      /\ conn \in Conns /\ Len(Stream[conn]) \in Nat
  BY ReadType, StreamType DEF Unread
<1>6. Start = Done - Len(head) - Len(body) /\ Done = Start + Len(head)
  <2>1. Start = Done - Len(head) - Len(body)
    BY DEF Start
  <2> QED BY <1>4, <1>5, <2>1
<1>7. /\ h \in Seq(Bytes) /\ Len(h) = Len(head) + 1 /\ h[Len(head) + 1] = x
      /\ \A i \in 1..Len(head) : h[i] = head[i]
      /\ Placed(h, conn, Start)
  <2>1. x = Stream[conn][Start + Len(head) + 1]
    BY <1>2, <1>6
  <2> HIDE DEF x
  <2> QED BY <1>2, <1>3, <1>5, <2>1, PlacedAppend
<1> HIDE DEF x, h, r
<1>8. Start' = Start
  <2>1. Start' = Done' - Len(head') - Len(body')
    BY DEF Start
  <2>2. Done' = Done + 1 /\ Len(head') = Len(head) + 1 /\ Len(body') = 0
    BY <1>1, <1>2, <1>4, <1>7
  <2>3. Start' = (Done + 1) - (Len(head) + 1) - 0
    BY <2>1, <2>2
  <2>4. Start = Done - Len(head) - 0
    BY <1>4, <1>6
  <2> QED BY <1>5, <2>3, <2>4
<1>9. Current'
  <2>1. Placed(body, conn, Start + Len(head))'
    BY <1>1, <1>4 DEF Placed
  <2>2. Placed(head, conn, Start)'
    BY <1>1, <1>7, <1>8
  <2>3. Divides(conn, Start, Len(handed))'
    BY <1>1, <1>3, <1>8 DEF r, Divides
  <2>4. Start' \in Nat
    BY <1>3, <1>8
  <2> QED BY <2>1, <2>2, <2>3, <2>4 DEF Current
<1>10. \A m \in 2..Len(head) : ~EndsHeaders(h, m)
  <2> SUFFICES ASSUME NEW m \in 2..Len(head), EndsHeaders(h, m) PROVE FALSE
    OBVIOUS
  <2>1. h[m] = head[m] /\ h[m - 1] = head[m - 1]
    <3>1. m \in 1..Len(head) /\ m - 1 \in 1..Len(head)
      BY <1>5
    <3> QED BY <1>7, <3>1
  <2>2. EndsHeaders(head, m)
    BY <2>1 DEF EndsHeaders
  <2> QED BY <1>3, <2>2 DEF InHeaders
<1>11. newlines = IF head # <<>> /\ head[Len(head)].char = "newline" THEN 1 ELSE 0
  BY <1>3 DEF InHeaders
<1>12. head # <<>> => Len(head) >= 1
  BY <1>5, EmptySeq
<1>13. EndsHeaders(h, Len(h)) <=> newlines' = 2
  <2>1. CASE head = <<>>
    <3>1. Len(h) = 1
      BY <1>7, <2>1, EmptySeq
    <3>2. ~EndsHeaders(h, Len(h))
      BY <3>1 DEF EndsHeaders
    <3>3. newlines' # 2
      BY <1>1, <1>11, <2>1 DEF Counted
    <3> QED BY <3>2, <3>3
  <2>2. CASE head # <<>>
    <3>1. /\ Len(h) \in 2..Len(h) /\ h[Len(h)] = x /\ h[Len(h) - 1] = head[Len(head)]
      <4>1. Len(head) >= 1 /\ Len(head) \in 1..Len(head) /\ Len(h) - 1 = Len(head)
            /\ Len(h) \in 2..Len(h)
        BY <1>5, <1>7, <1>12, <2>2
      <4> QED BY <1>7, <4>1
    <3>2. EndsHeaders(h, Len(h)) <=> head[Len(head)].char = "newline" /\ x.char = "newline"
      BY <3>1 DEF EndsHeaders
    <3>3. newlines' = IF x.char = "newline" THEN newlines + 1 ELSE 0
      BY <1>1 DEF Counted
    <3> QED BY <1>11, <2>2, <3>2, <3>3
  <2> QED BY <2>1, <2>2
<1>14. h # <<>>
  BY <1>5, <1>7, EmptySeq
<1>15. CASE newlines' < 2 /\ pc' = pc
  <2>1. ~EndsHeaders(h, Len(h))
    BY <1>13, <1>15
  <2>2. \A m \in 2..Len(h) : ~EndsHeaders(h, m)
    <3>1. \A m \in 2..Len(h) : m \in 2..Len(head) \/ m = Len(h)
      BY <1>5, <1>7
    <3> QED BY <1>10, <2>1, <3>1
  <2>3. newlines' = IF h # <<>> /\ h[Len(h)].char = "newline" THEN 1 ELSE 0
    <3>1. h[Len(h)] = x
      BY <1>7
    <3>2. newlines' = IF x.char = "newline" THEN newlines + 1 ELSE 0
      BY <1>1 DEF Counted
    <3> QED BY <1>11, <1>14, <1>15, <3>1, <3>2
  <2>4. InHeaders(head, newlines)'
    BY <1>1, <2>2, <2>3 DEF InHeaders
  <2>5. pc' = "headers"
    BY <1>1, <1>15
  <2> QED BY <1>9, <2>4, <2>5 DEF Whole
<1>16. CASE /\ newlines' = 2
            /\ need' = ContentLength(head')
            /\ pc' = IF ~HasUri(head') THEN "close"
                     ELSE IF need' = 0 THEN "handle" ELSE "body"
  <2>1. EndsHeaders(h, Len(h))
    BY <1>13, <1>16
  <2>2. \A m \in 2..(Len(h) - 1) : ~EndsHeaders(h, m)
    BY <1>5, <1>7, <1>10
  <2>3. Start + Len(h) <= Len(Stream[conn])
    BY <1>2, <1>3, <1>5, <1>6, <1>7
  <2>4. Len(AsSent(conn, r + 1)) = Len(h) + ContentLength(h)
    BY <1>3, <1>5, <1>7, <2>1, <2>2, <2>3, HeadersEnd
  <2>5. Len(AsSent(conn, Len(handed) + 1))' = Len(h) + need'
    BY <1>1, <1>16, <2>4 DEF r
  <2>6. pc' = "handle" => Len(AsSent(conn, Len(handed) + 1))' = Len(head') + Len(body')
    <3> SUFFICES ASSUME pc' = "handle"
                 PROVE  Len(AsSent(conn, Len(handed) + 1))' = Len(head') + Len(body')
      OBVIOUS
    <3>1. need' = 0
      BY <1>16
    <3>2. Len(body') = 0 /\ head' = h
      BY <1>1, <1>4
    <3> QED BY <2>5, <3>1, <3>2
  <2>7. pc' \in {"close", "handle", "body"}
    BY <1>16
  <2>8. pc' = "body" => Len(AsSent(conn, Len(handed) + 1))' = Len(head') + need'
    BY <1>1, <2>5
  <2>9. head' # <<>>
    BY <1>1, <1>14
  <2> QED BY <1>9, <2>6, <2>7, <2>8, <2>9 DEF Whole
<1> QED BY <1>15, <1>16 DEF HeaderByte
\* A byte of the body.
LEMMA BodyWhole ==
  ASSUME TypeOK, Unread, Whole, BodyByte, ~short
  PROVE  Whole'
<1> DEFINE x == Head(stream)
           t == Append(body, x)
<1>1. /\ stream # NoStream /\ stream # <<>> /\ stream' = Tail(stream) /\ body' = t
      /\ conn' = conn /\ toSend' = toSend /\ arrived' = arrived
      /\ head' = head /\ need' = need /\ handed' = handed /\ pc = "body"
      /\ pc' = IF Len(t) = need THEN "handle" ELSE "body"
  BY DEF BodyByte, client
<1>2. /\ Done' = Done + 1 /\ x = Stream[conn][Done + 1] /\ x \in Bytes
  BY <1>1, TakesNext
<1>3. /\ Start \in Nat /\ Placed(head, conn, Start) /\ Placed(body, conn, Start + Len(head))
      /\ Divides(conn, Start, Len(handed)) /\ head # <<>>
      /\ Len(AsSent(conn, Len(handed) + 1)) = Len(head) + need
  BY <1>1 DEF Whole, Current
<1>4. /\ body \in Seq(Bytes \cup {Junk}) /\ Len(head) \in Nat /\ Len(body) \in Nat
      /\ Done \in Nat
  BY ReadType DEF Unread
<1>5. Start = Done - Len(head) - Len(body)
  BY DEF Start
<1>6. /\ Len(t) = Len(body) + 1 /\ Placed(t, conn, Start + Len(head))
  <2>1. Start + Len(head) \in Nat /\ Start + Len(head) + Len(body) + 1 = Done + 1
    BY <1>3, <1>4, <1>5
  <2>2. x = Stream[conn][Start + Len(head) + Len(body) + 1] /\ x \in Bytes \cup {Junk}
    BY <1>2, <2>1
  <2> HIDE DEF x
  <2> QED BY <1>3, <1>4, <2>1, <2>2, PlacedAppend
<1> HIDE DEF x, t
<1>7. Start' = Start
  <2>1. Start' = Done' - Len(head') - Len(body')
    BY DEF Start
  <2>2. Start' = (Done + 1) - Len(head) - (Len(body) + 1)
    BY <1>1, <1>2, <1>6, <2>1
  <2> QED BY <1>4, <1>5, <2>2
<1>8. Current'
  <2>1. Placed(head, conn, Start)' /\ Placed(body, conn, Start + Len(head))'
    BY <1>1, <1>3, <1>6, <1>7 DEF Placed
  <2>2. Divides(conn, Start, Len(handed))'
    BY <1>1, <1>3, <1>7 DEF Divides
  <2>3. Start' \in Nat
    BY <1>3, <1>7
  <2> QED BY <2>1, <2>2, <2>3 DEF Current
<1>9. Len(AsSent(conn, Len(handed) + 1))' = Len(head') + need' /\ head' # <<>>
  BY <1>1, <1>3
<1>10. pc' = "handle" => need' = Len(body')
  BY <1>1
<1>11. pc' \in {"handle", "body"}
  BY <1>1
<1> QED BY <1>8, <1>9, <1>10, <1>11 DEF Whole

\* A request at its end is what its client sent, and the next one follows it.
LEMMA Complete ==
  ASSUME Numbered, TypeOK, Unread, Whole, pc = "handle", ~short
  PROVE  /\ head \o body = AsSent(conn, Len(handed) + 1)
         /\ Divides(conn, Done, Len(handed) + 1)
<1> DEFINE s == AsSent(conn, Len(handed) + 1)
           n == Start
<1>1. /\ n \in Nat /\ Placed(head, conn, n) /\ Placed(body, conn, n + Len(head))
      /\ Divides(conn, n, Len(handed)) /\ head # <<>>
      /\ Len(s) = Len(head) + Len(body)
  BY DEF Whole, Current
<1>2. /\ head \in Seq(Bytes) /\ body \in Seq(Bytes \cup {Junk}) /\ Len(head) \in Nat
      /\ Len(body) \in Nat /\ Len(handed) \in Nat /\ conn \in Conns /\ Done \in Nat
      /\ Len(Stream[conn]) \in Nat
  BY ReadType, StreamType DEF Unread
<1>3. n = Done - Len(head) - Len(body)
  BY DEF Start
<1>4. Len(head) >= 1
  BY <1>1, <1>2, EmptySeq
<1>5. Done <= Len(Stream[conn])
  <2>1. Done = Len(Stream[conn]) - Len(toSend) - Len(arrived) - Len(Buffered)
    BY DEF Done
  <2>2. Len(toSend) \in Nat /\ Len(arrived) \in Nat /\ Len(Buffered) \in Nat
    BY BufferedType
  <2> QED BY <1>2, <2>1, <2>2
<1> HIDE DEF n, s
<1>6. n + 1 <= Len(Stream[conn])
  BY <1>1, <1>2, <1>3, <1>4, <1>5
<1>7. /\ s \in Seq(Bytes)
      /\ \A i \in 1..Len(s) : s[i] = Stream[conn][n + i]
      /\ Divides(conn, n + Len(s), Len(handed) + 1)
  BY <1>1, <1>2, <1>6, Block DEF s
<1>8. n + Len(s) = Done
  BY <1>1, <1>2, <1>3
<1>9. head \o body = s
  <2>1. head \in Seq(Bytes \cup {Junk}) /\ s \in Seq(Bytes \cup {Junk})
    BY <1>2, <1>7, SeqMonotonic
  <2>2. /\ head \o body \in Seq(Bytes \cup {Junk})
        /\ Len(head \o body) = Len(head) + Len(body)
        /\ \A i \in 1..(Len(head) + Len(body)) :
             (head \o body)[i] = IF i <= Len(head) THEN head[i] ELSE body[i - Len(head)]
    BY <1>2, <2>1, ConcatProperties
  <2>3. ASSUME NEW i \in 1..Len(s) PROVE (head \o body)[i] = s[i]
    <3>0. s[i] = Stream[conn][n + i] /\ i \in 1..(Len(head) + Len(body)) /\ i \in Nat
      BY <1>1, <1>2, <1>7
    <3>1. CASE i <= Len(head)
      <4>1. i \in 1..Len(head) /\ (head \o body)[i] = head[i]
        BY <1>2, <2>2, <3>0, <3>1
      <4>2. head[i] = Stream[conn][n + i]
        BY <1>1, <4>1 DEF Placed
      <4> QED BY <3>0, <4>1, <4>2
    <3>2. CASE i > Len(head)
      <4>1. /\ i - Len(head) \in 1..Len(body) /\ (head \o body)[i] = body[i - Len(head)]
            /\ n + Len(head) + (i - Len(head)) = n + i
        BY <1>1, <1>2, <2>2, <3>0, <3>2
      <4>2. body[i - Len(head)] = Stream[conn][n + Len(head) + (i - Len(head))]
        BY <1>1, <4>1 DEF Placed
      <4> QED BY <3>0, <4>1, <4>2
    <3>3. i <= Len(head) \/ i > Len(head)
      BY <1>2, <3>0
    <3> QED BY <3>1, <3>2, <3>3
  <2> QED BY <1>1, <2>1, <2>2, <2>3, SeqEqual
<1> QED BY <1>7, <1>8, <1>9 DEF s

\* Handling a request.
LEMMA HandleWhole ==
  ASSUME Numbered, TypeOK, Unread, Whole, ParsedAsSent, Handle, ~short
  PROVE  Whole' /\ ParsedAsSent'
<1> DEFINE r == [head |-> head, body |-> body, got |-> got]
<1>1. /\ handed' = Append(handed, r) /\ conn' = conn /\ toSend' = toSend
      /\ arrived' = arrived /\ stream' = stream /\ pc = "handle" /\ pc' \in {"init", "close"}
  BY DEF Handle, client
<1>2. Done' = Done
  BY <1>1 DEF Done, Buffered
<1>3. head \o body = AsSent(conn, Len(handed) + 1) /\ Divides(conn, Done, Len(handed) + 1)
  BY <1>1, Complete
<1>4. Len(handed) \in Nat /\ DOMAIN handed = 1..Len(handed)
  BY ReadType
<1>5. /\ Len(handed') = Len(handed) + 1 /\ DOMAIN handed' = 1..(Len(handed) + 1)
      /\ handed'[Len(handed) + 1] = r
      /\ \A i \in 1..Len(handed) : handed'[i] = handed[i]
  <2> DEFINE R == Handed
  <2>1. handed \in Seq(R) /\ r \in R
    BY DEF TypeOK, Handed
  <2> HIDE DEF R, r
  <2>2. /\ Append(handed, r) \in Seq(R) /\ Len(Append(handed, r)) = Len(handed) + 1
        /\ \A i \in 1..Len(handed) : Append(handed, r)[i] = handed[i]
        /\ Append(handed, r)[Len(handed) + 1] = r
    BY <2>1, AppendProperties
  <2>3. DOMAIN Append(handed, r) = 1..Len(Append(handed, r))
    BY <2>2, LenProperties
  <2> QED BY <1>1, <2>2, <2>3
<1>6. Whole'
  <2>1. Divides(conn, Done, Len(handed))'
    BY <1>1, <1>2, <1>3, <1>5 DEF Divides
  <2> QED BY <1>1, <2>1 DEF Whole
<1>7. ParsedAsSent'
  <2> SUFFICES ASSUME NEW i \in 1..(Len(handed) + 1)
               PROVE  handed'[i].head \o handed'[i].body = AsSent(conn, i)'
    BY <1>5 DEF ParsedAsSent
  <2>1. CASE i = Len(handed) + 1
    <3>1. handed'[i].head = head /\ handed'[i].body = body
      BY <1>5, <2>1
    <3> QED BY <1>1, <1>3, <2>1, <3>1
  <2>2. CASE i # Len(handed) + 1
    <3>1. i \in 1..Len(handed)
      BY <1>4, <2>2
    <3>2. handed[i].head \o handed[i].body = AsSent(conn, i)
      BY <1>4, <3>1 DEF ParsedAsSent
    <3> QED BY <1>1, <1>5, <3>1, <3>2
  <2> QED BY <2>1, <2>2
<1> QED BY <1>6, <1>7

\* The steps that only leave things as they are.
LEMMA Undisturbed ==
  ASSUME Whole, UNCHANGED <<conn, head, need, body, handed, short, newlines>>,
         Done' = Done, pc' = pc \/ pc' \in {"accept", "close"}
  PROVE  Whole'
<1>1. Start' = Start
  BY DEF Start
<1>2. Current => Current'
  BY <1>1 DEF Current, Placed, Divides
<1>3. Divides(conn, Done, Len(handed)) => Divides(conn, Done, Len(handed))'
  BY DEF Divides
<1>4. InHeaders(head, newlines) => InHeaders(head, newlines)'
  BY DEF InHeaders, EndsHeaders
<1>5. Len(AsSent(conn, Len(handed) + 1))' = Len(AsSent(conn, Len(handed) + 1))
  OBVIOUS
<1> QED BY <1>2, <1>3, <1>4, <1>5 DEF Whole
\* ParseInv holds at the start and every step keeps it.
LEMMA ParseInit == Init => ParseInv
<1> SUFFICES ASSUME Init PROVE ParseInv
  OBVIOUS
<1>1. pc = "accept" /\ ~open /\ handed = <<>>
  BY DEF Init
<1>2. ParsedAsSent
  BY <1>1, EmptySeq DEF ParsedAsSent
<1>3. UnreadInv /\ Whole
  BY <1>1 DEF UnreadInv, Whole
<1> QED BY <1>2, <1>3 DEF ParseInv

LEMMA ParseStep ==
  ASSUME Numbered, Framed
  PROVE  TypeOK /\ TypeOK' /\ OwnInv /\ ParseInv /\ [Next]_vars => ParseInv'
<1> SUFFICES ASSUME TypeOK, TypeOK', OwnInv, ParseInv, [Next]_vars PROVE ParseInv'
  OBVIOUS
<1>0. UnreadInv /\ Whole /\ ParsedAsSent /\ (pc # "accept" => Unread)
  BY DEF ParseInv, UnreadInv
<1>a. ASSUME conn' = conn, handed' = handed, short' = short
      PROVE  ParsedAsSent'
  BY <1>0, <1>a DEF ParsedAsSent
<1>b. ASSUME short' PROVE ParsedAsSent' /\ Whole'
  BY <1>b DEF ParsedAsSent, Whole
<1>1. CASE Connect
  <2>1. /\ Done' = 0 /\ Unread' /\ conn' \in Conns /\ handed' = <<>> /\ pc' = "init"
    BY <1>1, ConnectUnread DEF Connect
  <2>2. Len(handed') = 0 /\ DOMAIN handed' = {}
    BY <2>1, EmptySeq
  <2>3. Divides(conn, Done, Len(handed))'
    <3> SUFFICES ASSUME NEW i \in DOMAIN Stream[conn']
                 PROVE  i <= 0 <=> Stream[conn'][i].req <= 0
      BY <2>1, <2>2 DEF Divides
    <3>1. i \in Nat \ {0} /\ 1 \in 1..i /\ 1 \in DOMAIN Stream[conn']
      BY <2>1, StreamType
    <3>2. Stream[conn'][1].req = 1 /\ Stream[conn'][1].req <= Stream[conn'][i].req
      BY <2>1, <3>1 DEF Numbered
    <3>3. Stream[conn'][i].req \in Nat
      BY <2>1, StreamType
    <3> QED BY <3>1, <3>2, <3>3
  <2>4. Whole' /\ UnreadInv' /\ ParsedAsSent'
    BY <2>1, <2>2, <2>3 DEF Whole, UnreadInv, ParsedAsSent
  <2> QED BY <2>4 DEF ParseInv
<1>2. CASE Send
  <2>1. pc # "accept" /\ pc' = pc
    BY <1>0, <1>2 DEF Send, UnreadInv
  <2>2. Done' = Done /\ Unread'
    BY <1>0, <1>2, <2>1, NoneRead
  <2>3. UNCHANGED <<conn, head, need, body, handed, short, newlines>>
    BY <1>2 DEF Send, request
  <2>4. Whole' /\ ParsedAsSent'
    BY <1>0, <1>a, <2>1, <2>2, <2>3, Undisturbed
  <2> QED BY <2>1, <2>2, <2>4 DEF ParseInv, UnreadInv
<1>3. CASE Leave
  <2>1. pc # "accept" /\ pc' = pc
    BY <1>0, <1>3 DEF Leave, UnreadInv
  <2>2. UNCHANGED <<conn, toSend, arrived, stream, head, need, body, handed, short, newlines>>
    BY <1>3 DEF Leave, request
  <2>3. Done' = Done /\ Unread'
    BY <1>0, <2>1, <2>2, StaysUnread DEF Buffered
  <2>4. Whole' /\ ParsedAsSent'
    BY <1>0, <1>a, <2>1, <2>2, <2>3, Undisturbed
  <2> QED BY <2>1, <2>3, <2>4 DEF ParseInv, UnreadInv
<1>4. CASE InitRequest
  <2>1. /\ pc = "init" /\ pc' = "headers" /\ newlines' = 0 /\ head' = <<>> /\ body' = <<>>
        /\ UNCHANGED <<conn, toSend, arrived, handed, short>>
        /\ stream' = IF stream = NoStream THEN <<>> ELSE stream
    BY <1>4 DEF InitRequest, client
  <2>2. Buffered' = Buffered
    <3>1. <<>> # NoStream
      BY EmptySeq, ConstantsOK
    <3> QED BY <2>1, <3>1 DEF Buffered
  <2>3. Done' = Done /\ Unread' /\ Done \in Nat
    BY <1>0, <2>1, <2>2, StaysUnread DEF Unread
  <2>4. Start' = Done
    <3>1. Start' = Done' - Len(head') - Len(body')
      BY DEF Start
    <3>2. Len(head') = 0 /\ Len(body') = 0
      BY <2>1, EmptySeq
    <3> QED BY <2>3, <3>1, <3>2
  <2>5. ASSUME ~short PROVE Current' /\ InHeaders(head, newlines)'
    <3>1. Divides(conn, Done, Len(handed))
      BY <1>0, <2>1, <2>5 DEF Whole
    <3>2. Divides(conn, Start, Len(handed))'
      BY <2>1, <2>4, <3>1 DEF Divides
    <3>3. Len(head') = 0 /\ Len(body') = 0
      BY <2>1, EmptySeq
    <3>4. Placed(head, conn, Start)' /\ Placed(body, conn, Start + Len(head))'
      BY <3>3 DEF Placed
    <3>5. InHeaders(head, newlines)'
      BY <2>1, <3>3 DEF InHeaders
    <3> QED BY <2>3, <2>4, <3>2, <3>4, <3>5 DEF Current
  <2>6. Whole' /\ ParsedAsSent'
    BY <1>a, <2>1, <2>5 DEF Whole
  <2> QED BY <2>1, <2>3, <2>6 DEF ParseInv, UnreadInv
<1>5. CASE Fill
  <2>1. pc # "accept" /\ pc' = pc
    BY <1>5 DEF Fill, Reading
  <2>2. Done' = Done /\ Unread'
    BY <1>0, <1>5, <2>1, NoneRead
  <2>3. UNCHANGED <<conn, head, need, body, handed, short, newlines>>
    BY <1>5 DEF Fill, request
  <2>4. Whole' /\ ParsedAsSent'
    BY <1>0, <1>a, <2>1, <2>2, <2>3, Undisturbed
  <2> QED BY <2>1, <2>2, <2>4 DEF ParseInv, UnreadInv
<1>6. CASE NoHeaders \/ Reject
  <2>1. /\ pc # "accept" /\ pc' = "close"
        /\ UNCHANGED <<conn, toSend, arrived, stream, head, need, body, handed, short, newlines>>
    BY <1>6 DEF NoHeaders, Reject, client, request
  <2>2. Done' = Done /\ Unread'
    BY <1>0, <2>1, StaysUnread DEF Buffered
  <2>3. Whole' /\ ParsedAsSent'
    BY <1>0, <1>a, <2>1, <2>2, Undisturbed
  <2> QED BY <2>1, <2>2, <2>3 DEF ParseInv, UnreadInv
<1>7. CASE ShortBody
  <2>1. /\ pc # "accept" /\ pc' = "handle" /\ short'
        /\ UNCHANGED <<conn, toSend, arrived, stream>>
    BY <1>7 DEF ShortBody, NoByte, client
  <2>2. Unread'
    BY <1>0, <2>1, StaysUnread DEF Buffered
  <2> QED BY <1>b, <2>1, <2>2 DEF ParseInv, UnreadInv
<1>8. CASE HeaderByte
  <2>1. /\ pc = "headers" /\ pc' # "accept" /\ stream # NoStream /\ stream # <<>>
        /\ stream' = Tail(stream)
        /\ UNCHANGED <<conn, toSend, arrived, handed, short>>
    BY <1>8 DEF HeaderByte, client
  <2>2. Unread /\ Unread'
    BY <1>0, <2>1, TakesNext
  <2>3. Whole'
    BY <1>0, <1>8, <1>b, <2>1, <2>2, HeaderWhole DEF TypeOK
  <2> QED BY <1>a, <2>1, <2>2, <2>3 DEF ParseInv, UnreadInv
<1>9. CASE NullByte
  <2>1. /\ pc = "headers" /\ pc' = "close" /\ stream # NoStream /\ stream # <<>>
        /\ stream' = Tail(stream)
        /\ UNCHANGED <<conn, toSend, arrived, handed, short>>
    BY <1>9 DEF NullByte, client
  <2>2. Unread'
    BY <1>0, <2>1, TakesNext
  <2>3. Whole'
    BY <2>1 DEF Whole
  <2> QED BY <1>a, <2>1, <2>2, <2>3 DEF ParseInv, UnreadInv
<1>10. CASE BodyByte
  <2>1. /\ pc = "body" /\ pc' # "accept" /\ stream # NoStream /\ stream # <<>>
        /\ stream' = Tail(stream)
        /\ UNCHANGED <<conn, toSend, arrived, handed, short>>
    BY <1>10 DEF BodyByte, client
  <2>2. Unread /\ Unread'
    BY <1>0, <2>1, TakesNext
  <2>3. Whole'
    BY <1>0, <1>10, <1>b, <2>1, <2>2, BodyWhole DEF TypeOK
  <2> QED BY <1>a, <2>1, <2>2, <2>3 DEF ParseInv, UnreadInv
<1>11. CASE Handle
  <2>1. /\ pc = "handle" /\ pc' # "accept"
        /\ UNCHANGED <<conn, toSend, arrived, stream, short>>
    BY <1>11 DEF Handle, client
  <2>2. Unread /\ Unread'
    BY <1>0, <2>1, StaysUnread DEF Buffered
  <2>3. Whole' /\ ParsedAsSent'
    <3>1. CASE short
      BY <1>b, <2>1, <3>1
    <3>2. CASE ~short
      BY <1>0, <1>11, <2>2, <3>2, HandleWhole
    <3> QED BY <3>1, <3>2
  <2> QED BY <2>1, <2>2, <2>3 DEF ParseInv, UnreadInv
<1>12. CASE Close
  <2>1. pc' = "accept" /\ ~open' /\ UNCHANGED <<conn, handed, short>>
    BY <1>12 DEF Close
  <2>2. Whole'
    BY <2>1 DEF Whole
  <2> QED BY <1>a, <2>1, <2>2 DEF ParseInv, UnreadInv
<1>13. CASE UNCHANGED vars
  <2>1. UNCHANGED <<conn, toSend, arrived, stream, head, need, body, handed, newlines>>
    BY <1>13 DEF vars
  <2>2. UNCHANGED <<open, pc, short>>
    BY <1>13 DEF vars
  <2>3. Done' = Done
    BY <2>1 DEF Done, Buffered
  <2>4. UnreadInv'
    BY <1>0, <2>1, <2>2, StaysUnread DEF UnreadInv, Buffered
  <2>5. Whole' /\ ParsedAsSent'
    BY <1>0, <1>a, <2>1, <2>2, <2>3, Undisturbed
  <2> QED BY <2>4, <2>5 DEF ParseInv
<1>14. CASE Trickle
  <2>1. /\ pc # "accept" /\ pc' = pc
        /\ UNCHANGED <<conn, toSend, arrived, stream, head, need, body, handed, short, newlines>>
    BY <1>14 DEF Trickle, client, request
  <2>2. Done' = Done /\ Unread'
    BY <1>0, <2>1, StaysUnread DEF Buffered
  <2>3. Whole' /\ ParsedAsSent'
    BY <1>0, <1>a, <2>1, <2>2, Undisturbed
  <2> QED BY <2>1, <2>2, <2>3 DEF ParseInv, UnreadInv
<1> QED BY <1>1, <1>2, <1>3, <1>4, <1>5, <1>6, <1>7, <1>8, <1>9, <1>10, <1>11, <1>12,
           <1>13, <1>14 DEF Next, ReadByte, TimeOut

\* Clients that speak HTTP find the i-th request handled to be the i-th they sent,
\* with its headers and its body and nothing else, in whatever portions the bytes
\* arrive, whatever the size of the buffer and wherever a connection breaks, until
\* a body does not come in full.
THEOREM RequestsParsedAsSent ==
  ASSUME Numbered, Framed
  PROVE  Spec => []ParsedAsSent
<1>1. Spec => []TypeOK
  BY TypeInvariant
<1>2. Init => OwnInv
  BY OwnInvInit
<1>3. TypeOK /\ OwnInv /\ [Next]_vars => OwnInv'
  BY OwnInvStep
<1>4. Init => ParseInv
  BY ParseInit
<1>5. TypeOK /\ TypeOK' /\ OwnInv /\ ParseInv /\ [Next]_vars => ParseInv'
  BY ParseStep
<1>6. ParseInv => ParsedAsSent
  BY DEF ParseInv
<1> QED BY <1>1, <1>2, <1>3, <1>4, <1>5, <1>6, PTL DEF Spec

=============================================================================
