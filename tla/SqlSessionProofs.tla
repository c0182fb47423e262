--------------------------- MODULE SqlSessionProofs ---------------------------
(***************************************************************************)
(* Proofs about SqlSession, for every set of handlers and whatever number  *)
(* of requests and of lost connections.                                    *)
(***************************************************************************)
EXTENDS SqlSession, TLAPS

InRequest == pc \in {"call", "query"}

Size(r) == Len(handler[r].does)

\* Rows of a documented transaction are pending only while it is open.
PendingOwn ==
  \A row \in pending : Documented(row[1]) =>
    row[1] = req /\ InRequest /\ (undo \/ at \in 2..Size(req))

\* As long as it is not at its end it has nothing committed, and all it did is
\* pending if the connection was not lost.
Midway ==
  InRequest /\ Documented(req) /\ req \notin cut /\ ~undo /\ at <= Size(req) =>
    /\ durable \cap Rows(req) = {}
    /\ at > 1 => open
    /\ at > 1 /\ link = "up" =>
         \A row \in Rows(req) : row[2] < at => row \in pending

\* Nothing of it is committed when it comes to its catch, except by a commit()
\* whose answer was lost.
Undoing ==
  InRequest /\ Documented(req) /\ req \notin cut /\ undo /\ req \notin unsure =>
    durable \cap Rows(req) = {}

\* A rollback() that returned was the last call of its request.
RollbackEnds == InRequest /\ outcome[req] = "rollback" => Ended

\* What the properties say of one request.
Sound(r) ==
  Documented(r) /\ r \notin cut =>
    /\ durable \cap Rows(r) \in {{}, Rows(r)}
    /\ outcome[r] = "commit" => Rows(r) \subseteq durable
    /\ outcome[r] = "rollback" /\ r \notin unsure => durable \cap Rows(r) = {}

IInv == /\ TypeOK /\ PendingOwn /\ Midway /\ Undoing /\ RollbackEnds
        /\ \A r \in 1..req : Sound(r)

LEMMA SeqExcept ==
  ASSUME NEW S, NEW q \in Seq(S), NEW i \in 1..Len(q), NEW x \in S
  PROVE  [q EXCEPT ![i] = x] \in Seq(S) /\ Len([q EXCEPT ![i] = x]) = Len(q)
  OBVIOUS

LEMMA SeqAppend ==
  ASSUME NEW S, NEW q \in Seq(S), NEW x \in S
  PROVE  /\ Append(q, x) \in Seq(S) /\ Len(Append(q, x)) = Len(q) + 1
         /\ \A i \in 1..Len(q) : Append(q, x)[i] = q[i]
         /\ Append(q, x)[Len(q) + 1] = x
  OBVIOUS

\* In a request there is a handler, and in a query a call.
LEMMA InRequestFacts ==
  ASSUME TypeOK, InRequest
  PROVE  /\ req \in 1..MaxRequests /\ req \in 1..req /\ Len(outcome) = req
         /\ handler[req] \in Handlers
         /\ handler[req].does \in Seq(Calls) /\ Size(req) \in Nat
         /\ at \in 1..(Size(req) + 1)
         /\ ~Ended /\ ~undo => at \in 1..Size(req) /\ Now \in Calls
         /\ undo => Now = "rollback"
<1>1. req \in Nat /\ req > 0 /\ req <= MaxRequests /\ handler \in Seq(Handlers)
  BY DEF TypeOK, InRequest, req
<1>2. handler[req] \in Handlers
  BY <1>1 DEF req
<1>3. handler[req].does \in Seq(Calls)
  BY <1>2, ConstantsOK
<1>4. Size(req) \in Nat
  BY <1>3 DEF Size
<1>5. at \in 1..(Size(req) + 1)
  BY <1>4 DEF TypeOK, InRequest, Size
<1>6. ~Ended /\ ~undo => at \in 1..Size(req)
  BY <1>4, <1>5 DEF Ended, Size
<1> QED BY <1>1, <1>2, <1>3, <1>4, <1>5, <1>6, ConstantsOK DEF Now, Size, TypeOK

LEMMA CommittedType ==
  ASSUME TypeOK, InRequest, NEW c
  PROVE  /\ Committed(c) \subseteq (1..req) \X Nat
         /\ Uncommitted(c) \subseteq (1..req) \X Nat
<1>1. Row \in (1..req) \X Nat
  BY InRequestFacts DEF Row, TypeOK
<1> QED BY <1>1 DEF Committed, Uncommitted, TypeOK

\* What a call that throws does to the place of the handler.
LEMMA ThrowsType ==
  ASSUME TypeOK, pc = "query", Throws, UNCHANGED handler
  PROVE  /\ pc' \in {"idle", "call"} /\ undo' \in BOOLEAN /\ at' = at
         /\ pc' = "idle" => ~undo'
         /\ outcome' \in Seq(Calls \cup {"rollback", "running", "error"})
         /\ Len(outcome') = req'
<1>1. /\ outcome' \in Seq(Calls \cup {"rollback", "running", "error"})
      /\ Len(outcome') = Len(outcome)
  BY InRequestFacts, SeqExcept DEF Throws, TypeOK, InRequest
<1> QED BY <1>1 DEF Throws, Fails, LeaveSession, TypeOK, req

LEMMA ReturnsType ==
  ASSUME TypeOK, pc = "query", Returns(Now), UNCHANGED handler
  PROVE  /\ pc' = "call" /\ undo' = FALSE /\ open' \in BOOLEAN
         /\ at' \in Nat \ {0} /\ at' <= Len(handler[req].does) + 1
         /\ outcome' \in Seq(Calls \cup {"rollback", "running", "error"})
         /\ Len(outcome') = req'
<1>1. ~Ended /\ InRequest
  BY DEF TypeOK, InRequest
<1>2. Now \in Calls \cup {"rollback"}
  BY <1>1, InRequestFacts
<1>3. /\ outcome' \in Seq(Calls \cup {"rollback", "running", "error"})
      /\ Len(outcome') = Len(outcome)
  BY <1>1, <1>2, InRequestFacts, SeqExcept DEF Returns, TypeOK
<1>4. at' \in Nat \ {0} /\ at' <= Len(handler[req].does) + 1
  BY <1>1, InRequestFacts DEF Returns, Size
<1>5. open' \in BOOLEAN
  BY DEF Returns, TypeOK
<1> QED BY <1>3, <1>4, <1>5 DEF Returns, TypeOK, req

\* The variables keep their types.
LEMMA Typed == TypeOK /\ [Next]_vars => TypeOK'
<1> SUFFICES ASSUME TypeOK, [Next]_vars PROVE TypeOK'
  OBVIOUS
<1>1. CASE Connect
  BY <1>1 DEF Connect, TypeOK, req
<1>2. ASSUME NEW h \in Handlers, Request(h) PROVE TypeOK'
  <2>1. /\ handler' \in Seq(Handlers) /\ req' = req + 1
        /\ handler'[req'] = h
    BY <1>2, SeqAppend DEF Request, TypeOK, req
  <2>2. /\ outcome' \in Seq(Calls \cup {"rollback", "running", "error"})
        /\ Len(outcome') = req + 1
    BY <1>2, SeqAppend DEF Request, TypeOK, req
  <2>3. req \in Nat /\ req < MaxRequests /\ MaxRequests \in Nat
    BY <1>2, ConstantsOK DEF Request, TypeOK, req
  <2>4. Len(h.does) \in Nat
    BY ConstantsOK
  <2>5. /\ pending' \subseteq (1..req') \X Nat /\ durable' \subseteq (1..req') \X Nat
        /\ cut' \subseteq 1..req' /\ unsure' \subseteq 1..req'
    BY <1>2, <2>1, <2>3 DEF Request, TypeOK, server
  <2>6. /\ pc' = "call" /\ at' = 1 /\ undo' = FALSE /\ link' = link /\ auto' = auto
        /\ open' = open /\ pending' = pending /\ drops' = drops /\ pc = "idle"
    BY <1>2 DEF Request, server
  <2>7. req' <= MaxRequests /\ req' > 0 /\ Len(outcome') = req'
    BY <2>1, <2>2, <2>3
  <2>8. at' <= Len(handler'[req'].does) + 1
    BY <2>1, <2>4, <2>6
  <2>9. link # "none" /\ link \in {"up", "down", "none"} /\ auto \in BOOLEAN
        /\ open \in BOOLEAN /\ (link # "up" => pending = {}) /\ drops \in 0..MaxDrops
    BY <2>6 DEF TypeOK
  <2>10. at' \in Nat \ {0}
    BY <2>6
  <2>11. undo' \in BOOLEAN
    BY <2>6
  <2> QED BY <2>1, <2>2, <2>5, <2>6, <2>7, <2>8, <2>9, <2>10, <2>11 DEF TypeOK
<1>3. CASE EndRequest
  BY <1>3 DEF EndRequest, LeaveSession, server, req, TypeOK
<1>4. CASE Killed \/ NullHandle
  BY <1>4 DEF Killed, NullHandle, Die, Calling, req, TypeOK
<1>5. CASE Drop
  BY <1>5, ConstantsOK DEF Drop, req, Ended, TypeOK
<1>6. CASE Ping \/ PingReconnects
  BY <1>6 DEF Ping, PingReconnects, Calling, Ended, server, req, TypeOK
<1>7. CASE HandleReconnects
  <2>1. cut' \subseteq 1..req
    BY <1>7, InRequestFacts DEF HandleReconnects, Calling, InRequest, TypeOK
  <2> QED BY <1>7, <2>1 DEF HandleReconnects, Calling, Ended, req, TypeOK
<1>8. ASSUME pc = "query" PROVE Answered \/ Resent => TypeOK'
  <2> SUFFICES ASSUME Answered \/ Resent PROVE TypeOK'
    OBVIOUS
  <2>1. /\ pc' = "call" /\ undo' = FALSE /\ open' \in BOOLEAN
        /\ at' \in Nat \ {0} /\ at' <= Len(handler[req].does) + 1
        /\ outcome' \in Seq(Calls \cup {"rollback", "running", "error"})
        /\ Len(outcome') = req'
    BY <1>8, ReturnsType DEF Answered, Resent
  <2>2. durable' \subseteq (1..req) \X Nat /\ pending' \subseteq (1..req) \X Nat
    BY <1>8, CommittedType DEF Answered, Resent, Execute, InRequest
  <2>3. req' = req /\ link' = "up"
    BY DEF Answered, Resent, req
  <2> QED BY <1>8, <2>1, <2>2, <2>3 DEF Answered, Resent, TypeOK
<1>9. ASSUME pc = "query" PROVE Refused \/ AnswerLost \/ SendFails => TypeOK'
  <2> SUFFICES ASSUME Refused \/ AnswerLost \/ SendFails PROVE TypeOK'
    OBVIOUS
  <2>1. /\ pc' \in {"idle", "call"} /\ undo' \in BOOLEAN /\ at' = at
        /\ pc' = "idle" => ~undo'
        /\ outcome' \in Seq(Calls \cup {"rollback", "running", "error"})
        /\ Len(outcome') = req'
    BY <1>9, ThrowsType DEF Refused, AnswerLost, SendFails
  <2>2. durable' \subseteq (1..req) \X Nat
    BY <1>9, CommittedType DEF Refused, AnswerLost, SendFails, server, InRequest, TypeOK
  <2>3. req' = req /\ handler' = handler
    BY DEF Refused, AnswerLost, SendFails, req
  <2>4. unsure' \subseteq 1..req
    BY <1>9, InRequestFacts DEF Refused, AnswerLost, SendFails, InRequest, TypeOK
  <2>8. AnswerLost => drops' \in 0..MaxDrops
    BY ConstantsOK DEF AnswerLost, TypeOK
  <2>5. CASE Refused
    BY <1>9, <2>1, <2>2, <2>3, <2>4, <2>5 DEF Refused, server, TypeOK
  <2>6. CASE AnswerLost
    BY <1>9, <2>1, <2>2, <2>3, <2>4, <2>6, <2>8 DEF AnswerLost, TypeOK
  <2>7. CASE SendFails
    BY <1>9, <2>1, <2>2, <2>3, <2>4, <2>7 DEF SendFails, TypeOK
  <2> QED BY <2>5, <2>6, <2>7
<1>10. CASE UNCHANGED vars
  BY <1>10 DEF vars, server, req, Ended, TypeOK
<1>11. Answered \/ Resent \/ Refused \/ AnswerLost \/ SendFails => pc = "query"
  BY DEF Answered, Resent, Refused, AnswerLost, SendFails
<1> QED BY <1>1, <1>2, <1>3, <1>4, <1>5, <1>6, <1>7, <1>8, <1>9, <1>10, <1>11 DEF Next

LEMMA InitTyped == Init => TypeOK
<1> SUFFICES ASSUME Init PROVE TypeOK
  OBVIOUS
<1>1. handler \in Seq(Handlers) /\ req = 0
  BY DEF Init, req
<1>2. outcome \in Seq(Calls \cup {"rollback", "running", "error"}) /\ Len(outcome) = 0
  BY DEF Init
<1>3. /\ pc = "new" /\ at = 1 /\ undo = FALSE /\ link = "none" /\ auto = FALSE
      /\ open = FALSE /\ pending = {} /\ durable = {} /\ cut = {} /\ unsure = {}
      /\ drops = 0
  BY DEF Init
<1>4. req <= MaxRequests /\ drops \in 0..MaxDrops
  BY <1>1, <1>3, ConstantsOK
<1>5. at \in Nat \ {0}
  BY <1>3
<1>6. undo \in BOOLEAN /\ auto \in BOOLEAN /\ open \in BOOLEAN
  BY <1>3
<1> QED BY <1>1, <1>2, <1>3, <1>4, <1>5, <1>6 DEF TypeOK

-----------------------------------------------------------------------------
\* The rows of a documented transaction lie between its first and its last call.
LEMMA RowFacts ==
  ASSUME TypeOK, NEW r \in 1..req, Documented(r)
  PROVE  /\ Size(r) \in Nat /\ Size(r) >= 2
         /\ \A row \in Rows(r) : /\ row = <<r, row[2]>> /\ row[1] = r
                                 /\ row[2] \in 2..(Size(r) - 1)
         /\ handler[r].does[1] = "start"
         /\ handler[r].does[Size(r)] = "commit"
         /\ \A i \in 2..(Size(r) - 1) : handler[r].does[i] = "update"
<1>1. handler[r] \in Handlers
  BY DEF TypeOK, req
<1>2. handler[r].does \in Seq(Calls)
  BY <1>1, ConstantsOK
<1>3. Size(r) \in Nat /\ DOMAIN handler[r].does = 1..Size(r)
  BY <1>2 DEF Size
<1>4. /\ Size(r) >= 2
      /\ handler[r].does[1] = "start"
      /\ handler[r].does[Size(r)] = "commit"
      /\ \A i \in 2..(Size(r) - 1) : handler[r].does[i] = "update"
  BY DEF Documented, Size
<1>5. \A i \in 1..Size(r) : handler[r].does[i] = "update" => i \in 2..(Size(r) - 1)
  <2> SUFFICES ASSUME NEW i \in 1..Size(r), handler[r].does[i] = "update"
               PROVE  i \in 2..(Size(r) - 1)
    OBVIOUS
  <2>1. i # 1 /\ i # Size(r)
    BY <1>4
  <2> QED BY <1>3, <2>1
<1>6. \A row \in Rows(r) : /\ row = <<r, row[2]>> /\ row[1] = r
                           /\ row[2] \in 2..(Size(r) - 1)
  BY <1>3, <1>5 DEF Rows
<1> QED BY <1>3, <1>4, <1>6

\* The call that a documented transaction is at.
LEMMA PositionFacts ==
  ASSUME TypeOK, InRequest, ~Ended, ~undo, Documented(req)
  PROVE  /\ at \in 1..Size(req)
         /\ Now = "start" <=> at = 1
         /\ Now = "commit" <=> at = Size(req)
         /\ Now = "update" <=> at \in 2..(Size(req) - 1)
         /\ Now \in Calls
<1>1. req \in 1..req /\ at \in 1..Size(req) /\ Now = handler[req].does[at] /\ Now \in Calls
  BY InRequestFacts DEF Now
<1>2. /\ Size(req) \in Nat /\ Size(req) >= 2
      /\ handler[req].does[1] = "start"
      /\ handler[req].does[Size(req)] = "commit"
      /\ \A i \in 2..(Size(req) - 1) : handler[req].does[i] = "update"
  BY <1>1, RowFacts
<1>3. at = 1 \/ at = Size(req) \/ at \in 2..(Size(req) - 1)
  BY <1>1, <1>2
<1> QED BY <1>1, <1>2, <1>3

\* What the execution of a call does to the rows of a documented transaction that
\* is not cut: a commit() that the session is open for commits all, and nothing
\* else commits any.
LEMMA Execution ==
  ASSUME IInv, pc = "query", link = "up" \/ ~open, NEW r \in 1..req,
         Documented(r), r \notin cut
  PROVE  IF r = req /\ Now = "commit"
           THEN Rows(r) \subseteq Committed(Now)
           ELSE Committed(Now) \cap Rows(r) = durable \cap Rows(r)
<1> USE DEF IInv
<1>1. InRequest /\ ~Ended
  BY DEF InRequest, TypeOK
<1>2. req \in 1..req
  BY <1>1, InRequestFacts
<1>3. \A row \in Rows(r) : row[1] = r /\ row[2] \in 2..(Size(r) - 1) /\ row = <<r, row[2]>>
  BY RowFacts
<1>4. CASE r # req
  <2>1. \A row \in Rows(r) : row \notin pending
    BY <1>3, <1>4 DEF PendingOwn
  <2>2. Row \notin Rows(r)
    BY <1>3, <1>4 DEF Row
  <2> QED BY <1>4, <2>1, <2>2 DEF Committed
<1>5. CASE r = req /\ undo
  <2>1. Now = "rollback"
    BY <1>5 DEF Now
  <2> QED BY <1>5, <2>1 DEF Committed
<1>6. CASE r = req /\ ~undo
  <2>1. /\ at \in 1..Size(req) /\ Size(req) \in Nat
        /\ Now = "start" <=> at = 1
        /\ Now = "commit" <=> at = Size(req)
        /\ Now = "update" <=> at \in 2..(Size(req) - 1)
        /\ Now \in Calls
    BY <1>1, <1>2, <1>6, PositionFacts, RowFacts
  <2>2. Size(req) >= 2
    BY <1>2, <1>6, RowFacts
  <2>3. at > 1 => open
    BY <1>1, <1>6, <2>1 DEF Midway
  <2>4. CASE Now = "start"
    <3>1. \A row \in Rows(r) : row \notin pending
      BY <1>3, <1>6, <2>1, <2>2, <2>4 DEF PendingOwn
    <3> QED BY <2>4, <3>1 DEF Committed
  <2>5. CASE Now = "commit"
    <3>1. open /\ link = "up"
      BY <2>1, <2>2, <2>3, <2>5
    <3>2. \A row \in Rows(req) : row[2] < at => row \in pending
      BY <1>1, <1>6, <2>1, <2>2, <2>5, <3>1 DEF Midway
    <3>3. \A row \in Rows(r) : row \in pending
      BY <1>3, <1>6, <2>1, <2>2, <2>5, <3>2
    <3>4. Committed(Now) = durable \cup pending
      BY <2>5 DEF Committed
    <3> QED BY <1>6, <2>5, <3>3, <3>4
  <2>6. CASE Now = "update"
    <3>1. Committed(Now) = durable
      BY <2>1, <2>2, <2>3, <2>6 DEF Committed
    <3> QED BY <2>6, <3>1
  <2> QED BY <2>1, <2>4, <2>5, <2>6 DEF Calls
<1> QED BY <1>4, <1>5, <1>6

-----------------------------------------------------------------------------
\* Steps that commit nothing and report nothing.
LEMMA QuietSound ==
  ASSUME \A r \in 1..req : Sound(r), UNCHANGED <<handler, durable, outcome, unsure>>,
         cut \subseteq cut'
  PROVE  \A r \in 1..req' : Sound(r)'
  BY DEF Sound, Documented, Rows, req

\* Where two sequences of handlers agree, so do the requests.
LEMMA SameRequest ==
  ASSUME NEW r, handler'[r] = handler[r]
  PROVE  /\ Documented(r)' <=> Documented(r)
         /\ Rows(r)' = Rows(r) /\ Size(r)' = Size(r)
  BY DEF Documented, Rows, Size

LEMMA RequestStep ==
  ASSUME IInv, TypeOK', NEW h \in Handlers, Request(h)
  PROVE  IInv'
<1>0. /\ TypeOK /\ PendingOwn /\ Midway /\ Undoing /\ RollbackEnds
      /\ \A r \in 1..req : Sound(r)
  BY DEF IInv
<1> USE <1>0
<1>1. /\ req' = req + 1 /\ handler'[req'] = h /\ req \in Nat
      /\ \A r \in 1..req : handler'[r] = handler[r]
  BY SeqAppend DEF Request, TypeOK, req
<1>2. \A r \in 1..req : outcome'[r] = outcome[r]
  BY SeqAppend DEF Request, TypeOK
<1>3. outcome'[req'] = "running"
  BY <1>1, SeqAppend DEF Request, TypeOK
<1>4. /\ pc = "idle" /\ pc' = "call" /\ at' = 1 /\ undo' = FALSE
      /\ pending' = pending /\ durable' = durable /\ cut' = cut /\ unsure' = unsure
  BY DEF Request, server
<1>5. \A r \in 1..req : (Documented(r)' <=> Documented(r)) /\ Rows(r)' = Rows(r)
  BY <1>1, SameRequest
<1>6. \A row \in pending \cup durable : row[1] \in 1..req
  BY DEF TypeOK
<1>7. PendingOwn'
  BY <1>4, <1>5, <1>6 DEF PendingOwn, InRequest
<1>8. (durable \cap Rows(req))' = {}
  <2>1. \A row \in Rows(req)' : row[1] = req'
    BY DEF Rows
  <2> QED BY <1>1, <1>4, <1>6, <2>1
<1>9. Midway' /\ Undoing'
  BY <1>4, <1>8 DEF Midway, Undoing
<1>10. RollbackEnds'
  BY <1>3 DEF RollbackEnds
<1>11. \A r \in 1..req' : Sound(r)'
  <2> SUFFICES ASSUME NEW r \in 1..req' PROVE Sound(r)'
    OBVIOUS
  <2>1. CASE r \in 1..req
    BY <2>1, <1>2, <1>4, <1>5 DEF Sound
  <2>2. CASE r = req'
    BY <2>2, <1>3, <1>8 DEF Sound
  <2> QED BY <1>1, <2>1, <2>2
<1> QED BY <1>7, <1>9, <1>10, <1>11 DEF IInv

\* A call that returns.
LEMMA ReturnsStep ==
  ASSUME IInv, TypeOK', Answered \/ Resent
  PROVE  IInv'
<1>0. /\ TypeOK /\ PendingOwn /\ Midway /\ Undoing /\ RollbackEnds
      /\ \A r \in 1..req : Sound(r)
  BY DEF IInv
<1> USE <1>0
<1>1. /\ pc = "query" /\ link' = "up"
      /\ durable' = Committed(Now) /\ pending' = Uncommitted(Now)
      /\ handler' = handler /\ cut' = cut /\ unsure' = unsure /\ Returns(Now)
      /\ link = "up" \/ ~open
  BY DEF Answered, Resent, Execute, TypeOK
<1>2. InRequest /\ ~Ended
  BY <1>1 DEF InRequest, TypeOK
<1>3. req' = req /\ req \in 1..req /\ Len(outcome) = req
  BY <1>1, <1>2, InRequestFacts DEF req
<1>4. \A r : (Documented(r)' <=> Documented(r)) /\ Rows(r)' = Rows(r) /\ Size(r)' = Size(r)
  BY <1>1, SameRequest
<1>5. /\ pc' = "call" /\ undo' = FALSE
      /\ at' = IF undo THEN Size(req) + 1 ELSE at + 1
      /\ outcome' = [outcome EXCEPT ![req] = Now]
  BY <1>1 DEF Returns, Size
<1>6. undo => Now = "rollback"
  BY DEF Now
<1>7. PendingOwn'
  <2> SUFFICES ASSUME NEW row \in pending', Documented(row[1])
               PROVE  row[1] = req /\ at' \in 2..Size(req)
    BY <1>3, <1>4, <1>5 DEF PendingOwn, InRequest
  <2>1. Now = "update" /\ ~undo
    BY <1>1, <1>6 DEF Uncommitted
  <2>2. row[1] = req /\ (row = Row \/ row \in pending)
    BY <1>1, <2>1 DEF Uncommitted, Row, PendingOwn
  <2>3. at \in 2..(Size(req) - 1) /\ Size(req) \in Nat
    BY <1>2, <1>3, <2>1, <2>2, PositionFacts, RowFacts
  <2> QED BY <1>5, <2>1, <2>2, <2>3
<1>8. ASSUME Documented(req), req \notin cut, ~undo, at < Size(req)
      PROVE  /\ durable' \cap Rows(req) = {}
             /\ open'
             /\ \A row \in Rows(req) : row[2] < at + 1 => row \in pending'
  <2>1. /\ at \in 1..Size(req) /\ Size(req) \in Nat /\ Size(req) >= 2
        /\ Now = "start" <=> at = 1
        /\ Now = "commit" <=> at = Size(req)
        /\ Now = "update" <=> at \in 2..(Size(req) - 1)
    BY <1>2, <1>3, <1>8, PositionFacts, RowFacts
  <2>2. durable \cap Rows(req) = {} /\ (at > 1 => open)
    BY <1>2, <1>8, <2>1 DEF Midway
  <2>3. durable' \cap Rows(req) = {}
    BY <1>1, <1>3, <1>8, <2>1, <2>2, Execution
  <2>4. CASE Now = "start"
    <3>1. open'
      BY <1>1, <2>4 DEF Returns
    <3>2. \A row \in Rows(req) : row[2] \in 2..(Size(req) - 1)
      BY <1>3, <1>8, RowFacts
    <3> QED BY <2>1, <2>3, <2>4, <3>1, <3>2
  <2>5. CASE Now = "update"
    <3>1. open /\ link = "up" /\ at > 1
      BY <1>1, <2>1, <2>2, <2>5
    <3>2. open'
      BY <1>1, <2>5, <3>1 DEF Returns
    <3>3. pending' = pending \cup {Row}
      BY <1>1, <2>5, <3>1 DEF Uncommitted
    <3>4. \A row \in Rows(req) : row[2] < at => row \in pending
      BY <1>2, <1>8, <2>1, <3>1 DEF Midway
    <3>5. \A row \in Rows(req) : row = <<req, row[2]>> /\ row[2] \in Nat
      BY <1>3, <1>8, RowFacts
    <3>6. \A row \in Rows(req) : row[2] < at + 1 => row[2] < at \/ row = Row
      BY <2>1, <3>5 DEF Row
    <3> QED BY <2>3, <3>2, <3>3, <3>4, <3>6
  <2> QED BY <1>8, <2>1, <2>4, <2>5
<1>9. Midway'
  <2> SUFFICES ASSUME Documented(req), req \notin cut, at' <= Size(req)
               PROVE  /\ durable' \cap Rows(req) = {}
                      /\ open'
                      /\ \A row \in Rows(req) : row[2] < at' => row \in pending'
    BY <1>1, <1>3, <1>4 DEF Midway
  <2>1. Size(req) \in Nat /\ at \in Nat
    BY <1>2, InRequestFacts
  <2>2. ~undo /\ at' = at + 1 /\ at < Size(req)
    BY <1>5, <2>1
  <2> QED BY <1>8, <2>2
<1>10. Undoing'
  BY <1>5 DEF Undoing
<1>11. RollbackEnds'
  <2> SUFFICES ASSUME outcome'[req] = "rollback" PROVE Ended'
    BY <1>3 DEF RollbackEnds
  <2>1. Now = "rollback"
    BY <1>3, <1>5 DEF TypeOK
  <2>2. undo
    BY <1>2, <2>1, InRequestFacts DEF Calls
  <2>3. Size(req) \in Nat
    BY <1>2, InRequestFacts
  <2> QED BY <1>3, <1>4, <1>5, <2>2, <2>3 DEF Ended, Size
<1>12. \A r \in 1..req' : Sound(r)'
  <2> SUFFICES ASSUME NEW r \in 1..req, Documented(r), r \notin cut PROVE Sound(r)'
    BY <1>1, <1>3, <1>4 DEF Sound
  <2>1. IF r = req /\ Now = "commit"
          THEN Rows(r) \subseteq durable' ELSE durable' \cap Rows(r) = durable \cap Rows(r)
    BY <1>1, Execution
  <2>2. CASE r # req
    <3>1. outcome'[r] = outcome[r]
      BY <1>5, <2>2 DEF TypeOK
    <3> QED BY <1>1, <1>4, <2>1, <2>2, <3>1 DEF Sound
  <2>3. CASE r = req
    <3>1. outcome'[r] = Now
      BY <1>3, <1>5, <2>3 DEF TypeOK
    <3>2. CASE Now = "commit"
      BY <1>4, <2>1, <2>3, <3>1, <3>2 DEF Sound
    <3>3. CASE Now = "rollback"
      <4>1. undo
        BY <1>2, <3>3, InRequestFacts DEF Calls
      <4>2. r \notin unsure => durable \cap Rows(r) = {}
        BY <1>2, <2>3, <4>1 DEF Undoing
      <4> QED BY <1>1, <1>4, <2>1, <3>1, <3>3, <4>2 DEF Sound
    <3>4. CASE Now \notin {"commit", "rollback"}
      BY <1>1, <1>4, <2>1, <3>1, <3>4 DEF Sound
    <3> QED BY <3>2, <3>3, <3>4
  <2> QED BY <2>2, <2>3
<1> QED BY <1>7, <1>9, <1>10, <1>11, <1>12 DEF IInv

\* A call that throws.
LEMMA ThrowsStep ==
  ASSUME IInv, TypeOK', Refused \/ AnswerLost \/ SendFails
  PROVE  IInv'
<1>0. /\ TypeOK /\ PendingOwn /\ Midway /\ Undoing /\ RollbackEnds
      /\ \A r \in 1..req : Sound(r)
  BY DEF IInv
<1> USE <1>0
<1>1. /\ pc = "query" /\ handler' = handler /\ cut' = cut /\ unsure \subseteq unsure'
      /\ Throws
  BY DEF Refused, AnswerLost, SendFails
<1>2. InRequest /\ ~Ended
  BY <1>1 DEF InRequest, TypeOK
<1>3. req' = req /\ req \in 1..req /\ Len(outcome) = req
  BY <1>1, <1>2, InRequestFacts DEF req
<1>4. \A r : (Documented(r)' <=> Documented(r)) /\ Rows(r)' = Rows(r) /\ Size(r)' = Size(r)
  BY <1>1, SameRequest
<1>5. /\ InRequest' => undo' /\ Now \in {"update", "commit"}
      /\ outcome' = [outcome EXCEPT ![req] = "error"]
  BY <1>1 DEF Throws, Fails, LeaveSession, InRequest
<1>6. \/ durable' = durable
      \/ /\ durable' = Committed(Now) /\ link = "up"
         /\ Now = "commit" => req \in unsure'
  BY DEF Refused, AnswerLost, SendFails, server
<1>7. PendingOwn'
  <2> SUFFICES ASSUME NEW row \in pending', Documented(row[1])
               PROVE  row[1] = req /\ InRequest' /\ undo'
    BY <1>3, <1>4 DEF PendingOwn
  <2>1. Refused /\ row \in pending
    BY DEF Refused, AnswerLost, SendFails, server, TypeOK
  <2>2. row[1] = req
    BY <2>1 DEF PendingOwn
  <2>3. handler[req].catches /\ Now \in {"update", "commit"}
    BY <2>1, <2>2 DEF Refused, Documented
  <2> QED BY <1>1, <2>2, <2>3 DEF Throws, Fails, InRequest
<1>8. Midway'
  BY <1>5 DEF Midway
<1>9. Undoing'
  <2> SUFFICES ASSUME InRequest', Documented(req), req \notin cut, req \notin unsure'
               PROVE  durable' \cap Rows(req) = {}
    BY <1>1, <1>3, <1>4 DEF Undoing
  <2>1. Now \in {"update", "commit"}
    BY <1>5
  <2>2. ~undo
    BY <2>1 DEF Now
  <2>3. durable \cap Rows(req) = {}
    BY <1>2, <1>3, <2>2, PositionFacts DEF Midway, Size
  <2>4. CASE durable' = durable
    BY <2>3, <2>4
  <2>5. CASE durable' = Committed(Now) /\ link = "up" /\ Now # "commit"
    BY <1>1, <1>3, <2>3, <2>5, Execution
  <2> QED BY <1>6, <2>4, <2>5
<1>10. RollbackEnds'
  BY <1>3, <1>5 DEF RollbackEnds
<1>11. \A r \in 1..req' : Sound(r)'
  <2> SUFFICES ASSUME NEW r \in 1..req, Documented(r), r \notin cut PROVE Sound(r)'
    BY <1>1, <1>3, <1>4 DEF Sound
  <2>1. \/ durable' \cap Rows(r) = durable \cap Rows(r)
        \/ r = req /\ durable' \cap Rows(r) = Rows(r)
    <3>1. CASE durable' = durable
      BY <3>1
    <3>2. CASE durable' = Committed(Now) /\ link = "up"
      BY <1>1, <3>2, Execution
    <3> QED BY <1>6, <3>1, <3>2
  <2>2. durable \cap Rows(r) \in {{}, Rows(r)}
    BY DEF Sound
  <2>3. CASE r # req
    <3>1. outcome'[r] = outcome[r] /\ durable' \cap Rows(r) = durable \cap Rows(r)
      BY <1>5, <2>1, <2>3 DEF TypeOK
    <3> QED BY <1>1, <1>4, <3>1 DEF Sound
  <2>4. CASE r = req
    <3>1. outcome'[r] = "error"
      BY <1>3, <1>5, <2>4 DEF TypeOK
    <3> QED BY <1>4, <2>1, <2>2, <3>1 DEF Sound
  <2> QED BY <2>3, <2>4
<1> QED BY <1>7, <1>8, <1>9, <1>10, <1>11 DEF IInv

-----------------------------------------------------------------------------
\* The steps that execute no call.
LEMMA QuietStep ==
  ASSUME IInv, TypeOK',
         \/ Connect \/ EndRequest \/ Killed \/ NullHandle \/ Drop
         \/ Ping \/ PingReconnects \/ HandleReconnects \/ UNCHANGED vars
  PROVE  IInv'
<1>0. /\ TypeOK /\ PendingOwn /\ Midway /\ Undoing /\ RollbackEnds
      /\ \A r \in 1..req : Sound(r)
  BY DEF IInv
<1> USE <1>0
<1>1. UNCHANGED <<at, handler, outcome, durable, unsure>> /\ cut \subseteq cut'
  BY DEF Connect, EndRequest, Killed, NullHandle, Die, Drop, Ping, PingReconnects,
         HandleReconnects, vars, server
<1>2. InRequest' => InRequest /\ undo' = undo
  BY DEF Connect, EndRequest, LeaveSession, Killed, NullHandle, Die, Drop, Ping,
         PingReconnects, HandleReconnects, Calling, vars, server, InRequest
<1>3. req' = req
  BY <1>1 DEF req
<1>4. \A r : (Documented(r)' <=> Documented(r)) /\ Rows(r)' = Rows(r) /\ Size(r)' = Size(r)
  BY <1>1, SameRequest
<1>5. PendingOwn'
  <2> SUFFICES ASSUME NEW row \in pending', Documented(row[1])
               PROVE  row[1] = req /\ InRequest' /\ (undo' \/ at \in 2..Size(req))
    BY <1>1, <1>3, <1>4 DEF PendingOwn
  <2>1. row \in pending /\ (EndRequest \/ Ping \/ UNCHANGED vars)
    BY DEF Connect, EndRequest, Killed, NullHandle, Die, Drop, Ping, PingReconnects,
           HandleReconnects, vars, server, TypeOK
  <2>2. row[1] = req /\ InRequest /\ (undo \/ at \in 2..Size(req))
    BY <2>1 DEF PendingOwn
  <2>3. ~EndRequest
    <3>1. Size(req) \in Nat
      BY <2>2, InRequestFacts
    <3> QED BY <2>2, <3>1 DEF EndRequest, Ended, Size
  <2>4. pc' \in {"call", "query"} /\ undo' = undo
    BY <2>1, <2>2, <2>3 DEF Ping, vars, InRequest
  <2> QED BY <2>2, <2>4 DEF InRequest
<1>6. Midway'
  <2> SUFFICES ASSUME InRequest', Documented(req), req \notin cut', ~undo',
                      at <= Size(req)
               PROVE  /\ durable \cap Rows(req) = {}
                      /\ at > 1 => open'
                      /\ at > 1 /\ link' = "up" =>
                           \A row \in Rows(req) : row[2] < at => row \in pending'
    BY <1>1, <1>3, <1>4 DEF Midway
  <2>1. /\ durable \cap Rows(req) = {} /\ (at > 1 => open)
        /\ at > 1 /\ link = "up" =>
             \A row \in Rows(req) : row[2] < at => row \in pending
    BY <1>1, <1>2 DEF Midway
  <2>2. CASE Ping \/ UNCHANGED vars
    BY <2>1, <2>2 DEF Ping, vars, server
  <2>3. CASE Drop
    BY <2>1, <2>3 DEF Drop
  <2>4. CASE PingReconnects
    BY <2>1, <2>4 DEF PingReconnects
  <2>5. CASE HandleReconnects
    <3>1. InRequest /\ ~Ended /\ ~undo
      BY <1>2, <2>5 DEF HandleReconnects, Calling
    <3>2. at > 1 => Now \in {"update", "commit"}
      BY <3>1, PositionFacts, InRequestFacts DEF Calls
    <3>3. ~(at > 1)
      BY <2>1, <2>5, <3>2 DEF HandleReconnects
    <3> QED BY <2>1, <3>3
  <2>6. CASE Connect \/ EndRequest \/ Killed \/ NullHandle
    BY <2>6 DEF Connect, EndRequest, LeaveSession, Killed, NullHandle, Die, InRequest
  <2> QED BY <2>2, <2>3, <2>4, <2>5, <2>6
<1>7. Undoing'
  BY <1>1, <1>2, <1>3, <1>4 DEF Undoing
<1>8. RollbackEnds'
  BY <1>1, <1>2, <1>3 DEF RollbackEnds, Ended
<1>9. \A r \in 1..req' : Sound(r)'
  BY <1>1, QuietSound
<1> QED BY <1>5, <1>6, <1>7, <1>8, <1>9 DEF IInv

-----------------------------------------------------------------------------
\* IInv holds at first and every step keeps it.
LEMMA Inductive == Spec => []IInv
<1>1. Init => IInv
  <2> SUFFICES ASSUME Init PROVE IInv
    OBVIOUS
  <2>1. TypeOK
    BY InitTyped
  <2>2. pc = "new" /\ req = 0 /\ pending = {}
    BY DEF Init, req
  <2> QED BY <2>1, <2>2 DEF IInv, PendingOwn, Midway, Undoing, RollbackEnds, InRequest
<1>2. IInv /\ [Next]_vars => IInv'
  <2> SUFFICES ASSUME IInv, [Next]_vars PROVE IInv'
    OBVIOUS
  <2>1. TypeOK'
    BY Typed DEF IInv
  <2>2. ASSUME NEW h \in Handlers, Request(h) PROVE IInv'
    BY <2>1, <2>2, RequestStep
  <2>3. CASE Answered \/ Resent
    BY <2>1, <2>3, ReturnsStep
  <2>4. CASE Refused \/ AnswerLost \/ SendFails
    BY <2>1, <2>4, ThrowsStep
  <2>5. CASE \/ Connect \/ EndRequest \/ Killed \/ NullHandle \/ Drop
             \/ Ping \/ PingReconnects \/ HandleReconnects \/ UNCHANGED vars
    BY <2>1, <2>5, QuietStep
  <2> QED BY <2>2, <2>3, <2>4, <2>5 DEF Next
<1> QED BY <1>1, <1>2, PTL DEF Spec

\* Every variable keeps its type, and a process that is new has no session
\* (child.js:448).
THEOREM Typing == Spec => []TypeOK
<1>1. IInv => TypeOK
  BY DEF IInv
<1> QED BY <1>1, Inductive, PTL

\* A documented transaction (MySQL.js:25-37) that no call reconnected in is
\* committed as a whole or not at all, whatever is lost, refused or resent in it.
THEOREM Atomicity == Spec => []AllOrNothing
<1>1. IInv => AllOrNothing
  BY DEF IInv, AllOrNothing, Sound
<1> QED BY <1>1, Inductive, PTL

\* When its commit() returned (MySQL.js:336), everything it did is committed.
THEOREM CommitsAll == Spec => []CommitKeeps
<1>1. IInv => CommitKeeps
  BY DEF IInv, CommitKeeps, Kept, Sound
<1> QED BY <1>1, Inductive, PTL

\* When its rollback() returned (MySQL.js:358), nothing it did is committed, unless
\* the answer to its commit() was lost.
THEOREM RollsBack == Spec => []RollbackUndoes
<1>1. IInv => RollbackUndoes
  BY DEF IInv, RollbackUndoes, Sound
<1> QED BY <1>1, Inductive, PTL
=============================================================================
