------------------------------ MODULE MailProofs -------------------------------
(***************************************************************************)
(* Proofs about FileIO and Mail, for every set of processes, files and     *)
(* mails, whatever goes wrong.                                             *)
(***************************************************************************)
EXTENDS Mail, SequenceTheorems, TLAPS

\* A step of a process on files.
FileAction(p) ==
  \/ \E f \in Readers \cup Writers : OpenFails(p, f)
  \/ \E f \in Readers, name \in Names : OpenRead(p, f, name)
  \/ \E f \in Writers, name \in Names, d \in Data : OpenWrite(p, f, name, d)
  \/ \E name \in Names : Unlink(p, name)
  \/ Step(p) \/ Die(p)

\* What TypeOK says of the calls of one process.
CallOK(p) ==
  /\ pc[p] \in {"write", "unlock"} => op[p] \in Writers
  /\ pc[p] = "lock" => op[p] \in Readers \cup {"writeFile"}
  /\ op[p] \in Writers /\ pc[p] \notin {"idle", "dead"} => data[p] \in Data
  /\ pc[p] \notin {"idle", "dead"} => ino[p] # 0
  /\ lock[p] = IF Reading(p) THEN "shared"
               ELSE IF Writing(p) THEN "exclusive" ELSE "none"
  /\ Reading(p) => op[p] \in Readers

\* And of the files.
FilesOK ==
  /\ dir \in [Names -> DOMAIN content \cup {None}]
  /\ content \in Seq(Seq(Blocks))
  /\ leaked \subseteq [by : Procs, ino : DOMAIN content]
  /\ last \in Seq(Procs) /\ Len(last) = Len(content)
  /\ clash \subseteq DOMAIN content

\* And of the variables of the processes.
LocalsOK ==
  /\ pc \in [Procs -> {"idle", "lock", "read", "size", "slurp", "write",
                       "unlock", "dead"}]
  /\ op \in [Procs -> Readers \cup Writers \cup {"unlink", "none"}]
  /\ data \in [Procs -> Data \cup {None}]
  /\ ino \in [Procs -> DOMAIN content \cup {0}]
  /\ lock \in [Procs -> {"none", "shared", "exclusive"}]
  /\ want \in [Procs -> Nat]
  /\ got \in [Procs -> Seq(Blocks)]
  /\ result \in [Procs -> {"none", "null", "true", "false", "contents"}]

LEMMA TypeParts ==
  TypeOK <=> FilesOK /\ LocalsOK /\ calls \in 0..MaxCalls /\ \A p \in Procs : CallOK(p)
  BY DEF TypeOK, FilesOK, LocalsOK, CallOK

LEMMA SeqExcept ==
  ASSUME NEW S, NEW q \in Seq(S), NEW i \in DOMAIN q, NEW x \in S
  PROVE  /\ [q EXCEPT ![i] = x] \in Seq(S) /\ Len([q EXCEPT ![i] = x]) = Len(q)
         /\ DOMAIN [q EXCEPT ![i] = x] = DOMAIN q
  OBVIOUS

LEMMA SeqAppend ==
  ASSUME NEW S, NEW q \in Seq(S), NEW x \in S
  PROVE  /\ Append(q, x) \in Seq(S) /\ Len(Append(q, x)) = Len(q) + 1
         /\ DOMAIN Append(q, x) = DOMAIN q \cup {Len(q) + 1}
         /\ \A i \in DOMAIN q : Append(q, x)[i] = q[i]
  OBVIOUS

\* The calls of the other processes stay as they are.
LEMMA OthersKeep ==
  ASSUME NEW p \in Procs, \A q \in Procs : CallOK(q), CallOK(p)',
         \A q \in Procs \ {p} : /\ pc'[q] = pc[q] /\ op'[q] = op[q] /\ data'[q] = data[q]
                                /\ ino'[q] = ino[q] /\ lock'[q] = lock[q]
  PROVE  \A q \in Procs : CallOK(q)'
<1> SUFFICES ASSUME NEW q \in Procs \ {p} PROVE CallOK(q)'
  OBVIOUS
<1> QED BY DEF CallOK, Reading, Writing

\* A step of p changes no other process.
LEMMA OnlyOwn ==
  ASSUME LocalsOK, NEW p \in Procs, FileAction(p), NEW q \in Procs \ {p}
  PROVE  /\ pc'[q] = pc[q] /\ op'[q] = op[q] /\ data'[q] = data[q]
         /\ ino'[q] = ino[q] /\ lock'[q] = lock[q] /\ got'[q] = got[q]
         /\ result'[q] = result[q]
<1>1. CASE \E f \in Readers \cup Writers : OpenFails(p, f)
  BY <1>1 DEF OpenFails, LocalsOK
<1>2. CASE \E f \in Readers, name \in Names : OpenRead(p, f, name)
  BY <1>2 DEF OpenRead, Begin, LocalsOK
<1>3. CASE \E f \in Writers, name \in Names, d \in Data : OpenWrite(p, f, name, d)
  BY <1>3 DEF OpenWrite, Begin, LocalsOK
<1>4. CASE \E name \in Names : Unlink(p, name)
  BY <1>4 DEF Unlink, LocalsOK
<1>5. CASE Step(p)
  <2>1. CASE LockShared(p) \/ LockExclusive(p)
    BY <2>1 DEF LockShared, LockExclusive, LocalsOK
  <2>2. CASE ReadBlock(p) \/ AskSize(p)
    BY <2>2 DEF ReadBlock, AskSize, LocalsOK
  <2>3. CASE ReadEnds(p) \/ Slurp(p) \/ SlurpPart(p) \/ SlurpFails(p) \/ Unlock(p)
    BY <2>3 DEF ReadEnds, Slurp, SlurpPart, SlurpFails, Unlock, Return, LocalsOK
  <2>4. CASE WriteOut(p)
    BY <2>4 DEF WriteOut, Return, LocalsOK
  <2> QED BY <1>5, <2>1, <2>2, <2>3, <2>4 DEF Step
<1>6. CASE Die(p)
  BY <1>6 DEF Die, LocalsOK
<1> QED BY <1>1, <1>2, <1>3, <1>4, <1>5, <1>6 DEF FileAction

-----------------------------------------------------------------------------
\* The files, when their contents stay.
LEMMA ReadTyped ==
  ASSUME FilesOK, LocalsOK, \A q \in Procs : CallOK(q), NEW p \in Procs,
         \/ LockShared(p) \/ LockExclusive(p) \/ ReadBlock(p) \/ ReadEnds(p)
         \/ AskSize(p) \/ Slurp(p) \/ SlurpPart(p) \/ SlurpFails(p) \/ Unlock(p)
  PROVE  FilesOK' /\ LocalsOK' /\ CallOK(p)'
<1>1. ino[p] \in DOMAIN content /\ content[ino[p]] \in Seq(Blocks) /\ CallOK(p)
  <2>1. pc[p] \notin {"idle", "dead"}
    BY DEF LockShared, LockExclusive, ReadBlock, ReadEnds, AskSize, Slurp, SlurpPart,
           SlurpFails, Unlock
  <2>2. ino[p] # 0 /\ ino[p] \in DOMAIN content \cup {0}
    BY <2>1 DEF CallOK, LocalsOK
  <2> QED BY <2>2 DEF FilesOK
<1>2. Len(content[ino[p]]) \in Nat /\ Len(got[p]) \in Nat /\ want[p] \in Nat
  BY <1>1 DEF LocalsOK
<1>3. FilesOK'
  <2>1. leaked' \subseteq [by : Procs, ino : DOMAIN content]
    BY <1>1 DEF LockShared, LockExclusive, ReadBlock, ReadEnds, AskSize, Slurp,
                SlurpPart, SlurpFails, Unlock, FilesOK
  <2>2. UNCHANGED <<dir, content, last, clash>>
    BY DEF LockShared, LockExclusive, ReadBlock, ReadEnds, AskSize, Slurp, SlurpPart,
           SlurpFails, Unlock, files, history
  <2> QED BY <2>1, <2>2 DEF FilesOK
<1>4. CASE LockShared(p) \/ LockExclusive(p)
  <2>1. LocalsOK'
    BY <1>4 DEF LockShared, LockExclusive, files, LocalsOK
  <2>2. LockShared(p) => CallOK(p)'
    BY <1>1 DEF LockShared, LocalsOK, CallOK, Reading, Writing, Readers, Writers
  <2>3. LockExclusive(p) => CallOK(p)'
    BY <1>1 DEF LockExclusive, LocalsOK, CallOK, Reading, Writing, Readers, Writers
  <2> QED BY <1>3, <1>4, <2>1, <2>2, <2>3
<1>5. CASE ReadBlock(p)
  <2>1. content[ino[p]][Len(got[p]) + 1] \in Blocks
    BY <1>1, <1>2, <1>5 DEF ReadBlock
  <2>2. got' \in [Procs -> Seq(Blocks)]
    BY <1>5, <2>1 DEF ReadBlock, LocalsOK
  <2> QED BY <1>1, <1>3, <1>5, <2>2 DEF ReadBlock, files, LocalsOK, CallOK, Reading, Writing
<1>6. CASE AskSize(p)
  BY <1>1, <1>2, <1>3, <1>6 DEF AskSize, files, LocalsOK, CallOK, Reading, Writing
<1>7. CASE ReadEnds(p) \/ Slurp(p) \/ SlurpPart(p) \/ SlurpFails(p) \/ Unlock(p)
  <2>1. pc' = [pc EXCEPT ![p] = "idle"] /\ lock' = [lock EXCEPT ![p] = "none"]
        /\ want' = [want EXCEPT ![p] = 0]
        /\ UNCHANGED <<content, op, data, ino>>
    BY <1>7 DEF ReadEnds, Slurp, SlurpPart, SlurpFails, Unlock, Return, files
  <2>2. \E r \in {"none", "null", "true", "false", "contents"} :
          result' = [result EXCEPT ![p] = r]
    BY <1>7 DEF ReadEnds, Slurp, SlurpPart, SlurpFails, Unlock, Return, LocalsOK
  <2>3. SlurpPart(p) => SubSeq(content[ino[p]], 1, want[p]) \in Seq(Blocks)
    <3>1. want[p] < Len(content[ino[p]]) => \A i \in 1..want[p] : content[ino[p]][i] \in Blocks
      BY <1>1, <1>2
    <3>2. 1 \in Int /\ want[p] \in Int
      BY <1>2
    <3> QED BY <3>1, <3>2, SubSeqProperties DEF SlurpPart
  <2>4. \/ got' = got
        \/ got' = [got EXCEPT ![p] = content[ino[p]]]
        \/ /\ got' = [got EXCEPT ![p] = SubSeq(content[ino[p]], 1, want[p])]
           /\ SlurpPart(p)
    BY <1>7 DEF ReadEnds, Slurp, SlurpPart, SlurpFails, Unlock
  <2>5. got' \in [Procs -> Seq(Blocks)]
    <3>1. got' = got \/ \E x \in Seq(Blocks) : got' = [got EXCEPT ![p] = x]
      BY <1>1, <2>3, <2>4
    <3>2. got \in [Procs -> Seq(Blocks)]
      BY DEF LocalsOK
    <3> QED BY <3>1, <3>2
  <2>6. LocalsOK'
    BY <2>1, <2>2, <2>5 DEF LocalsOK
  <2>7. CallOK(p)'
    BY <2>1 DEF LocalsOK, CallOK, Reading, Writing
  <2> QED BY <1>3, <2>6, <2>7
<1> QED BY <1>4, <1>5, <1>6, <1>7

\* What write(2) leaves in a file.
LEMMA WriteTyped ==
  ASSUME FilesOK, LocalsOK, \A q \in Procs : CallOK(q), NEW p \in Procs, WriteOut(p)
  PROVE  FilesOK' /\ LocalsOK' /\ CallOK(p)'
<1>1. ino[p] \in DOMAIN content /\ content[ino[p]] \in Seq(Blocks)
      /\ op[p] \in Writers /\ data[p] \in Data /\ Size[data[p]] \in Nat
  <2>1. CallOK(p) /\ pc[p] = "write"
    BY DEF WriteOut
  <2>2. ino[p] # 0 /\ ino[p] \in DOMAIN content \cup {0}
    BY <2>1 DEF CallOK, LocalsOK
  <2>3. op[p] \in Writers /\ data[p] \in Data
    BY <2>1 DEF CallOK
  <2> QED BY <2>2, <2>3, ConstantsOK DEF FilesOK
<1>2. PICK n \in (IF "full" \in Allow THEN 0..Size[data[p]] ELSE {Size[data[p]]}) :
        LET i == ino[p]
            old == content[i]
            new == [j \in 1..(IF n > Len(old) THEN n ELSE Len(old)) |->
                      IF j <= n THEN <<data[p], j>> ELSE old[j]]
        IN /\ content' = [content EXCEPT ![i] = new]
           /\ IF op[p] = "writeFile"
                THEN /\ pc' = [pc EXCEPT ![p] = "unlock"]
                     /\ result' = [result EXCEPT ![p] = Outcome(p, n)]
                     /\ UNCHANGED <<lock, want, clash>>
                ELSE /\ Return(p, Outcome(p, n))
                     /\ clash' = IF \E q \in Procs \ {p} : Using(q, i)
                                   THEN clash \cup {i} ELSE clash
  BY DEF WriteOut
<1> DEFINE old == content[ino[p]]
           m == IF n > Len(old) THEN n ELSE Len(old)
           new == [j \in 1..m |-> IF j <= n THEN <<data[p], j>> ELSE old[j]]
<1>3. n \in Nat /\ Len(old) \in Nat /\ m \in Nat
  BY <1>1
<1>4. \A j \in 1..m : (IF j <= n THEN <<data[p], j>> ELSE old[j]) \in Blocks
  BY <1>1, <1>3 DEF Blocks
<1>5. new \in Seq(Blocks)
  <2> HIDE DEF m
  <2> QED BY <1>3, <1>4
<1>6. content' = [content EXCEPT ![ino[p]] = new]
  BY <1>2
<1>7. UNCHANGED <<dir, op, data, ino, got, leaked, last>>
  BY DEF WriteOut
<1>8. clash' = clash \/ clash' = clash \cup {ino[p]}
  BY <1>2
<1>9. \E r \in {"true", "false"} : result' = [result EXCEPT ![p] = r]
  BY <1>2 DEF Outcome, Return
<1>10. \/ /\ op[p] = "writeFile" /\ pc' = [pc EXCEPT ![p] = "unlock"]
          /\ lock' = lock /\ want' = want
       \/ /\ op[p] # "writeFile" /\ pc' = [pc EXCEPT ![p] = "idle"]
          /\ lock' = [lock EXCEPT ![p] = "none"] /\ want' = [want EXCEPT ![p] = 0]
  BY <1>2 DEF Return
<1> HIDE DEF new
<1>11. /\ content' \in Seq(Seq(Blocks)) /\ Len(content') = Len(content)
       /\ DOMAIN content' = DOMAIN content
  BY <1>1, <1>5, <1>6, SeqExcept DEF FilesOK
<1>12. FilesOK'
  BY <1>1, <1>7, <1>8, <1>11 DEF FilesOK
<1>13. LocalsOK'
  <2>1. result' \in [Procs -> {"none", "null", "true", "false", "contents"}]
    BY <1>9 DEF LocalsOK
  <2>2. pc' \in [Procs -> {"idle", "lock", "read", "size", "slurp", "write",
                         "unlock", "dead"}]
    BY <1>10 DEF LocalsOK
  <2>3. lock' \in [Procs -> {"none", "shared", "exclusive"}]
    <3>1. lock \in [Procs -> {"none", "shared", "exclusive"}]
      BY DEF LocalsOK
    <3>2. lock' = lock \/ lock' = [lock EXCEPT ![p] = "none"]
      BY <1>10
    <3> QED BY <3>1, <3>2
  <2>4. want' \in [Procs -> Nat]
    <3>1. want \in [Procs -> Nat]
      BY DEF LocalsOK
    <3>2. want' = want \/ want' = [want EXCEPT ![p] = 0]
      BY <1>10
    <3> QED BY <3>1, <3>2
  <2> QED BY <1>7, <1>11, <2>1, <2>2, <2>3, <2>4 DEF LocalsOK
<1>14. CallOK(p)'
  <2>1. CallOK(p) /\ pc[p] = "write"
    BY DEF WriteOut
  <2> QED BY <1>1, <1>7, <1>10, <2>1 DEF CallOK, LocalsOK, Reading, Writing, Readers, Writers
<1> QED BY <1>12, <1>13, <1>14

\* open() of a writer.
LEMMA OpenTyped ==
  ASSUME FilesOK, LocalsOK, \A q \in Procs : CallOK(q), NEW p \in Procs,
         NEW f \in Writers, NEW name \in Names, NEW d \in Data, OpenWrite(p, f, name, d)
  PROVE  FilesOK' /\ LocalsOK' /\ CallOK(p)'
<1> DEFINE i == IF dir[name] = None THEN Len(content) + 1 ELSE dir[name]
<1>1. /\ content \in Seq(Seq(Blocks)) /\ Len(content) \in Nat
      /\ DOMAIN content = 1..Len(content) /\ <<>> \in Seq(Blocks)
      /\ last \in Seq(Procs) /\ Len(last) = Len(content)
  BY DEF FilesOK
<1>2. /\ content' \in Seq(Seq(Blocks)) /\ last' \in Seq(Procs)
      /\ Len(last') = Len(content') /\ DOMAIN content' = DOMAIN content \cup {i}
  <2>1. CASE dir[name] = None
    <3>1. content' = Append(content, <<>>) /\ last' = Append(last, p) /\ i = Len(content) + 1
      BY <2>1 DEF OpenWrite
    <3> HIDE DEF i
    <3> QED BY <1>1, <3>1, SeqAppend
  <2>2. CASE dir[name] # None
    <3>1. i \in DOMAIN content /\ DOMAIN last = DOMAIN content
      BY <1>1, <2>2 DEF FilesOK
    <3>2. content' = [content EXCEPT ![i] = <<>>] /\ last' = [last EXCEPT ![i] = p]
      BY <2>2 DEF OpenWrite, Truncated
    <3> HIDE DEF i
    <3> QED BY <1>1, <3>1, <3>2, SeqExcept
  <2> QED BY <2>1, <2>2
<1>3. i \in DOMAIN content' /\ i # 0
  BY <1>1, <1>2 DEF FilesOK
<1>4. /\ dir' = [dir EXCEPT ![name] = i] /\ ino' = [ino EXCEPT ![p] = i]
      /\ clash' = clash \/ clash' = clash \cup {i}
      /\ pc' = [pc EXCEPT ![p] = IF f = "writeFile" THEN "lock" ELSE "write"]
      /\ result' = [result EXCEPT ![p] = "none"] /\ op' = [op EXCEPT ![p] = f]
      /\ data' = [data EXCEPT ![p] = d] /\ got' = [got EXCEPT ![p] = <<>>]
      /\ UNCHANGED <<lock, want, leaked>> /\ pc[p] = "idle"
  BY DEF OpenWrite, Begin
<1> HIDE DEF i
<1>5. FilesOK'
  BY <1>1, <1>2, <1>3, <1>4 DEF FilesOK
<1>6. LocalsOK'
  BY <1>1, <1>2, <1>3, <1>4 DEF LocalsOK
<1>7. CallOK(p)'
  <2>1. CallOK(p)
    OBVIOUS
  <2> QED BY <1>3, <1>4, <2>1 DEF CallOK, LocalsOK, Reading, Writing, Readers, Writers
<1> QED BY <1>5, <1>6, <1>7

\* Every step of a process on files keeps the types.
LEMMA ActionTyped ==
  ASSUME TypeOK, NEW p \in Procs, FileAction(p), calls' \in 0..MaxCalls
  PROVE  TypeOK'
<1>1. FilesOK /\ LocalsOK /\ (\A q \in Procs : CallOK(q)) /\ CallOK(p)
  BY TypeParts
<1>2. FilesOK' /\ LocalsOK' /\ CallOK(p)'
  <2>1. CASE \E f \in Readers \cup Writers : OpenFails(p, f)
    <3>1. FilesOK'
      BY <1>1, <2>1 DEF OpenFails, files, FilesOK
    <3>2. LocalsOK'
      BY <1>1, <2>1 DEF OpenFails, files, LocalsOK
    <3>3. CallOK(p)'
      BY <1>1, <2>1 DEF OpenFails, LocalsOK, CallOK, Reading, Writing
    <3> QED BY <3>1, <3>2, <3>3
  <2>2. CASE \E f \in Readers, name \in Names : OpenRead(p, f, name)
    <3>1. PICK f \in Readers, name \in Names : OpenRead(p, f, name)
      BY <2>2
    <3>2. dir[name] \in DOMAIN content /\ dir[name] # 0
      BY <1>1, <3>1 DEF OpenRead, FilesOK
    <3>3. FilesOK'
      BY <1>1, <3>1 DEF OpenRead, files, FilesOK
    <3>4. f \in {"readFile", "readFile64"}
      BY DEF Readers
    <3>5. LocalsOK'
      BY <1>1, <3>1, <3>2, <3>4 DEF OpenRead, Begin, files, LocalsOK, Readers
    <3>6. CallOK(p)'
      BY <1>1, <3>1, <3>2, <3>4 DEF OpenRead, Begin, LocalsOK, CallOK, Reading, Writing,
                                   Readers, Writers
    <3> QED BY <3>3, <3>5, <3>6
  <2>3. CASE \E f \in Writers, name \in Names, d \in Data : OpenWrite(p, f, name, d)
    BY <1>1, <2>3, OpenTyped
  <2>4. CASE \E name \in Names : Unlink(p, name)
    <3>1. FilesOK'
      BY <1>1, <2>4 DEF Unlink, FilesOK
    <3>2. LocalsOK'
      BY <1>1, <2>4 DEF Unlink, LocalsOK
    <3>3. CallOK(p)'
      BY <1>1, <2>4 DEF Unlink, LocalsOK, CallOK, Reading, Writing, Writers, Readers
    <3> QED BY <3>1, <3>2, <3>3
  <2>5. CASE Step(p)
    BY <1>1, <2>5, ReadTyped, WriteTyped DEF Step
  <2>6. CASE Die(p)
    <3>1. FilesOK'
      BY <1>1, <2>6 DEF Die, files, history, FilesOK
    <3>2. LocalsOK'
      <4>1. got' = [got EXCEPT ![p] = <<>>] /\ <<>> \in Seq(Blocks)
        BY <2>6 DEF Die
      <4>2. got' \in [Procs -> Seq(Blocks)]
        BY <1>1, <4>1 DEF LocalsOK
      <4> QED BY <1>1, <2>6, <4>2 DEF Die, files, LocalsOK
    <3>3. CallOK(p)'
      BY <1>1, <2>6 DEF Die, LocalsOK, CallOK, Reading, Writing, Readers, Writers
    <3> QED BY <3>1, <3>2, <3>3
  <2> QED BY <2>1, <2>2, <2>3, <2>4, <2>5, <2>6 DEF FileAction
<1>3. \A q \in Procs : CallOK(q)'
  BY <1>1, <1>2, OnlyOwn, OthersKeep
<1>4. FilesOK' /\ LocalsOK' /\ (\A q \in Procs : CallOK(q)')
        /\ calls' \in 0..MaxCalls => TypeOK'
  BY DEF TypeOK, FilesOK, LocalsOK, CallOK
<1> QED BY <1>2, <1>3, <1>4

-----------------------------------------------------------------------------
\* Who locks a file finds nobody in its way.
LEMMA LockAlone ==
  ASSUME TypeOK, NEW p \in Procs
  PROVE  /\ LockShared(p) => \A q \in Procs : ino[q] = ino[p] => ~Writing(q)
         /\ LockExclusive(p) => /\ \A q \in Procs : ino[q] = ino[p] =>
                                     ~Writing(q) /\ ~Reading(q)
                                /\ \A l \in leaked : l.ino # ino[p]
<1>1. \A q \in Procs : CallOK(q)
  BY TypeParts
<1>2. \A q \in Procs : Reading(q) => lock[q] = "shared"
  BY <1>1 DEF CallOK
<1>3. \A q \in Procs : Writing(q) => lock[q] = "exclusive"
  BY <1>1 DEF CallOK, Reading, Writing
<1> QED BY <1>2, <1>3 DEF LockShared, LockExclusive, Held

\* Every step of a process on files leaves writeFile() alone with its file.
LEMMA ActionAlone ==
  ASSUME TypeOK, WritesAlone, NEW p \in Procs, FileAction(p)
  PROVE  WritesAlone'
<1>1. LocalsOK /\ \A q \in Procs : CallOK(q)
  BY TypeParts
<1>2. \A q \in Procs \ {p} : /\ ino'[q] = ino[q]
                             /\ Reading(q)' <=> Reading(q)
                             /\ Writing(q)' <=> Writing(q)
  BY <1>1, OnlyOwn DEF Reading, Writing
<1>3. CASE /\ Reading(p)' => Reading(p) /\ ino'[p] = ino[p]
           /\ Writing(p)' => Writing(p) /\ ino'[p] = ino[p]
           /\ leaked' \subseteq leaked
  BY <1>2, <1>3 DEF WritesAlone
<1>4. CASE LockShared(p)
  <2>1. ino' = ino /\ leaked' = leaked /\ op' = op /\ op[p] \in Readers
    BY <1>4 DEF LockShared
  <2>2. ~Writing(p)' /\ \A q \in Procs : ino[q] = ino[p] => ~Writing(q)
    BY <1>4, <2>1, LockAlone DEF Writing, Readers
  <2> QED BY <1>2, <2>1, <2>2 DEF WritesAlone
<1>5. CASE LockExclusive(p)
  <2>1. ino' = ino /\ leaked' = leaked /\ pc'[p] = "write"
    BY <1>1, <1>5 DEF LockExclusive, LocalsOK
  <2>2. ~Reading(p)'
    BY <2>1 DEF Reading
  <2>3. /\ \A q \in Procs : ino[q] = ino[p] => ~Writing(q) /\ ~Reading(q)
        /\ \A l \in leaked : l.ino # ino[p]
    BY <1>5, LockAlone
  <2> QED BY <1>2, <2>1, <2>2, <2>3 DEF WritesAlone
<1>6. CASE SlurpFails(p)
  <2>1. /\ ino' = ino /\ leaked' = leaked \cup {[by |-> p, ino |-> ino[p]]}
        /\ pc'[p] = "idle" /\ Reading(p)
    BY <1>1, <1>6 DEF SlurpFails, Return, LocalsOK, Reading
  <2>2. ~Reading(p)' /\ ~Writing(p)'
    BY <2>1 DEF Reading, Writing
  <2>3. \A q \in Procs \ {p} : Writing(q) => ino[q] # ino[p]
    BY <2>1 DEF WritesAlone
  <2> QED BY <1>2, <2>1, <2>2, <2>3 DEF WritesAlone
<1>7. CASE \/ \E f \in Readers \cup Writers : OpenFails(p, f)
           \/ \E name \in Names : Unlink(p, name)
           \/ Die(p)
  <2>1. pc'[p] \in {"idle", "dead"} /\ leaked' \subseteq leaked
    BY <1>1, <1>7 DEF OpenFails, Unlink, Die, LocalsOK
  <2>2. ~Reading(p)' /\ ~Writing(p)'
    BY <2>1 DEF Reading, Writing
  <2> QED BY <1>3, <2>1, <2>2
<1>8. CASE \/ \E f \in Readers, name \in Names : OpenRead(p, f, name)
           \/ \E f \in Writers, name \in Names, d \in Data : OpenWrite(p, f, name, d)
  <2>1. /\ pc'[p] = "lock" \/ (pc'[p] = "write" /\ op'[p] # "writeFile")
        /\ leaked' = leaked
    BY <1>1, <1>8 DEF OpenRead, OpenWrite, Begin, LocalsOK
  <2>2. ~Reading(p)' /\ ~Writing(p)'
    BY <2>1 DEF Reading, Writing
  <2> QED BY <1>3, <2>1, <2>2
<1>9. CASE ReadBlock(p) \/ AskSize(p)
  <2>1. /\ pc'[p] \in {"read", "slurp"} /\ Reading(p) /\ ino' = ino /\ leaked' = leaked
    BY <1>1, <1>9 DEF ReadBlock, AskSize, LocalsOK, Reading
  <2>2. ~Writing(p)'
    BY <2>1 DEF Writing
  <2> QED BY <1>3, <2>1, <2>2
<1>10. CASE ReadEnds(p) \/ Slurp(p) \/ SlurpPart(p) \/ Unlock(p)
  <2>1. pc'[p] = "idle" /\ leaked' = leaked
    BY <1>1, <1>10 DEF ReadEnds, Slurp, SlurpPart, Unlock, Return, LocalsOK
  <2>2. ~Reading(p)' /\ ~Writing(p)'
    BY <2>1 DEF Reading, Writing
  <2> QED BY <1>3, <2>1, <2>2
<1>11. CASE WriteOut(p)
  <2>1. /\ pc[p] = "write" /\ op' = op /\ ino' = ino /\ leaked' = leaked
        /\ pc'[p] \in {"unlock", "idle"}
    BY <1>1, <1>11 DEF WriteOut, Return, LocalsOK
  <2>2. ~Reading(p)'
    BY <2>1 DEF Reading
  <2>3. Writing(p)' => Writing(p)
    BY <2>1 DEF Writing
  <2> QED BY <1>3, <2>1, <2>2, <2>3
<1> QED BY <1>4, <1>5, <1>6, <1>7, <1>8, <1>9, <1>10, <1>11 DEF FileAction, Step

-----------------------------------------------------------------------------
\* p has emptied the file that it has open and has yet to write it.
Filling(p) == op[p] \in Writers /\ pc[p] \in {"lock", "write"}

Begins(s, t) == Len(s) <= Len(t) /\ \A j \in DOMAIN s : s[j] = t[j]

\* Why the results of a call are what one writer wrote: who is to write a file was
\* the last to open it and finds it empty, and a reader has the beginning of what
\* is there, if anything is.
CallKeeps(p) ==
  /\ op[p] \in Readers \cup Writers => ino[p] # 0
  /\ op[p] = "writeFile" /\ Filling(p) => result[p] = "none"
  /\ op[p] \in Readers /\ pc[p] = "lock" => got[p] = <<>>
  /\ ino[p] \notin clash =>
       /\ Filling(p) => content[ino[p]] = <<>> /\ last[ino[p]] = p
       /\ op[p] \in Readers /\ pc[p] = "read" =>
            content[ino[p]] = <<>> \/ Begins(got[p], content[ino[p]])
       /\ op[p] \in Readers => IsOneVersion(got[p])
       /\ op[p] = "writeFile" /\ result[p] = "true" /\ last[ino[p]] = p =>
            content[ino[p]] = Bytes(data[p])

VersionInv ==
  /\ \A i \in DOMAIN content \ clash : IsOneVersion(content[i])
  /\ \A p \in Procs : CallKeeps(p)

LEMMA VersionsFollow == VersionInv => OneVersion /\ WriteStays
  BY DEF VersionInv, CallKeeps, OneVersion, WriteStays

\* The beginning of one version is one.
LEMMA BeginningOfVersion ==
  ASSUME NEW s \in Seq(Blocks), NEW t \in Seq(Blocks), Begins(s, t), IsOneVersion(t)
  PROVE  IsOneVersion(s)
<1>1. CASE t = <<>>
  <2>1. s = <<>>
    BY <1>1 DEF Begins
  <2> QED BY <2>1 DEF IsOneVersion
<1>2. CASE t # <<>>
  <2>1. PICK d \in Data : IsPart(t, d)
    BY <1>2 DEF IsOneVersion
  <2>2. DOMAIN s \subseteq DOMAIN t /\ Len(s) \in Nat /\ Len(t) \in Nat
    BY DEF Begins
  <2>3. Size[d] \in Nat
    BY ConstantsOK
  <2>4. IsPart(s, d)
    BY <2>1, <2>2, <2>3 DEF Begins, IsPart
  <2> QED BY <2>4 DEF IsOneVersion
<1> QED BY <1>1, <1>2

\* What a process has in its variables holds while they, its file and the writer
\* of that stay.
LEMMA CallUntouched ==
  ASSUME NEW q \in Procs, CallKeeps(q), clash \subseteq clash',
         pc'[q] = pc[q], op'[q] = op[q], data'[q] = data[q], ino'[q] = ino[q],
         got'[q] = got[q], result'[q] = result[q],
         op[q] \in Readers \cup Writers =>
           content'[ino[q]] = content[ino[q]] /\ last'[ino[q]] = last[ino[q]]
  PROVE  CallKeeps(q)'
<1>1. (Filling(q)' <=> Filling(q)) /\ Bytes(data[q])' = Bytes(data[q])
      /\ IsOneVersion(got[q])' = IsOneVersion(got[q])
  BY DEF Filling, Bytes, IsOneVersion, IsPart
<1>2. Filling(q) => op[q] \in Writers
  BY DEF Filling
<1>3. "writeFile" \in Writers
  BY DEF Writers
<1> QED BY <1>1, <1>2, <1>3 DEF CallKeeps, Begins

LEMMA VersionsStay ==
  ASSUME VersionInv,
         UNCHANGED <<content, pc, op, data, ino, got, result, last, clash>>
  PROVE  VersionInv'
<1>1. \A i \in DOMAIN content' \ clash' : IsOneVersion(content'[i])
  BY DEF VersionInv
<1>2. \A q \in Procs : CallKeeps(q)'
  BY CallUntouched DEF VersionInv
<1>3. VersionInv' <=> /\ \A j \in DOMAIN content' \ clash' : IsOneVersion(content'[j])
                      /\ \A q \in Procs : CallKeeps(q)'
  BY DEF VersionInv, IsOneVersion, IsPart
<1> QED BY <1>1, <1>2, <1>3

\* The steps that leave the contents of the files alone.
LEMMA QuietKeeps ==
  ASSUME TypeOK, TypeOK', VersionInv, NEW p \in Procs, FileAction(p),
         ~WriteOut(p),
         ~\E f \in Writers, name \in Names, d \in Data : OpenWrite(p, f, name, d)
  PROVE  VersionInv'
<1>0. UNCHANGED <<content, last, clash>>
  BY DEF FileAction, OpenFails, OpenRead, Unlink, Step, Die, LockShared, LockExclusive,
         ReadBlock, ReadEnds, AskSize, Slurp, SlurpPart, SlurpFails, Unlock, files, history
<1>1. LocalsOK /\ CallKeeps(p) /\ CallOK(p) /\ content \in Seq(Seq(Blocks))
  BY TypeParts DEF VersionInv, FilesOK
<1>2. \A i \in DOMAIN content' \ clash' : IsOneVersion(content'[i])
  BY <1>0 DEF VersionInv, IsOneVersion, IsPart
<1>3. ASSUME NEW q \in Procs \ {p} PROVE CallKeeps(q)'
  <2>1. CallKeeps(q)
    BY DEF VersionInv
  <2> QED BY <1>0, <1>1, <2>1, OnlyOwn, CallUntouched
<1>4. CallKeeps(p)'
  <2>1. CASE \E f \in Readers \cup Writers : OpenFails(p, f)
    <3>1. /\ pc[p] = "idle" /\ UNCHANGED <<pc, op, data, ino, got>>
          /\ result'[p] \in {"null", "false"}
      BY <1>0, <1>1, <2>1 DEF OpenFails, LocalsOK
    <3>2. ~Filling(p)'
      BY <3>1 DEF Filling
    <3> QED BY <1>0, <1>1, <3>1, <3>2 DEF CallKeeps, IsOneVersion, IsPart
  <2>2. CASE \E f \in Readers, name \in Names : OpenRead(p, f, name)
    <3>1. PICK f \in Readers, name \in Names : OpenRead(p, f, name)
      BY <2>2
    <3>2. op'[p] = f /\ pc'[p] = "lock" /\ ino'[p] = dir[name] /\ got'[p] = <<>>
      BY <1>0, <1>1, <3>1 DEF OpenRead, Begin, LocalsOK
    <3>3. dir[name] # 0
      BY <3>1 DEF OpenRead, TypeOK
    <3>4. ~Filling(p)' /\ op'[p] # "writeFile" /\ IsOneVersion(got[p])'
      BY <3>2 DEF Filling, Readers, Writers, IsOneVersion
    <3> QED BY <3>2, <3>3, <3>4 DEF CallKeeps
  <2>3. CASE (\E name \in Names : Unlink(p, name)) \/ Die(p)
    <3>1. op'[p] \in {"unlink", "none"}
      BY <1>0, <1>1, <2>3 DEF Unlink, Die, LocalsOK
    <3> QED BY <3>1 DEF CallKeeps, Filling, Readers, Writers
  <2>4. CASE LockShared(p) \/ LockExclusive(p)
    <3>1. /\ pc[p] = "lock" /\ UNCHANGED <<op, data, ino, got, result>>
          /\ op[p] \in Readers => pc'[p] \in {"read", "size"}
          /\ op[p] \in Writers => pc'[p] = "write"
      BY <1>0, <1>1, <2>4 DEF LockShared, LockExclusive, LocalsOK, Readers, Writers
    <3>2. Filling(p)' <=> Filling(p)
      BY <3>1 DEF Filling
    <3>3. op[p] \in Readers => Begins(got[p], content[ino[p]])
      <4>1. op[p] \in Readers => ino[p] \in DOMAIN content
        BY <1>1 DEF CallKeeps, LocalsOK
      <4>2. op[p] \in Readers => got[p] = <<>> /\ Len(content[ino[p]]) \in Nat
        BY <1>0, <1>1, <3>1, <4>1 DEF CallKeeps
      <4> QED BY <4>2 DEF Begins
    <3>4. op[p] \in Readers => op[p] \notin Writers /\ op[p] # "writeFile"
      BY DEF Readers, Writers
    <3> QED BY <1>0, <1>1, <3>1, <3>2, <3>3, <3>4 DEF CallKeeps, Begins, IsOneVersion, IsPart, Bytes
  <2>5. CASE ReadBlock(p)
    <3>1. /\ pc[p] = "read" /\ Len(got[p]) < Len(content[ino[p]])
          /\ got'[p] = Append(got[p], content[ino[p]][Len(got[p]) + 1])
          /\ UNCHANGED <<pc, op, data, ino, result>>
      BY <1>0, <1>1, <2>5 DEF ReadBlock, LocalsOK
    <3>2. op[p] \in Readers /\ ino[p] \in DOMAIN content
      BY <1>0, <1>1, <3>1 DEF CallOK, Reading, LocalsOK
    <3>3. content[ino[p]] \in Seq(Blocks) /\ got[p] \in Seq(Blocks) /\ got'[p] \in Seq(Blocks)
      <4>1. content[ino[p]] \in Seq(Blocks) /\ got[p] \in Seq(Blocks)
        BY <1>1, <3>2 DEF LocalsOK
      <4>2. content[ino[p]][Len(got[p]) + 1] \in Blocks
        BY <3>1, <4>1
      <4> QED BY <3>1, <4>1, <4>2
    <3>4. ASSUME ino[p] \notin clash
          PROVE  Begins(got'[p], content[ino[p]]) /\ IsOneVersion(got'[p])
      <4>1. Begins(got[p], content[ino[p]])
        <5>1. content[ino[p]] # <<>>
          BY <3>1, <3>3
        <5> QED BY <1>0, <1>1, <3>1, <3>2, <3>4, <5>1 DEF CallKeeps
      <4>2. Begins(got'[p], content[ino[p]])
        BY <3>1, <3>3, <4>1 DEF Begins
      <4>3. IsOneVersion(content[ino[p]])
        BY <3>2, <3>4 DEF VersionInv
      <4> QED BY <3>3, <4>2, <4>3, BeginningOfVersion
    <3>5. op[p] # "writeFile" /\ ~Filling(p)'
      BY <3>1, <3>2 DEF Readers, Writers, Filling
    <3> QED BY <1>0, <1>1, <3>1, <3>2, <3>4, <3>5 DEF CallKeeps, IsOneVersion, IsPart, Begins
  <2>6. CASE AskSize(p)
    <3>1. op[p] \in Readers /\ pc'[p] = "slurp" /\ UNCHANGED <<op, data, ino, got, result>>
      BY <1>0, <1>1, <2>6 DEF AskSize, CallOK, Reading, LocalsOK
    <3>2. ~Filling(p)' /\ op[p] # "writeFile"
      BY <3>1 DEF Filling, Readers, Writers
    <3> QED BY <1>0, <1>1, <3>1, <3>2 DEF CallKeeps, IsOneVersion, IsPart
  <2>7. CASE ReadEnds(p) \/ Slurp(p) \/ SlurpPart(p) \/ SlurpFails(p)
    <3>1. /\ op[p] \in Readers /\ pc[p] \in {"read", "slurp"} /\ pc'[p] = "idle"
          /\ UNCHANGED <<op, data, ino>>
      BY <1>0, <1>1, <2>7 DEF ReadEnds, Slurp, SlurpPart, SlurpFails, Return, CallOK, Reading,
                        LocalsOK
    <3>2. ino[p] \in DOMAIN content /\ content[ino[p]] \in Seq(Blocks)
          /\ Len(content[ino[p]]) \in Nat /\ want[p] \in Nat
      BY <1>0, <1>1, <3>1 DEF CallOK, LocalsOK
    <3>3. \/ got' = got
          \/ got'[p] = content[ino[p]]
          \/ /\ got'[p] = SubSeq(content[ino[p]], 1, want[p])
             /\ want[p] < Len(content[ino[p]])
      BY <1>0, <1>1, <2>7 DEF ReadEnds, Slurp, SlurpPart, SlurpFails, LocalsOK
    <3>4. ASSUME ino[p] \notin clash PROVE IsOneVersion(got'[p])
      <4>1. IsOneVersion(content[ino[p]]) /\ IsOneVersion(got[p])
        BY <1>0, <1>1, <3>1, <3>2, <3>4 DEF VersionInv, CallKeeps
      <4>2. ASSUME want[p] < Len(content[ino[p]])
            PROVE  IsOneVersion(SubSeq(content[ino[p]], 1, want[p]))
        <5> DEFINE s == SubSeq(content[ino[p]], 1, want[p])
        <5>1. s \in Seq(Blocks) /\ Len(s) = want[p] /\ DOMAIN s = 1..want[p]
              /\ \A j \in 1..want[p] : s[j] = content[ino[p]][j]
          BY <3>2, <4>2
        <5>2. Begins(s, content[ino[p]])
          BY <3>2, <4>2, <5>1 DEF Begins
        <5> HIDE DEF s
        <5>3. IsOneVersion(s)
          BY <3>2, <4>1, <5>1, <5>2, BeginningOfVersion
        <5> QED BY <5>3 DEF s
      <4> QED BY <3>3, <4>1, <4>2
    <3>5. ~Filling(p)' /\ op'[p] # "writeFile" /\ op'[p] \in Readers
      BY <3>1 DEF Filling, Readers, Writers
    <3>6. IsOneVersion(got'[p]) = IsOneVersion(got[p])'
      BY DEF IsOneVersion, IsPart
    <3> QED BY <1>0, <1>1, <3>1, <3>4, <3>5, <3>6 DEF CallKeeps
  <2>8. CASE Unlock(p)
    <3>1. /\ pc'[p] = "idle" /\ result'[p] = result[p]
          /\ UNCHANGED <<op, data, ino, got>>
      BY <1>0, <1>1, <2>8 DEF Unlock, Return, LocalsOK
    <3>2. ~Filling(p)'
      BY <3>1 DEF Filling
    <3> QED BY <1>0, <1>1, <3>1, <3>2 DEF CallKeeps, IsOneVersion, IsPart, Bytes
  <2> QED BY <2>1, <2>2, <2>3, <2>4, <2>5, <2>6, <2>7, <2>8 DEF FileAction, Step
<1> QED BY <1>2, <1>3, <1>4 DEF VersionInv

\* open() by a writer empties the file, under the hands of whoever reads it.
LEMMA OpenKeeps ==
  ASSUME TypeOK, TypeOK', VersionInv, NEW p \in Procs,
         NEW f \in Writers, NEW name \in Names, NEW d \in Data, OpenWrite(p, f, name, d)
  PROVE  VersionInv'
<1> DEFINE i == IF dir[name] = None THEN Len(content) + 1 ELSE dir[name]
<1>1. /\ LocalsOK /\ FileAction(p) /\ content \in Seq(Seq(Blocks))
      /\ last \in Seq(Procs) /\ Len(last) = Len(content) /\ Len(content) \in Nat
  BY TypeParts DEF FileAction, FilesOK
<1>2. /\ DOMAIN content' = DOMAIN content \cup {i} /\ content'[i] = <<>> /\ last'[i] = p
      /\ \A j \in DOMAIN content \ {i} : content'[j] = content[j] /\ last'[j] = last[j]
      /\ i # 0
  <2>1. CASE dir[name] = None
    <3>1. content' = Append(content, <<>>) /\ last' = Append(last, p) /\ i = Len(content) + 1
      BY <2>1 DEF OpenWrite
    <3>2. DOMAIN last = DOMAIN content /\ <<>> \in Seq(Blocks)
      BY <1>1
    <3> HIDE DEF i
    <3>3. /\ DOMAIN content' = DOMAIN content \cup {i} /\ content'[i] = <<>>
          /\ \A j \in DOMAIN content : content'[j] = content[j]
      BY <1>1, <3>1, <3>2, SeqAppend
    <3>4. /\ last'[i] = p
          /\ \A j \in DOMAIN last : last'[j] = last[j]
      BY <1>1, <3>1, SeqAppend
    <3>5. i # 0
      BY <1>1, <3>1
    <3> QED BY <3>2, <3>3, <3>4, <3>5
  <2>2. CASE dir[name] # None
    <3>1. i \in DOMAIN content /\ DOMAIN last = DOMAIN content /\ i # 0
      BY <1>1, <2>2 DEF TypeOK
    <3>2. content' = [content EXCEPT ![i] = <<>>] /\ last' = [last EXCEPT ![i] = p]
      BY <2>2 DEF OpenWrite, Truncated
    <3> HIDE DEF i
    <3> QED BY <3>1, <3>2
  <2> QED BY <2>1, <2>2
<1>3. /\ clash' = IF \E q \in Procs : ToWrite(q, i) THEN clash \cup {i} ELSE clash
      /\ op'[p] = f /\ ino'[p] = i /\ result'[p] = "none" /\ pc'[p] \in {"lock", "write"}
  BY <1>1 DEF OpenWrite, Begin, LocalsOK
<1> HIDE DEF i
<1>4. IsOneVersion(<<>>)
  BY DEF IsOneVersion
<1>5. \A j \in DOMAIN content' \ clash' : IsOneVersion(content'[j])
  BY <1>2, <1>3, <1>4 DEF VersionInv
<1>6. CallKeeps(p)'
  <2>1. f \notin Readers /\ op'[p] \in Writers
    BY <1>3 DEF Readers, Writers
  <2> QED BY <1>2, <1>3, <2>1 DEF CallKeeps
<1>7. ASSUME NEW q \in Procs \ {p} PROVE CallKeeps(q)'
  <2>1. /\ CallKeeps(q) /\ clash \subseteq clash'
        /\ pc'[q] = pc[q] /\ op'[q] = op[q] /\ data'[q] = data[q]
        /\ ino'[q] = ino[q] /\ got'[q] = got[q] /\ result'[q] = result[q]
    BY <1>1, <1>3, OnlyOwn DEF VersionInv
  <2>2. CASE ino[q] # i
    <3>1. op[q] \in Readers \cup Writers => ino[q] \in DOMAIN content
      BY <1>1, <2>1 DEF CallKeeps, LocalsOK
    <3> QED BY <1>2, <2>1, <2>2, <3>1, CallUntouched
  <2>3. CASE ino[q] = i
    <3>1. content'[ino[q]] = <<>> /\ last'[ino[q]] = p
      BY <1>2, <2>3
    <3>2. Filling(q) => i \in clash'
      BY <1>3, <2>3 DEF Filling, ToWrite, Using
    <3>3. (Filling(q)' <=> Filling(q)) /\ IsOneVersion(got[q])' = IsOneVersion(got[q])
      BY <2>1 DEF Filling, IsOneVersion, IsPart
    <3> QED BY <2>1, <2>3, <3>1, <3>2, <3>3 DEF CallKeeps
  <2> QED BY <2>2, <2>3
<1>8. VersionInv' <=> /\ \A j \in DOMAIN content' \ clash' : IsOneVersion(content'[j])
                      /\ \A q \in Procs : CallKeeps(q)'
  BY DEF VersionInv, IsOneVersion, IsPart
<1> QED BY <1>5, <1>6, <1>7, <1>8

\* write(2) fills an empty file, or one that two calls had open for writing.
LEMMA WriteKeeps ==
  ASSUME TypeOK, TypeOK', WritesAlone, VersionInv, NEW p \in Procs, WriteOut(p)
  PROVE  VersionInv'
<1>1. /\ LocalsOK /\ FileAction(p) /\ CallOK(p) /\ CallKeeps(p)
      /\ content \in Seq(Seq(Blocks)) /\ pc[p] = "write"
      /\ UNCHANGED <<op, data, ino, got, last>>
  BY TypeParts DEF FileAction, Step, FilesOK, WriteOut, VersionInv
<1>2. /\ ino[p] \in DOMAIN content /\ op[p] \in Writers /\ Filling(p)
      /\ data[p] \in Data /\ Size[data[p]] \in Nat
  BY <1>1, ConstantsOK DEF CallOK, LocalsOK, Filling
<1>3. PICK n \in (IF "full" \in Allow THEN 0..Size[data[p]] ELSE {Size[data[p]]}) :
        LET i == ino[p]
            old == content[i]
            new == [j \in 1..(IF n > Len(old) THEN n ELSE Len(old)) |->
                      IF j <= n THEN <<data[p], j>> ELSE old[j]]
        IN /\ content' = [content EXCEPT ![i] = new]
           /\ IF op[p] = "writeFile"
                THEN /\ pc' = [pc EXCEPT ![p] = "unlock"]
                     /\ result' = [result EXCEPT ![p] = Outcome(p, n)]
                     /\ UNCHANGED <<lock, want, clash>>
                ELSE /\ Return(p, Outcome(p, n))
                     /\ clash' = IF \E q \in Procs \ {p} : Using(q, i)
                                   THEN clash \cup {i} ELSE clash
  BY DEF WriteOut
<1>4. n \in 0..Size[data[p]]
  BY <1>2
<1>5. clash \subseteq clash'
  BY <1>3
<1>6. /\ DOMAIN content' = DOMAIN content
      /\ \A j \in DOMAIN content \ {ino[p]} : content'[j] = content[j]
  BY <1>1, <1>3
<1>7. /\ pc'[p] \in {"unlock", "idle"}
      /\ result'[p] = IF n = Size[data[p]] THEN "true" ELSE "false"
  BY <1>1, <1>3 DEF Outcome, Return, LocalsOK
<1>8. op[p] # "writeFile" => \A q \in Procs \ {p} : Using(q, ino[p]) => ino[p] \in clash'
  BY <1>3
<1>9. ASSUME ino[p] \notin clash
      PROVE  /\ last[ino[p]] = p
             /\ content'[ino[p]] = [j \in 1..n |-> <<data[p], j>>]
  <2>1. content[ino[p]] = <<>> /\ last[ino[p]] = p /\ Len(<<>>) = 0
    BY <1>1, <1>2, <1>9 DEF CallKeeps
  <2>2. content'[ino[p]] = [j \in 1..(IF n > 0 THEN n ELSE 0) |->
                              IF j <= n THEN <<data[p], j>> ELSE <<>>[j]]
    BY <1>1, <1>2, <1>3, <1>4, <2>1
  <2>3. (IF n > 0 THEN n ELSE 0) = n /\ \A j \in 1..n : j <= n
    BY <1>4
  <2> QED BY <2>1, <2>2, <2>3
<1>10. ino[p] \notin clash =>
        /\ IsOneVersion(content'[ino[p]])
        /\ result'[p] = "true" => content'[ino[p]] = Bytes(data[p])
  <2> SUFFICES ASSUME ino[p] \notin clash
               PROVE  /\ IsOneVersion(content'[ino[p]])
                      /\ result'[p] = "true" => content'[ino[p]] = Bytes(data[p])
    OBVIOUS
  <2> DEFINE new == [j \in 1..n |-> <<data[p], j>>]
  <2>1. new \in Seq(Data \X Nat) /\ Len(new) = n /\ \A j \in DOMAIN new : new[j] = <<data[p], j>>
    BY <1>2, <1>4
  <2>2. IsPart(new, data[p])
    BY <1>2, <1>4, <2>1 DEF IsPart
  <2>3. IsOneVersion(new)
    BY <1>2, <2>2 DEF IsOneVersion
  <2>4. result'[p] = "true" => n = Size[data[p]]
    BY <1>7
  <2> QED BY <1>9, <2>3, <2>4 DEF Bytes
<1>11. \A j \in DOMAIN content' \ clash' : IsOneVersion(content'[j])
  BY <1>1, <1>6, <1>10, <1>5 DEF VersionInv
<1>12. CallKeeps(p)'
  <2>1. ~Filling(p)' /\ op'[p] \in Writers /\ op'[p] \notin Readers
    BY <1>1, <1>2, <1>7 DEF Filling, Readers, Writers
  <2>2. ino'[p] # 0 /\ Bytes(data[p])' = Bytes(data[p])
    BY <1>1, <1>2 DEF CallKeeps, Bytes
  <2> QED BY <1>1, <1>10, <1>5, <2>1, <2>2 DEF CallKeeps
<1>13. ASSUME NEW q \in Procs \ {p} PROVE CallKeeps(q)'
  <2>1. /\ CallKeeps(q) /\ clash \subseteq clash'
        /\ pc'[q] = pc[q] /\ op'[q] = op[q] /\ data'[q] = data[q]
        /\ ino'[q] = ino[q] /\ got'[q] = got[q] /\ result'[q] = result[q] /\ last' = last
    BY <1>1, <1>5, OnlyOwn DEF VersionInv
  <2>2. CASE ino[q] # ino[p]
    <3>1. op[q] \in Readers \cup Writers => ino[q] \in DOMAIN content
      BY <1>1, <2>1 DEF CallKeeps, LocalsOK
    <3> QED BY <1>6, <2>1, <2>2, <3>1, CallUntouched
  <2>3. CASE ino[q] = ino[p]
    <3>1. (Filling(q)' <=> Filling(q)) /\ IsOneVersion(got[q])' = IsOneVersion(got[q])
      BY <2>1 DEF Filling, IsOneVersion, IsPart
    <3>2. ino[q] \notin clash' => ~Filling(q) /\ last[ino[q]] # q
      BY <1>9, <2>1, <2>3 DEF CallKeeps
    <3>3. ino[q] \notin clash' => ~(op[q] \in Readers /\ pc[q] = "read")
      <4>1. CASE op[p] = "writeFile"
        BY <1>1, <2>3, <4>1 DEF WritesAlone, Writing, Reading
      <4>2. CASE op[p] # "writeFile"
        BY <1>8, <2>3, <4>2 DEF Using
      <4> QED BY <4>1, <4>2
    <3> QED BY <2>1, <3>1, <3>2, <3>3 DEF CallKeeps
  <2> QED BY <2>2, <2>3
<1>14. VersionInv' <=> /\ \A j \in DOMAIN content' \ clash' : IsOneVersion(content'[j])
                       /\ \A q \in Procs : CallKeeps(q)'
  BY DEF VersionInv, IsOneVersion, IsPart
<1> QED BY <1>11, <1>12, <1>13, <1>14

\* Every step of a process on files keeps what the results rest on.
LEMMA ActionVersions ==
  ASSUME TypeOK, TypeOK', WritesAlone, VersionInv, NEW p \in Procs, FileAction(p)
  PROVE  VersionInv'
<1>1. CASE WriteOut(p)
  BY <1>1, WriteKeeps
<1>2. CASE \E f \in Writers, name \in Names, d \in Data : OpenWrite(p, f, name, d)
  BY <1>2, OpenKeeps
<1> QED BY <1>1, <1>2, QuietKeeps

-----------------------------------------------------------------------------
LEMMA InitFiles == Init => TypeOK /\ WritesAlone /\ VersionInv
<1> SUFFICES ASSUME Init PROVE TypeOK /\ WritesAlone /\ VersionInv
  OBVIOUS
<1>1. content \in Seq(Seq(Blocks)) /\ last \in Seq(Procs) /\ Len(last) = Len(content)
  BY DEF Init
<1>2. FilesOK
  BY <1>1 DEF Init, FilesOK
<1>3. LocalsOK
  <2>1. got \in [Procs -> Seq(Blocks)]
    BY DEF Init
  <2> QED BY <2>1 DEF Init, LocalsOK
<1>4. calls \in 0..MaxCalls
  BY ConstantsOK DEF Init
<1>5. \A p \in Procs : pc[p] = "idle" /\ lock[p] = "none" /\ op[p] = "none"
  BY DEF Init
<1>6. \A p \in Procs : CallOK(p)
  BY <1>5 DEF CallOK, Reading, Writing, Writers
<1>7. VersionInv
  <2>1. DOMAIN content = {} /\ "none" \notin Readers \cup Writers
    BY DEF Init, Readers, Writers
  <2> QED BY <1>5, <2>1 DEF VersionInv, CallKeeps, Filling, Readers, Writers
<1> QED BY <1>2, <1>3, <1>4, <1>5, <1>6, <1>7, TypeParts DEF WritesAlone, Writing

LEMMA CallIsAction ==
  ASSUME TypeOK, NEW p \in Procs, NEW names \in SUBSET Names, NEW ds \in SUBSET Data,
         Call(p, names, ds)
  PROVE  FileAction(p) /\ calls' \in 0..MaxCalls
<1>1. calls' \in 0..MaxCalls
  BY ConstantsOK DEF Call, TypeOK
<1> QED BY <1>1 DEF Call, FileAction

LEMMA StepCalls ==
  ASSUME NEW p, Step(p) \/ Die(p)
  PROVE  calls' = calls
  BY DEF Step, Die, LockShared, LockExclusive, ReadBlock, ReadEnds, AskSize, Slurp,
         SlurpPart, SlurpFails, WriteOut, Unlock, history

FilesInv == TypeOK /\ WritesAlone /\ VersionInv

LEMMA FilesInductive == Spec => []FilesInv
<1>1. FilesInv /\ [Next]_vars => FilesInv'
  <2> SUFFICES ASSUME TypeOK, WritesAlone, VersionInv, [Next]_vars
               PROVE  TypeOK' /\ WritesAlone' /\ VersionInv'
    BY DEF FilesInv
  <2>1. ASSUME NEW p \in Procs, Call(p, Names, Data)
        PROVE  TypeOK' /\ WritesAlone' /\ VersionInv'
    BY <2>1, CallIsAction, ActionTyped, ActionAlone, ActionVersions
  <2>2. ASSUME NEW p \in Procs, Step(p) \/ Die(p)
        PROVE  TypeOK' /\ WritesAlone' /\ VersionInv'
    <3>1. FileAction(p)
      BY <2>2 DEF FileAction
    <3>2. calls' \in 0..MaxCalls
      BY <2>2, StepCalls DEF TypeOK
    <3> QED BY <3>1, <3>2, ActionTyped, ActionAlone, ActionVersions
  <2>3. CASE UNCHANGED vars
    <3>1. /\ UNCHANGED <<dir, content, pc, op, data, ino, lock, want, got, result>>
          /\ UNCHANGED <<leaked, last, clash, calls>>
      BY <2>3 DEF vars
    <3>2. TypeOK'
      BY <3>1 DEF TypeOK, Reading, Writing
    <3>3. WritesAlone'
      BY <3>1 DEF WritesAlone, Reading, Writing
    <3>4. VersionInv'
      BY <3>1, VersionsStay
    <3> QED BY <3>2, <3>3, <3>4
  <2> QED BY <2>1, <2>2, <2>3 DEF Next
<1>2. Init => FilesInv
  BY InitFiles DEF FilesInv
<1> QED BY <1>1, <1>2, PTL DEF Spec

\* The variables of the whole-file calls keep their types, and a call has the lock
\* that its function takes (fs.cpp:710, 753 and 814).
THEOREM FileTyping == Spec => []TypeOK
<1>1. FilesInv => TypeOK
  BY DEF FilesInv
<1> QED BY <1>1, FilesInductive, PTL

\* Nobody reads a file with a lock, and nobody has left it open and locked, while
\* writeFile() writes it (fs.cpp:814-820).
THEOREM FileExclusion == Spec => []WritesAlone
<1>1. FilesInv => WritesAlone
  BY DEF FilesInv
<1> QED BY <1>1, FilesInductive, PTL

\* A file, and what a reader has of it, is the beginning of one thing that was
\* written, unless two writers had the file open at once or writeFile64() wrote it
\* while it was open (fs.cpp:710-735, 753-790 and 814-840).
THEOREM FileVersions == Spec => []OneVersion
<1>1. FilesInv => OneVersion
  BY VersionsFollow DEF FilesInv
<1> QED BY <1>1, FilesInductive, PTL

\* What writeFile() wrote when it returned true stays in the file until the next
\* call opens it for writing (fs.cpp:814-840).
THEOREM FileWritesStay == Spec => []WriteStays
<1>1. FilesInv => WriteStays
  BY VersionsFollow DEF FilesInv
<1> QED BY <1>1, FilesInductive, PTL

-----------------------------------------------------------------------------
\* A step of FileIO in a run of Mail.
LEMMA FileStepIsAction ==
  ASSUME TypeOK, NEW p \in Procs, FileStep(p)
  PROVE  FileAction(p) /\ calls' \in 0..MaxCalls
<1>1. CASE at[p] = "none" /\ Call(p, Names \ SpoolFiles, Data \ Mails)
  BY <1>1, CallIsAction
<1>2. CASE Step(p) \/ Die(p)
  BY <1>2, StepCalls DEF FileAction, TypeOK
<1> QED BY <1>1, <1>2 DEF FileStep

LEMMA SendIsAction ==
  ASSUME TypeOK, NEW p \in Procs, NEW m \in Mails, Send(p, m)
  PROVE  FileAction(p) /\ calls' \in 0..MaxCalls
<1>1. calls' \in 0..MaxCalls
  BY ConstantsOK DEF Send, TypeOK
<1>2. Spool[m] \in Names /\ m \in Data /\ "writeFile" \in Writers
  BY MailConstantsOK DEF Writers
<1> QED BY <1>1, <1>2 DEF Send, FileAction

LEMMA RemoveIsAction ==
  ASSUME MailTypeOK, NEW p \in Procs, Remove(p)
  PROVE  FileAction(p) /\ calls' \in 0..MaxCalls /\ mail[p] \in Mails
<1>1. mail[p] \in Mails /\ Spool[mail[p]] \in Names
  BY MailConstantsOK DEF Remove, MailTypeOK
<1> QED BY <1>1 DEF Remove, FileAction, MailTypeOK, TypeOK

\* Files are only added.
LEMMA FilesGrow ==
  ASSUME TypeOK, NEW p \in Procs, FileAction(p)
  PROVE  DOMAIN content \subseteq DOMAIN content'
<1>1. CASE \E f \in Writers, name \in Names, d \in Data : OpenWrite(p, f, name, d)
  <2>1. PICK f \in Writers, name \in Names, d \in Data : OpenWrite(p, f, name, d)
    BY <1>1
  <2>2. \/ content' = Append(content, <<>>)
        \/ \E i \in DOMAIN content : content' = [content EXCEPT ![i] = <<>>]
    BY <2>1 DEF OpenWrite, Truncated, TypeOK
  <2>3. content \in Seq(Seq(Blocks)) /\ <<>> \in Seq(Blocks)
    BY DEF TypeOK
  <2> QED BY <2>2, <2>3, SeqAppend
<1>2. CASE WriteOut(p)
  <2>1. \E s : content' = [content EXCEPT ![ino[p]] = s]
    BY <1>2 DEF WriteOut
  <2> QED BY <2>1
<1>3. CASE ~ (\E f \in Writers, name \in Names, d \in Data : OpenWrite(p, f, name, d))
           /\ ~WriteOut(p)
  <2>1. content' = content
    BY <1>3 DEF FileAction, OpenFails, OpenRead, Unlink, Step, Die, LockShared,
                LockExclusive, ReadBlock, ReadEnds, AskSize, Slurp, SlurpPart,
                SlurpFails, Unlock, files
  <2> QED BY <2>1
<1> QED BY <1>1, <1>2, <1>3

\* The variables of Mail keep their types.
LEMMA MailTyped ==
  ASSUME MailTypeOK, [MailNext]_allVars
  PROVE  MailTypeOK'
<1>1. ASSUME NEW p \in Procs, FileStep(p) PROVE MailTypeOK'
  <2>1. TypeOK' /\ DOMAIN content \subseteq DOMAIN content'
    BY <1>1, FileStepIsAction, ActionTyped, FilesGrow DEF MailTypeOK
  <2>2. UNCHANGED <<at, mail, stdin, text, sent, done, short, crossed>>
    BY <1>1 DEF FileStep, mailVars
  <2> QED BY <2>1, <2>2 DEF MailTypeOK
<1>2. ASSUME NEW p \in Procs, NEW m \in Mails, Send(p, m) PROVE MailTypeOK'
  <2>1. TypeOK' /\ DOMAIN content \subseteq DOMAIN content'
    BY <1>2, SendIsAction, ActionTyped, FilesGrow DEF MailTypeOK
  <2>2. /\ at' = [at EXCEPT ![p] = "write"] /\ mail' = [mail EXCEPT ![p] = m]
        /\ UNCHANGED <<stdin, text, sent, done, short>>
    BY <1>2 DEF Send
  <2>3. crossed' \subseteq Mails
    <3>1. \A q \in Procs : at[q] # "none" => mail[q] \in Mails
      BY DEF MailTypeOK
    <3>2. {mail[q] : q \in {r \in Procs : Busy(r, m)}} \subseteq Mails
      BY <3>1 DEF Busy
    <3> QED BY <1>2, <3>2 DEF Send, MailTypeOK
  <2> QED BY <2>1, <2>2, <2>3 DEF MailTypeOK
<1>3. ASSUME NEW p \in Procs, Exec(p) \/ SendmailReads(p) \/ SendmailSends(p)
      PROVE  MailTypeOK'
  <2>1. TypeOK' /\ content' = content
    <3>1. /\ UNCHANGED <<dir, content, pc, op, data, ino, lock, want, got, result>>
          /\ UNCHANGED <<leaked, last, clash, calls>>
      BY <1>3 DEF Exec, SendmailReads, SendmailSends, vars
    <3> QED BY <3>1 DEF MailTypeOK, TypeOK, Reading, Writing
  <2>2. mail[p] \in Mails
    BY <1>3 DEF Exec, SendmailReads, SendmailSends, MailTypeOK
  <2>3. CASE Exec(p)
    <3>1. Spool[mail[p]] \in Names
      BY <2>2, MailConstantsOK
    <3>2. dir[Spool[mail[p]]] # None => dir[Spool[mail[p]]] \in DOMAIN content /\ dir[Spool[mail[p]]] # 0
      BY <3>1 DEF MailTypeOK, TypeOK
    <3>3. text' \in [Procs -> Seq(Blocks)]
      <4>1. text' = [text EXCEPT ![p] = <<>>] /\ <<>> \in Seq(Blocks)
        BY <2>3 DEF Exec
      <4> QED BY <4>1 DEF MailTypeOK
    <3>4. UNCHANGED <<mail, sent, done, crossed>>
      BY <2>3 DEF Exec
    <3>5. short' \subseteq Mails
      BY <2>2, <2>3 DEF Exec, MailTypeOK
    <3>6. \/ /\ dir[Spool[mail[p]]] = None
             /\ stdin' = [stdin EXCEPT ![p] = 0] /\ at' = [at EXCEPT ![p] = "unlink"]
          \/ /\ dir[Spool[mail[p]]] # None
             /\ stdin' = [stdin EXCEPT ![p] = dir[Spool[mail[p]]]]
             /\ at' = [at EXCEPT ![p] = "exec"]
      BY <2>3 DEF Exec
    <3>7. at[p] # "none"
      BY <2>3 DEF Exec
    <3> QED BY <2>1, <2>2, <3>2, <3>3, <3>4, <3>5, <3>6, <3>7 DEF MailTypeOK
  <2>4. CASE SendmailReads(p)
    <3>1. stdin[p] \in DOMAIN content /\ content[stdin[p]] \in Seq(Blocks)
      BY <2>4 DEF SendmailReads, MailTypeOK, TypeOK
    <3>2. text[p] \in Seq(Blocks)
      BY DEF MailTypeOK
    <3>3. content[stdin[p]][Len(text[p]) + 1] \in Blocks
      BY <2>4, <3>1, <3>2 DEF SendmailReads
    <3>4. text' \in [Procs -> Seq(Blocks)]
      BY <2>4, <3>3 DEF SendmailReads, MailTypeOK
    <3> QED BY <2>1, <2>4, <3>4 DEF SendmailReads, MailTypeOK
  <2>5. CASE SendmailSends(p)
    <3>1. text' \in [Procs -> Seq(Blocks)] /\ sent' \in [Mails -> Seq(Blocks)]
      <4>1. text' = [text EXCEPT ![p] = <<>>] /\ <<>> \in Seq(Blocks)
            /\ sent' = [sent EXCEPT ![mail[p]] = text[p]] /\ text[p] \in Seq(Blocks)
        BY <2>5 DEF SendmailSends, MailTypeOK
      <4> QED BY <2>2, <4>1 DEF MailTypeOK
    <3> QED BY <2>1, <2>5, <3>1 DEF SendmailSends, MailTypeOK
  <2> QED BY <1>3, <2>3, <2>4, <2>5
<1>4. ASSUME NEW p \in Procs, Remove(p) PROVE MailTypeOK'
  <2>1. TypeOK' /\ DOMAIN content \subseteq DOMAIN content' /\ mail[p] \in Mails
    BY <1>4, RemoveIsAction, ActionTyped, FilesGrow DEF MailTypeOK
  <2> QED BY <1>4, <2>1 DEF Remove, MailTypeOK
<1>5. CASE UNCHANGED allVars
  <2>1. /\ UNCHANGED <<dir, content, pc, op, data, ino, lock, want, got, result>>
        /\ UNCHANGED <<leaked, last, clash, calls>>
        /\ UNCHANGED <<at, mail, stdin, text, sent, done, short, crossed>>
    BY <1>5 DEF allVars, vars, mailVars
  <2>2. TypeOK'
    BY <2>1 DEF MailTypeOK, TypeOK, Reading, Writing
  <2> QED BY <2>1, <2>2 DEF MailTypeOK
<1> QED BY <1>1, <1>2, <1>3, <1>4, <1>5 DEF MailNext, MailStep

-----------------------------------------------------------------------------
Active(p) == at[p] # "none"

\* The mail that p sends has its file to itself.
Alone(p) == Active(p) /\ mail[p] \notin crossed

\* The inode that the file of its mail has.
SpoolInode(p) == dir[Spool[mail[p]]]

\* No inode has two names.
OneName == \A a, b \in Names : dir[a] # None /\ dir[a] = dir[b] => a = b

\* A file of a mail is there only while somebody sends a mail that has it.
Claimed ==
  \A m \in Mails : dir[Spool[m]] # None =>
    \E q \in Procs : Active(q) /\ Spool[mail[q]] = Spool[m]

\* Two mails with one file are not alone with it.
Single ==
  \A p, q \in Procs : Alone(p) /\ Active(q) /\ p # q => Spool[mail[p]] # Spool[mail[q]]

\* No mail is sent by two processes.
Distinct == \A p, q \in Procs : Active(p) /\ p # q => mail[p] # mail[q]

\* Who sends and what was sent.
Sending(p) ==
  /\ Active(p) <=> mail[p] # None
  /\ mail[p] \notin done
  /\ at[p] \in {"exec", "unlink"} => pc[p] \in {"idle", "dead"}

\* Nobody else has the file open.
OwnFile(p) ==
  Alone(p) /\ SpoolInode(p) # None => \A q \in Procs \ {p} : ino[q] # SpoolInode(p)

\* What is in the file until sendmail reads it.
Spooled(p) ==
  Alone(p) /\ at[p] = "write" =>
    \/ pc[p] = "dead"
    \/ pc[p] = "idle" /\ result[p] = "false"
    \/ /\ pc[p] \in {"lock", "write", "unlock", "idle"}
       /\ op[p] = "writeFile" /\ data[p] = mail[p]
       /\ SpoolInode(p) # None /\ ino[p] = SpoolInode(p)
       /\ pc[p] \in {"lock", "write"} => content[ino[p]] = <<>>
       /\ pc[p] \in {"unlock", "idle"} =>
            result[p] = "false" \/ content[ino[p]] = Bytes(mail[p])

\* What sendmail has read of it.
Passed(p) ==
  Alone(p) /\ mail[p] \notin short =>
    /\ at[p] = "exec" => /\ SpoolInode(p) # None /\ stdin[p] = SpoolInode(p)
                         /\ content[stdin[p]] = Bytes(mail[p])
                         /\ IsPart(text[p], mail[p])
    /\ at[p] = "unlink" => sent[mail[p]] = Bytes(mail[p])

MailInv ==
  /\ MailTypeOK /\ WritesAlone /\ MailIntact
  /\ OneName /\ Claimed /\ Single /\ Distinct
  /\ \A p \in Procs : Sending(p) /\ OwnFile(p) /\ Spooled(p) /\ Passed(p)

LEMMA SpoolNames ==
  ASSUME MailTypeOK, NEW p \in Procs, Active(p)
  PROVE  mail[p] \in Mails /\ Spool[mail[p]] \in Names /\ Spool[mail[p]] \in SpoolFiles
  BY MailConstantsOK DEF MailTypeOK, Active, SpoolFiles

\* What an open() of a writer does to the other files.
LEMMA OpenFrame ==
  ASSUME TypeOK, OneName, NEW p \in Procs, NEW f \in Writers, NEW name \in Names,
         NEW d \in Data, OpenWrite(p, f, name, d)
  PROVE  /\ OneName'
         /\ \A b \in Names \ {name} :
              /\ dir'[b] = dir[b]
              /\ dir[b] # None => /\ content'[dir[b]] = content[dir[b]]
                                  /\ ino'[p] # dir[b]
         /\ dir'[name] # None /\ ino'[p] = dir'[name]
         /\ dir[name] = None => /\ content'[dir'[name]] = <<>>
                                /\ \A q \in Procs \ {p} : ino'[q] # dir'[name]
<1> DEFINE i == IF dir[name] = None THEN Len(content) + 1 ELSE dir[name]
<1>1. /\ dir' = [dir EXCEPT ![name] = i] /\ ino' = [ino EXCEPT ![p] = i]
      /\ dir[name] = None => content' = Append(content, <<>>)
      /\ dir[name] # None => content' = [content EXCEPT ![i] = <<>>]
  BY DEF OpenWrite, Begin, Truncated
<1>2. /\ dir \in [Names -> DOMAIN content \cup {None}] /\ content \in Seq(Seq(Blocks))
      /\ ino \in [Procs -> DOMAIN content \cup {0}] /\ Len(content) \in Nat
      /\ DOMAIN content = 1..Len(content)
  BY DEF TypeOK
<1>3. dir[name] = None => i = Len(content) + 1 /\ i \notin DOMAIN content /\ i # 0
  BY <1>2
<1>4. dir[name] # None => i = dir[name]
  OBVIOUS
<1>5. i # None
  BY <1>2, <1>3, <1>4, ConstantsOK
<1>6. dir[name] = None => content'[i] = <<>>
                          /\ \A j \in DOMAIN content : content'[j] = content[j]
  <2> SUFFICES ASSUME dir[name] = None
               PROVE  content'[Len(content) + 1] = <<>>
                      /\ \A j \in DOMAIN content : content'[j] = content[j]
    BY <1>3
  <2> QED BY <1>1, <1>2
<1> HIDE DEF i
<1>7. OneName'
  <2> SUFFICES ASSUME NEW a \in Names, NEW b \in Names, dir'[a] # None, dir'[a] = dir'[b]
               PROVE  a = b
    BY DEF OneName
  <2>1. \A x \in Names : dir[x] # None => dir[x] \in DOMAIN content
    BY <1>2
  <2>2. \A x \in Names \ {name} : dir'[x] = dir[x]
    BY <1>1, <1>2
  <2>3. dir'[name] = i
    BY <1>1, <1>2
  <2> QED BY <1>3, <1>4, <2>1, <2>2, <2>3 DEF OneName
<1>8. ASSUME NEW b \in Names \ {name}
      PROVE  /\ dir'[b] = dir[b]
             /\ dir[b] # None => /\ content'[dir[b]] = content[dir[b]]
                                 /\ ino'[p] # dir[b]
  <2>1. dir'[b] = dir[b] /\ ino'[p] = i
    BY <1>1, <1>2
  <2>2. dir[b] # None => dir[b] \in DOMAIN content /\ dir[b] # i
    BY <1>2, <1>3, <1>4 DEF OneName
  <2>3. dir[b] # None => content'[dir[b]] = content[dir[b]]
    BY <1>1, <1>2, <1>6, <2>2
  <2> QED BY <2>1, <2>2, <2>3
<1>9. dir'[name] = i /\ ino'[p] = i
  BY <1>1, <1>2
<1>10. dir[name] = None => \A q \in Procs \ {p} : ino'[q] # i
  <2>1. \A q \in Procs \ {p} : ino'[q] = ino[q] /\ ino[q] \in DOMAIN content \cup {0}
    BY <1>1, <1>2
  <2> QED BY <1>3, <2>1
<1> QED BY <1>5, <1>6, <1>7, <1>8, <1>9, <1>10

\* Steps of FileIO leave the files of the mails alone, but for the write(2) of
\* the process that has one open.
LEMMA FileFrame ==
  ASSUME MailTypeOK, OneName, NEW p \in Procs, FileStep(p)
  PROVE  /\ OneName'
         /\ \A b \in SpoolFiles :
              /\ dir'[b] = dir[b]
              /\ dir[b] # None /\ ino'[p] = dir[b] => ino[p] = dir[b]
              /\ dir[b] # None /\ (pc[p] = "write" => ino[p] # dir[b]) =>
                   content'[dir[b]] = content[dir[b]]
<1>1. /\ TypeOK /\ SpoolFiles \subseteq Names
      /\ dir \in [Names -> DOMAIN content \cup {None}]
      /\ ino \in [Procs -> DOMAIN content \cup {0}]
      /\ \A j \in DOMAIN content : j # 0
  <2>1. TypeOK /\ content \in Seq(Seq(Blocks))
    BY DEF MailTypeOK, TypeOK
  <2>2. SpoolFiles \subseteq Names
    BY MailConstantsOK DEF SpoolFiles
  <2>3. \A j \in DOMAIN content : j # 0
    BY <2>1
  <2> QED BY <2>1, <2>2, <2>3 DEF TypeOK
<1>2. CASE \E f \in Writers, name \in Names \ SpoolFiles, d \in Data : OpenWrite(p, f, name, d)
  <2>1. PICK f \in Writers, name \in Names \ SpoolFiles, d \in Data : OpenWrite(p, f, name, d)
    BY <1>2
  <2> QED BY <1>1, <2>1, OpenFrame
<1>3. CASE \E f \in Readers, name \in Names \ SpoolFiles : OpenRead(p, f, name)
  <2>1. PICK f \in Readers, name \in Names \ SpoolFiles : OpenRead(p, f, name)
    BY <1>3
  <2>2. ino' = [ino EXCEPT ![p] = dir[name]] /\ dir[name] # None
        /\ dir' = dir /\ content' = content
    BY <2>1 DEF OpenRead, files
  <2>3. ino'[p] = dir[name]
    BY <1>1, <2>2
  <2>4. \A b \in SpoolFiles : dir[b] # None => dir[b] # dir[name]
    BY <1>1, <2>1 DEF OneName
  <2> QED BY <2>2, <2>3, <2>4 DEF OneName
<1>4. CASE \/ \E name \in Names \ SpoolFiles : Unlink(p, name)
           \/ \E f \in Readers \cup Writers : OpenFails(p, f)
  <2>1. content' = content /\ ino' = ino
    BY <1>4 DEF Unlink, OpenFails, files
  <2>2. \/ dir' = dir
        \/ \E name \in Names \ SpoolFiles : dir' = [dir EXCEPT ![name] = None]
    BY <1>4 DEF Unlink, OpenFails, files
  <2>3. \A b \in SpoolFiles : dir'[b] = dir[b]
    BY <1>1, <2>2
  <2>4. \A b \in Names : dir'[b] # None => dir'[b] = dir[b]
    BY <1>1, <2>2
  <2> QED BY <1>1, <2>1, <2>3, <2>4 DEF OneName
<1>5. CASE Die(p)
  <2>1. dir' = dir /\ content' = content /\ ino'[p] = 0
    BY <1>1, <1>5 DEF Die, files
  <2>2. \A b \in SpoolFiles : dir[b] # None => dir[b] # 0
    BY <1>1
  <2> QED BY <2>1, <2>2 DEF OneName
<1>6. CASE Step(p)
  <2>1. dir' = dir /\ ino' = ino
    BY <1>6 DEF Step, LockShared, LockExclusive, ReadBlock, ReadEnds, AskSize, Slurp,
                SlurpPart, SlurpFails, Unlock, WriteOut, files
  <2>2. \/ content' = content
        \/ pc[p] = "write" /\ \E x : content' = [content EXCEPT ![ino[p]] = x]
    BY <1>6 DEF Step, LockShared, LockExclusive, ReadBlock, ReadEnds, AskSize, Slurp,
                SlurpPart, SlurpFails, Unlock, WriteOut, files
  <2>3. ASSUME NEW b \in SpoolFiles, dir[b] # None, pc[p] = "write" => ino[p] # dir[b]
        PROVE  content'[dir[b]] = content[dir[b]]
    <3>1. dir[b] \in DOMAIN content
      BY <1>1, <2>3
    <3> QED BY <2>2, <2>3, <3>1
  <2> QED BY <2>1, <2>3 DEF OneName
<1>7. Data \ Mails \subseteq Data
  OBVIOUS
<1> QED BY <1>2, <1>3, <1>4, <1>5, <1>6, <1>7 DEF FileStep, Call

\* What writeFile() of a mail does to its file.
LEMMA SpoolStep ==
  ASSUME MailInv, NEW p \in Procs, Step(p), Alone(p), at[p] = "write",
         UNCHANGED mailVars
  PROVE  Spooled(p)'
<1>0. Spooled(p) /\ MailTypeOK /\ LocalsOK /\ FilesOK
  BY TypeParts DEF MailInv, MailTypeOK
<1>1. pc[p] \notin {"dead", "idle"}
  BY DEF Step, LockShared, LockExclusive, ReadBlock, ReadEnds, AskSize, Slurp, SlurpPart,
         SlurpFails, WriteOut, Unlock
<1>2. /\ pc[p] \in {"lock", "write", "unlock"}
      /\ op[p] = "writeFile" /\ data[p] = mail[p]
      /\ SpoolInode(p) # None /\ ino[p] = SpoolInode(p)
      /\ pc[p] \in {"lock", "write"} => content[ino[p]] = <<>>
      /\ pc[p] = "unlock" => result[p] = "false" \/ content[ino[p]] = Bytes(mail[p])
  BY <1>0, <1>1 DEF Spooled
<1>3. /\ UNCHANGED <<at, mail, crossed>>
      /\ mail[p] \in Mails /\ mail[p] \in Data /\ Size[mail[p]] \in Nat
  BY <1>0, SpoolNames, MailConstantsOK, ConstantsOK DEF mailVars, Alone
<1>4. LockExclusive(p) \/ WriteOut(p) \/ Unlock(p)
  BY <1>2 DEF Step, LockShared, ReadBlock, ReadEnds, AskSize, Slurp, SlurpPart,
              SlurpFails, Readers
<1>5. UNCHANGED <<dir, op, data, ino>>
  BY <1>4 DEF LockExclusive, WriteOut, Unlock, files
<1>6. SpoolInode(p)' = SpoolInode(p)
  BY <1>3, <1>5 DEF SpoolInode
<1>7. CASE LockExclusive(p)
  <2>1. pc'[p] = "write" /\ content' = content
    BY <1>0, <1>7 DEF LockExclusive, LocalsOK, files
  <2>2. content[ino[p]] = <<>>
    BY <1>2, <1>7 DEF LockExclusive
  <2> QED BY <1>2, <1>3, <1>5, <1>6, <2>1, <2>2 DEF Spooled
<1>8. CASE Unlock(p)
  <2>1. pc'[p] = "idle" /\ result'[p] = result[p] /\ content' = content /\ pc[p] = "unlock"
    BY <1>0, <1>8 DEF Unlock, Return, LocalsOK, files
  <2>2. Bytes(mail[p])' = Bytes(mail[p])
    BY <1>3 DEF Bytes
  <2> QED BY <1>2, <1>3, <1>5, <1>6, <2>1, <2>2 DEF Spooled
<1>9. CASE WriteOut(p)
  <2>1. ino[p] \in DOMAIN content
    <3>1. ino[p] # 0
      BY <1>0, <1>2, TypeParts DEF CallOK, MailTypeOK
    <3> QED BY <1>0, <3>1 DEF LocalsOK
  <2>2. content[ino[p]] = <<>> /\ Len(content[ino[p]]) = 0
    BY <1>2, <1>9 DEF WriteOut
  <2>3. PICK n \in (IF "full" \in Allow THEN 0..Size[data[p]] ELSE {Size[data[p]]}) :
          /\ content' = [content EXCEPT ![ino[p]] =
                           [j \in 1..(IF n > Len(content[ino[p]])
                                        THEN n ELSE Len(content[ino[p]])) |->
                              IF j <= n THEN <<data[p], j>> ELSE content[ino[p]][j]]]
          /\ pc' = [pc EXCEPT ![p] = "unlock"]
          /\ result' = [result EXCEPT ![p] = Outcome(p, n)]
    BY <1>2, <1>9 DEF WriteOut
  <2>4. pc'[p] = "unlock" /\ result'[p] = Outcome(p, n)
    BY <1>0, <2>3 DEF LocalsOK
  <2>5. CASE n = Size[data[p]]
    <3>1. n \in Nat /\ (IF n > 0 THEN n ELSE 0) = n
      BY <1>2, <1>3, <2>5
    <3>2. content'[ino[p]] = [j \in 1..n |-> IF j <= n THEN <<data[p], j>>
                                                      ELSE content[ino[p]][j]]
      BY <2>1, <2>2, <2>3, <3>1
    <3>3. \A j \in 1..n : j <= n
      BY <3>1
    <3>4. content'[ino[p]] = Bytes(mail[p])
      BY <1>2, <2>5, <3>2, <3>3 DEF Bytes
    <3>5. Bytes(mail[p])' = Bytes(mail[p])
      BY <1>3 DEF Bytes
    <3> QED BY <1>2, <1>3, <1>5, <1>6, <2>4, <3>4, <3>5 DEF Spooled
  <2>6. CASE n # Size[data[p]]
    <3>1. result'[p] = "false"
      BY <2>4, <2>6 DEF Outcome
    <3> QED BY <1>2, <1>3, <1>5, <1>6, <2>4, <3>1 DEF Spooled
  <2> QED BY <2>5, <2>6
<1> QED BY <1>4, <1>7, <1>8, <1>9

\* Steps of FileIO keep what is known of the mails.
LEMMA FileKeeps ==
  ASSUME MailInv, NEW p \in Procs, FileStep(p), MailTypeOK', WritesAlone'
  PROVE  MailInv'
<1>0. /\ MailTypeOK /\ LocalsOK /\ OneName /\ Claimed /\ Single /\ Distinct
      /\ MailIntact
      /\ \A q \in Procs : Sending(q) /\ OwnFile(q) /\ Spooled(q) /\ Passed(q)
      /\ FileAction(p)
  BY TypeParts, FileStepIsAction DEF MailInv, MailTypeOK
<1>1. UNCHANGED <<at, mail, stdin, text, sent, done, short, crossed>>
  BY DEF FileStep, mailVars
<1>2. /\ OneName'
      /\ \A b \in SpoolFiles :
           /\ dir'[b] = dir[b]
           /\ dir[b] # None /\ ino'[p] = dir[b] => ino[p] = dir[b]
           /\ dir[b] # None /\ (pc[p] = "write" => ino[p] # dir[b]) =>
                content'[dir[b]] = content[dir[b]]
  BY <1>0, FileFrame
<1>3. \A q \in Procs \ {p} : /\ pc'[q] = pc[q] /\ op'[q] = op[q] /\ data'[q] = data[q]
                             /\ ino'[q] = ino[q] /\ result'[q] = result[q]
  BY <1>0, OnlyOwn
<1>4. MailIntact'
  BY <1>0, <1>1 DEF MailIntact, Bytes
<1>5. Claimed' /\ Single' /\ Distinct'
  <2>1. \A m \in Mails : Spool[m] \in SpoolFiles
    BY DEF SpoolFiles
  <2> QED BY <1>0, <1>1, <1>2, <2>1 DEF Claimed, Single, Distinct, Active, Alone
<1>6. ASSUME NEW q \in Procs PROVE Sending(q)' /\ OwnFile(q)' /\ Spooled(q)' /\ Passed(q)'
  <2>1. Sending(q) /\ OwnFile(q) /\ Spooled(q) /\ Passed(q)
    BY <1>0
  <2>2. Active(q)' = Active(q) /\ Alone(q)' = Alone(q)
    BY <1>1 DEF Active, Alone
  <2>3. Active(q) => SpoolInode(q)' = SpoolInode(q)
    BY <1>0, <1>1, <1>2, SpoolNames DEF SpoolInode
  <2>4. q = p /\ Active(p) => Step(p) \/ Die(p)
    BY DEF FileStep, Active
  <2>5. Sending(q)'
    <3>1. CASE q # p
      BY <1>1, <1>3, <2>1, <3>1 DEF Sending, Active
    <3>2. CASE q = p /\ pc'[p] \in {"idle", "dead"}
      BY <1>1, <2>1, <3>2 DEF Sending, Active
    <3>3. CASE q = p /\ at[p] \notin {"exec", "unlink"}
      BY <1>1, <2>1, <3>3 DEF Sending, Active
    <3>4. CASE q = p /\ at[p] \in {"exec", "unlink"}
      <4>1. pc[p] \in {"idle", "dead"}
        BY <2>1, <3>4 DEF Sending
      <4>2. ~Step(p)
        BY <4>1 DEF Step, LockShared, LockExclusive, ReadBlock, ReadEnds, AskSize, Slurp,
                    SlurpPart, SlurpFails, WriteOut, Unlock
      <4>3. Die(p)
        BY <2>4, <3>4, <4>2 DEF Active
      <4>4. pc'[p] = "dead"
        BY <1>0, <4>3 DEF Die, LocalsOK
      <4> QED BY <1>1, <2>1, <3>4, <4>4 DEF Sending, Active
    <3> QED BY <3>1, <3>3, <3>4
  <2>6. OwnFile(q)'
    <3> SUFFICES ASSUME Alone(q), SpoolInode(q) # None, NEW r \in Procs \ {q}
                 PROVE  ino'[r] # SpoolInode(q)
      BY <2>2, <2>3 DEF OwnFile, Alone
    <3>1. ino[r] # SpoolInode(q)
      BY <2>1 DEF OwnFile
    <3>2. Spool[mail[q]] \in SpoolFiles
      BY <1>0, SpoolNames DEF Alone
    <3>3. CASE r # p
      BY <1>3, <3>1, <3>3
    <3>4. CASE r = p
      BY <1>2, <3>1, <3>2, <3>4 DEF SpoolInode
    <3> QED BY <3>3, <3>4
  <2>7. Alone(q) /\ SpoolInode(q) # None /\ (q = p => pc[p] # "write") =>
          content'[SpoolInode(q)] = content[SpoolInode(q)]
    <3> SUFFICES ASSUME Alone(q), SpoolInode(q) # None, q = p => pc[p] # "write"
                 PROVE  content'[SpoolInode(q)] = content[SpoolInode(q)]
      OBVIOUS
    <3>1. Spool[mail[q]] \in SpoolFiles
      BY <1>0, SpoolNames DEF Alone
    <3>2. pc[p] = "write" => ino[p] # SpoolInode(q)
      BY <2>1 DEF OwnFile
    <3> QED BY <1>2, <3>1, <3>2 DEF SpoolInode
  <2>8. Spooled(q)'
    <3>1. CASE q # p
      <4> SUFFICES ASSUME Alone(q), at[q] = "write" PROVE Spooled(q)'
        BY <1>1, <2>2 DEF Spooled
      <4>1. SpoolInode(q)' = SpoolInode(q) /\ Bytes(mail[q])' = Bytes(mail[q])
        BY <1>1, <2>3 DEF Alone, Bytes
      <4> QED BY <1>1, <1>3, <2>1, <2>7, <3>1, <4>1 DEF Spooled
    <3>2. CASE q = p /\ ~(Alone(p) /\ at[p] = "write")
      BY <1>1, <2>2, <3>2 DEF Spooled
    <3>3. CASE q = p /\ Alone(p) /\ at[p] = "write"
      <4>1. CASE Step(p)
        BY <3>3, <4>1, SpoolStep DEF FileStep
      <4>2. CASE Die(p)
        <5>1. pc'[p] = "dead"
          BY <1>0, <4>2 DEF Die, LocalsOK
        <5> QED BY <3>3, <5>1 DEF Spooled
      <4> QED BY <2>4, <3>3, <4>1, <4>2 DEF Alone
    <3> QED BY <3>1, <3>2, <3>3
  <2>9. Passed(q)'
    <3> SUFFICES ASSUME Alone(q), mail[q] \notin short
                 PROVE  /\ at[q] = "exec" =>
                             /\ SpoolInode(q)' # None /\ stdin[q] = SpoolInode(q)'
                             /\ content'[stdin[q]] = Bytes(mail[q])
                             /\ IsPart(text[q], mail[q])
                        /\ at[q] = "unlink" => sent[mail[q]] = Bytes(mail[q])
      BY <1>1, <2>2 DEF Passed, Bytes, IsPart
    <3>1. at[q] \in {"exec", "unlink"} => pc[q] # "write"
      BY <2>1 DEF Sending
    <3> QED BY <2>1, <2>3, <2>7, <3>1 DEF Passed, Alone
  <2> QED BY <2>5, <2>6, <2>8, <2>9
<1> QED BY <1>2, <1>4, <1>5, <1>6 DEF MailInv

\* The next mail.
LEMMA SendKeeps ==
  ASSUME MailInv, NEW p \in Procs, NEW m \in Mails, Send(p, m), MailTypeOK', WritesAlone'
  PROVE  MailInv'
<1>0. /\ MailTypeOK /\ TypeOK /\ LocalsOK /\ OneName /\ Claimed /\ Single /\ Distinct
      /\ MailIntact
      /\ \A q \in Procs : Sending(q) /\ OwnFile(q) /\ Spooled(q) /\ Passed(q)
      /\ FileAction(p)
  BY TypeParts, SendIsAction DEF MailInv, MailTypeOK
<1>1. /\ at[p] = "none" /\ (\A q \in Procs : mail[q] # m) /\ m \notin done
      /\ at' = [at EXCEPT ![p] = "write"] /\ mail' = [mail EXCEPT ![p] = m]
      /\ UNCHANGED <<stdin, text, sent, done, short>>
      /\ crossed \subseteq crossed' /\ pc[p] = "idle"
  BY DEF Send, OpenWrite, OpenFails, Begin
<1>2. /\ at'[p] = "write" /\ mail'[p] = m
      /\ \A q \in Procs \ {p} : at'[q] = at[q] /\ mail'[q] = mail[q]
  BY <1>0, <1>1 DEF MailTypeOK
<1>3. /\ Active(p)' /\ ~Active(p) /\ \A q \in Procs \ {p} : Active(q)' = Active(q)
  BY <1>1, <1>2 DEF Active
<1>4. /\ \A q \in Procs \ {p} : Alone(q)' => Alone(q) /\ Spool[mail[q]] # Spool[m]
      /\ Alone(p)' => \A q \in Procs : Active(q) => Spool[mail[q]] # Spool[m]
  <2>1. \A q \in Procs : Active(q) /\ Spool[mail[q]] = Spool[m] =>
          m \in crossed' /\ mail[q] \in crossed'
    BY DEF Send, Busy, Active
  <2> QED BY <1>1, <1>2, <1>3, <2>1 DEF Alone
<1>5. Spool[m] \in Names /\ m \in Data /\ m # None /\ "writeFile" \in Writers
  BY MailConstantsOK, ConstantsOK DEF Writers
<1>6. Alone(p)' => dir[Spool[m]] = None
  BY <1>0, <1>4 DEF Claimed
<1>7. \A q \in Procs \ {p} : /\ pc'[q] = pc[q] /\ op'[q] = op[q] /\ data'[q] = data[q]
                             /\ ino'[q] = ino[q] /\ result'[q] = result[q]
  BY <1>0, OnlyOwn
<1>8. /\ OneName'
      /\ \A b \in Names \ {Spool[m]} :
           /\ dir'[b] = dir[b]
           /\ dir[b] # None => content'[dir[b]] = content[dir[b]]
                               /\ (ino'[p] = dir[b] => ino[p] = dir[b])
  <2>1. CASE OpenWrite(p, "writeFile", Spool[m], m)
    BY <1>0, <1>5, <2>1, OpenFrame
  <2>2. CASE OpenFails(p, "writeFile")
    BY <1>0, <2>2 DEF OpenFails, files, OneName
  <2> QED BY <2>1, <2>2 DEF Send
<1>9. MailIntact'
  BY <1>0, <1>1 DEF MailIntact, Bytes
<1>10. Claimed'
  <2> SUFFICES ASSUME NEW n \in Mails, dir'[Spool[n]] # None
               PROVE  \E q \in Procs : Active(q)' /\ Spool[mail'[q]] = Spool[n]
    BY DEF Claimed
  <2>1. CASE Spool[n] = Spool[m]
    BY <1>2, <1>3, <2>1
  <2>2. CASE Spool[n] # Spool[m]
    <3>1. Spool[n] \in Names
      BY MailConstantsOK
    <3>2. PICK q \in Procs : Active(q) /\ Spool[mail[q]] = Spool[n]
      BY <1>0, <1>8, <2>2, <3>1 DEF Claimed
    <3> QED BY <1>2, <1>3, <3>2
  <2> QED BY <2>1, <2>2
<1>11. Single'
  BY <1>0, <1>2, <1>3, <1>4 DEF Single
<1>12. Distinct'
  BY <1>0, <1>1, <1>2, <1>3 DEF Distinct
<1>13. ASSUME NEW q \in Procs \ {p} PROVE Sending(q)' /\ OwnFile(q)' /\ Spooled(q)' /\ Passed(q)'
  <2>1. Sending(q) /\ OwnFile(q) /\ Spooled(q) /\ Passed(q)
    BY <1>0
  <2>2. Sending(q)'
    BY <1>1, <1>2, <1>3, <1>7, <2>1 DEF Sending
  <2>3. Alone(q)' => /\ Alone(q) /\ SpoolInode(q)' = SpoolInode(q)
                     /\ SpoolInode(q) # None =>
                          /\ content'[SpoolInode(q)] = content[SpoolInode(q)]
                          /\ (ino'[p] = SpoolInode(q) => ino[p] = SpoolInode(q))
    <3> SUFFICES ASSUME Alone(q)'
                 PROVE  /\ Alone(q) /\ SpoolInode(q)' = SpoolInode(q)
                        /\ SpoolInode(q) # None =>
                             /\ content'[SpoolInode(q)] = content[SpoolInode(q)]
                             /\ (ino'[p] = SpoolInode(q) => ino[p] = SpoolInode(q))
      OBVIOUS
    <3>1. Alone(q) /\ Spool[mail[q]] # Spool[m]
      BY <1>4
    <3>2. Spool[mail[q]] \in Names
      BY <1>0, <3>1, SpoolNames DEF Alone
    <3> QED BY <1>2, <1>8, <3>1, <3>2 DEF SpoolInode
  <2>4. OwnFile(q)'
    <3> SUFFICES ASSUME Alone(q)', SpoolInode(q)' # None, NEW r \in Procs \ {q}
                 PROVE  ino'[r] # SpoolInode(q)'
      BY DEF OwnFile
    <3>1. ino[r] # SpoolInode(q)
      BY <2>1, <2>3 DEF OwnFile
    <3>2. CASE r # p
      BY <1>7, <2>3, <3>1, <3>2
    <3>3. CASE r = p
      BY <2>3, <3>1, <3>3
    <3> QED BY <3>2, <3>3
  <2>5. Spooled(q)'
    <3> SUFFICES ASSUME Alone(q)', at'[q] = "write" PROVE Spooled(q)'
      BY DEF Spooled
    <3>1. Bytes(mail[q])' = Bytes(mail[q]) /\ at[q] = "write" /\ mail'[q] = mail[q]
      BY <1>2 DEF Bytes
    <3> QED BY <1>7, <2>1, <2>3, <3>1 DEF Spooled
  <2>6. Passed(q)'
    <3> SUFFICES ASSUME Alone(q)', mail'[q] \notin short'
                 PROVE  /\ at'[q] = "exec" =>
                             /\ SpoolInode(q)' # None /\ stdin'[q] = SpoolInode(q)'
                             /\ content'[stdin'[q]] = Bytes(mail[q])
                             /\ IsPart(text'[q], mail[q])
                        /\ at'[q] = "unlink" => sent'[mail[q]] = Bytes(mail[q])
      BY <1>2 DEF Passed, Bytes, IsPart
    <3> QED BY <1>1, <1>2, <2>1, <2>3 DEF Passed
  <2> QED BY <2>2, <2>4, <2>5, <2>6
<1>14. Sending(p)' /\ OwnFile(p)' /\ Spooled(p)' /\ Passed(p)'
  <2>1. Sending(p)' /\ Passed(p)'
    BY <1>1, <1>2, <1>3, <1>5 DEF Sending, Passed
  <2>2. CASE OpenFails(p, "writeFile")
    <3>1. pc'[p] = "idle" /\ result'[p] = "false" /\ dir' = dir
      BY <1>0, <1>1, <2>2 DEF OpenFails, LocalsOK, Readers, files
    <3>2. Alone(p)' => SpoolInode(p)' = None
      BY <1>2, <1>6, <3>1 DEF SpoolInode
    <3> QED BY <2>1, <3>1, <3>2 DEF OwnFile, Spooled
  <2>3. CASE OpenWrite(p, "writeFile", Spool[m], m)
    <3>1. /\ dir'[Spool[m]] # None /\ ino'[p] = dir'[Spool[m]]
          /\ dir[Spool[m]] = None =>
               /\ content'[dir'[Spool[m]]] = <<>>
               /\ \A q \in Procs \ {p} : ino'[q] # dir'[Spool[m]]
      BY <1>0, <1>5, <2>3, OpenFrame
    <3>2. pc'[p] = "lock" /\ op'[p] = "writeFile" /\ data'[p] = m
      BY <1>0, <2>3 DEF OpenWrite, Begin, LocalsOK
    <3>3. SpoolInode(p)' = dir'[Spool[m]]
      BY <1>2 DEF SpoolInode
    <3>4. OwnFile(p)'
      BY <1>6, <3>1, <3>3 DEF OwnFile
    <3>5. Spooled(p)'
      BY <1>2, <1>6, <3>1, <3>2, <3>3 DEF Spooled
    <3> QED BY <2>1, <3>4, <3>5
  <2> QED BY <2>2, <2>3 DEF Send
<1>15. \A q \in Procs : Sending(q)' /\ OwnFile(q)' /\ Spooled(q)' /\ Passed(q)'
  BY <1>13, <1>14
<1> QED BY <1>8, <1>9, <1>10, <1>11, <1>12, <1>15 DEF MailInv

\* The mailer's steps: the shell, and sendmail.
LEMMA SendmailKeeps ==
  ASSUME MailInv, NEW p \in Procs, MailTypeOK', WritesAlone',
         Exec(p) \/ SendmailReads(p) \/ SendmailSends(p)
  PROVE  MailInv'
<1>0. /\ MailTypeOK /\ TypeOK /\ OneName /\ Claimed /\ Single /\ Distinct /\ MailIntact
      /\ \A q \in Procs : Sending(q) /\ OwnFile(q) /\ Spooled(q) /\ Passed(q)
  BY DEF MailInv, MailTypeOK
<1>1. /\ UNCHANGED <<dir, content, pc, op, data, ino, result, mail, done, crossed>>
      /\ Active(p) /\ short \subseteq short'
  BY DEF Exec, SendmailReads, SendmailSends, vars, Active
<1>2. /\ at'[p] \in {"exec", "unlink"}
      /\ \A q \in Procs \ {p} : at'[q] = at[q] /\ stdin'[q] = stdin[q] /\ text'[q] = text[q]
  BY <1>0 DEF Exec, SendmailReads, SendmailSends, MailTypeOK
<1>3. mail[p] \in Mails /\ mail[p] \notin done
  BY <1>0, <1>1, SpoolNames DEF Sending
<1>4. \A q \in Procs : /\ Active(q)' = Active(q) /\ Alone(q)' = Alone(q)
                       /\ SpoolInode(q)' = SpoolInode(q)
                       /\ Bytes(mail[q])' = Bytes(mail[q])
  BY <1>1, <1>2 DEF Active, Alone, SpoolInode, Bytes
<1>5. \A m \in Mails \ {mail[p]} : sent'[m] = sent[m]
  BY <1>0 DEF Exec, SendmailReads, SendmailSends, MailTypeOK
<1>6. MailIntact'
  BY <1>0, <1>1, <1>3, <1>5 DEF MailIntact, Bytes, MailTypeOK
<1>7. OneName' /\ Claimed' /\ Single' /\ Distinct'
  BY <1>0, <1>1, <1>4 DEF OneName, Claimed, Single, Distinct
<1>8. ASSUME NEW q \in Procs \ {p} PROVE Sending(q)' /\ OwnFile(q)' /\ Spooled(q)' /\ Passed(q)'
  <2>1. Sending(q) /\ OwnFile(q) /\ Spooled(q) /\ Passed(q)
    BY <1>0
  <2>2. Sending(q)' /\ OwnFile(q)' /\ Spooled(q)'
    BY <1>1, <1>2, <1>4, <2>1 DEF Sending, OwnFile, Spooled
  <2>3. Alone(q) => mail[q] # mail[p] /\ mail[q] \in Mails
    BY <1>0, <1>1, SpoolNames DEF Distinct, Alone
  <2>4. Passed(q)'
    <3> SUFFICES ASSUME Alone(q), mail[q] \notin short
                 PROVE  /\ at[q] = "exec" =>
                             /\ SpoolInode(q) # None /\ stdin[q] = SpoolInode(q)
                             /\ content[stdin[q]] = Bytes(mail[q])
                             /\ IsPart(text[q], mail[q])
                        /\ at[q] = "unlink" => sent'[mail[q]] = Bytes(mail[q])
      BY <1>1, <1>2, <1>4 DEF Passed, IsPart
    <3> QED BY <1>5, <2>1, <2>3 DEF Passed
  <2> QED BY <2>2, <2>4
<1>9. Sending(p)' /\ OwnFile(p)' /\ Spooled(p)'
  <2>1. pc[p] \in {"idle", "dead"}
    BY <1>0 DEF Exec, SendmailReads, SendmailSends, Sending
  <2> QED BY <1>0, <1>1, <1>2, <1>4, <2>1 DEF Sending, OwnFile, Spooled
<1>10. Passed(p)'
  <2> SUFFICES ASSUME Alone(p), mail[p] \notin short'
               PROVE  /\ at'[p] = "exec" =>
                           /\ SpoolInode(p) # None /\ stdin'[p] = SpoolInode(p)
                           /\ content[stdin'[p]] = Bytes(mail[p])
                           /\ IsPart(text'[p], mail[p])
                      /\ at'[p] = "unlink" => sent'[mail[p]] = Bytes(mail[p])
    BY <1>1, <1>4 DEF Passed, IsPart
  <2>1. Passed(p) /\ Spooled(p) /\ mail[p] \notin short
    BY <1>0, <1>1
  <2>2. Size[mail[p]] \in Nat /\ Bytes(mail[p]) \in Seq(Blocks)
        /\ Len(Bytes(mail[p])) = Size[mail[p]]
        /\ \A j \in 1..Size[mail[p]] : Bytes(mail[p])[j] = <<mail[p], j>>
    <3>1. mail[p] \in Data /\ Size[mail[p]] \in Nat
      BY <1>3, MailConstantsOK, ConstantsOK
    <3>2. \A j \in 1..Size[mail[p]] : <<mail[p], j>> \in Blocks
      BY <3>1 DEF Blocks
    <3> QED BY <3>1, <3>2 DEF Bytes
  <2>3. CASE Exec(p)
    <3>1. result[p] = "true" /\ pc[p] = "idle" /\ at[p] = "write"
      BY <2>3 DEF Exec
    <3>2. /\ SpoolInode(p) # None /\ ino[p] = SpoolInode(p)
          /\ content[ino[p]] = Bytes(mail[p])
      BY <2>1, <3>1 DEF Spooled
    <3>3. at'[p] = "exec" /\ stdin'[p] = SpoolInode(p) /\ text'[p] = <<>>
      BY <1>0, <2>3, <3>2 DEF Exec, SpoolInode, MailTypeOK
    <3>4. IsPart(text'[p], mail[p])
      BY <2>2, <3>3 DEF IsPart
    <3> QED BY <3>2, <3>3, <3>4
  <2>4. CASE SendmailReads(p)
    <3>1. /\ at[p] = "exec" /\ at' = at /\ stdin' = stdin
          /\ text' = [text EXCEPT ![p] = Append(@, content[stdin[p]][Len(@) + 1])]
          /\ Len(text[p]) < Len(content[stdin[p]])
      BY <2>4 DEF SendmailReads
    <3>2. /\ SpoolInode(p) # None /\ stdin[p] = SpoolInode(p)
          /\ content[stdin[p]] = Bytes(mail[p]) /\ IsPart(text[p], mail[p])
      BY <2>1, <3>1 DEF Passed
    <3>3. text[p] \in Seq(Blocks) /\ text \in [Procs -> Seq(Blocks)] /\ Len(text[p]) \in Nat
      BY <1>0 DEF MailTypeOK
    <3>4. Len(text[p]) + 1 \in 1..Size[mail[p]]
      BY <2>2, <3>1, <3>2, <3>3
    <3>5. text'[p] = Append(text[p], <<mail[p], Len(text[p]) + 1>>)
      BY <2>2, <3>1, <3>2, <3>3, <3>4
    <3>6. <<mail[p], Len(text[p]) + 1>> \in Blocks
      BY <1>3, <3>3, MailConstantsOK DEF Blocks
    <3>7. /\ Len(text'[p]) = Len(text[p]) + 1
          /\ DOMAIN text'[p] = DOMAIN text[p] \cup {Len(text[p]) + 1}
          /\ \A j \in DOMAIN text[p] : text'[p][j] = text[p][j]
          /\ text'[p][Len(text[p]) + 1] = <<mail[p], Len(text[p]) + 1>>
      BY <3>3, <3>5, <3>6, SeqAppend
    <3>8. IsPart(text'[p], mail[p])
      BY <3>2, <3>4, <3>7 DEF IsPart
    <3> QED BY <3>1, <3>2, <3>8
  <2>5. CASE SendmailSends(p)
    <3>1. /\ at[p] = "exec" /\ at' = [at EXCEPT ![p] = "unlink"]
          /\ sent' = [sent EXCEPT ![mail[p]] = text[p]]
          /\ Len(text[p]) >= Len(content[stdin[p]])
      BY <2>5 DEF SendmailSends
    <3>2. content[stdin[p]] = Bytes(mail[p]) /\ IsPart(text[p], mail[p])
      BY <2>1, <3>1 DEF Passed
    <3>3. text[p] \in Seq(Blocks) /\ Len(text[p]) \in Nat
      BY <1>0 DEF MailTypeOK
    <3>4. Len(text[p]) = Size[mail[p]]
      BY <2>2, <3>1, <3>2, <3>3 DEF IsPart
    <3>8. DOMAIN text[p] = 1..Size[mail[p]]
      BY <3>3, <3>4
    <3>9. \A j \in DOMAIN text[p] : text[p][j] = <<mail[p], j>>
      BY <3>2 DEF IsPart
    <3>5. \A j \in 1..Size[mail[p]] : text[p][j] = Bytes(mail[p])[j]
      BY <2>2, <3>8, <3>9
    <3>6. text[p] = Bytes(mail[p])
      BY <2>2, <3>3, <3>4, <3>5
    <3>7. sent'[mail[p]] = Bytes(mail[p]) /\ at'[p] = "unlink"
      BY <1>0, <1>3, <3>1, <3>6 DEF MailTypeOK
    <3> QED BY <3>7
  <2> QED BY <2>3, <2>4, <2>5
<1>11. \A q \in Procs : Sending(q)' /\ OwnFile(q)' /\ Spooled(q)' /\ Passed(q)'
  BY <1>8, <1>9, <1>10
<1> QED BY <1>6, <1>7, <1>11 DEF MailInv

\* send() unlinks the file and returns.
LEMMA RemoveKeeps ==
  ASSUME MailInv, NEW p \in Procs, MailTypeOK', WritesAlone', Remove(p)
  PROVE  MailInv'
<1>0. /\ MailTypeOK /\ TypeOK /\ LocalsOK /\ OneName /\ Claimed /\ Single /\ Distinct
      /\ MailIntact
      /\ \A q \in Procs : Sending(q) /\ OwnFile(q) /\ Spooled(q) /\ Passed(q)
  BY TypeParts DEF MailInv, MailTypeOK
<1>1. /\ at[p] = "unlink" /\ pc[p] = "idle"
      /\ at' = [at EXCEPT ![p] = "none"] /\ mail' = [mail EXCEPT ![p] = None]
      /\ done' = done \cup {mail[p]} /\ dir' = [dir EXCEPT ![Spool[mail[p]]] = None]
      /\ UNCHANGED <<content, pc, data, ino, stdin, text, sent, short, crossed>>
  BY DEF Remove, Unlink
<1>2. /\ at'[p] = "none" /\ mail'[p] = None
      /\ \A q \in Procs \ {p} : /\ at'[q] = at[q] /\ mail'[q] = mail[q]
                                /\ op'[q] = op[q] /\ result'[q] = result[q]
  BY <1>0, <1>1 DEF MailTypeOK, LocalsOK, Remove, Unlink
<1>3. Active(p) /\ mail[p] \in Mails /\ Spool[mail[p]] \in Names
  BY <1>0, <1>1, SpoolNames DEF Active
<1>4. /\ dir'[Spool[mail[p]]] = None
      /\ \A b \in Names : b # Spool[mail[p]] => dir'[b] = dir[b]
  BY <1>0, <1>1, <1>3 DEF TypeOK
<1>5. ~Active(p)' /\ \A q \in Procs \ {p} : Active(q)' = Active(q) /\ Alone(q)' = Alone(q)
  BY <1>1, <1>2 DEF Active, Alone
<1>6. MailIntact'
  <2> SUFFICES ASSUME NEW m \in done', m \notin short, m \notin crossed
               PROVE  sent[m] = Bytes(m)
    BY <1>1 DEF MailIntact, Bytes
  <2>1. CASE m \in done
    BY <1>0, <2>1 DEF MailIntact
  <2>2. CASE m = mail[p]
    BY <1>0, <1>1, <1>3, <2>2 DEF Passed, Alone
  <2> QED BY <1>1, <2>1, <2>2
<1>7. OneName'
  BY <1>0, <1>4 DEF OneName
<1>8. Claimed'
  <2> SUFFICES ASSUME NEW n \in Mails, dir'[Spool[n]] # None
               PROVE  \E q \in Procs : Active(q)' /\ Spool[mail'[q]] = Spool[n]
    BY DEF Claimed
  <2>1. Spool[n] \in Names /\ Spool[n] # Spool[mail[p]]
    BY <1>4, MailConstantsOK
  <2>2. PICK q \in Procs : Active(q) /\ Spool[mail[q]] = Spool[n]
    BY <1>0, <1>4, <2>1 DEF Claimed
  <2> QED BY <1>2, <1>5, <2>1, <2>2
<1>9. Single' /\ Distinct'
  <2>1. Single'
    BY <1>0, <1>1, <1>2, <1>5 DEF Single, Alone
  <2>2. Distinct'
    <3>1. \A q \in Procs : Active(q) => mail[q] # None
      BY <1>0 DEF Sending
    <3> QED BY <1>0, <1>2, <1>5, <3>1 DEF Distinct
  <2> QED BY <2>1, <2>2
<1>10. ASSUME NEW q \in Procs \ {p} PROVE Sending(q)' /\ OwnFile(q)' /\ Spooled(q)' /\ Passed(q)'
  <2>1. Sending(q) /\ OwnFile(q) /\ Spooled(q) /\ Passed(q)
    BY <1>0
  <2>2. Sending(q)'
    <3>1. mail[q] # mail[p]
      BY <1>0, <1>3 DEF Distinct
    <3> QED BY <1>1, <1>2, <1>5, <2>1, <3>1 DEF Sending
  <2>3. Alone(q) => SpoolInode(q)' = SpoolInode(q)
    <3>1. Alone(q) => Spool[mail[q]] # Spool[mail[p]] /\ Spool[mail[q]] \in Names
      BY <1>0, <1>3, SpoolNames DEF Single, Alone
    <3> QED BY <1>2, <1>4, <3>1 DEF SpoolInode
  <2>4. OwnFile(q)' /\ Spooled(q)'
    <3>1. Bytes(mail[q])' = Bytes(mail[q])
      BY <1>2 DEF Bytes
    <3> QED BY <1>1, <1>2, <1>5, <2>1, <2>3, <3>1 DEF OwnFile, Spooled
  <2>5. Passed(q)'
    <3>1. Bytes(mail[q])' = Bytes(mail[q]) /\ IsPart(text[q], mail[q])' = IsPart(text[q], mail[q])
      BY <1>1, <1>2 DEF Bytes, IsPart
    <3> QED BY <1>1, <1>2, <1>5, <2>1, <2>3, <3>1 DEF Passed
  <2> QED BY <2>2, <2>4, <2>5
<1>11. Sending(p)' /\ OwnFile(p)' /\ Spooled(p)' /\ Passed(p)'
  <2>1. None \notin done'
    BY MailConstantsOK, ConstantsOK DEF MailTypeOK
  <2> QED BY <1>2, <1>5, <2>1 DEF Sending, OwnFile, Spooled, Passed, Alone
<1>12. \A q \in Procs : Sending(q)' /\ OwnFile(q)' /\ Spooled(q)' /\ Passed(q)'
  BY <1>10, <1>11
<1> QED BY <1>6, <1>7, <1>8, <1>9, <1>12 DEF MailInv

-----------------------------------------------------------------------------
LEMMA InitMail == MailInit => MailInv
<1> SUFFICES ASSUME MailInit PROVE MailInv
  OBVIOUS
<1>1. TypeOK /\ WritesAlone
  BY InitFiles DEF MailInit
<1>2. <<>> \in Seq(Blocks)
  OBVIOUS
<1>3. MailTypeOK
  BY <1>1, <1>2 DEF MailInit, MailTypeOK
<1>4. \A p \in Procs : ~Active(p) /\ mail[p] = None
  BY DEF MailInit, Active
<1>5. dir = [n \in Names |-> None] /\ done = {} /\ at = [p \in Procs |-> "none"]
  BY DEF MailInit, Init
<1>6. OneName /\ Claimed /\ Single /\ Distinct /\ MailIntact
  BY <1>4, <1>5, MailConstantsOK DEF OneName, Claimed, Single, Distinct, Alone, MailIntact
<1>7. \A p \in Procs : Sending(p) /\ OwnFile(p) /\ Spooled(p) /\ Passed(p)
  BY <1>4, <1>5 DEF Sending, OwnFile, Spooled, Passed, Alone
<1> QED BY <1>1, <1>3, <1>6, <1>7 DEF MailInv

\* MailInv holds at first and every step keeps it.
LEMMA MailInductive == MailSpec => []MailInv
<1>1. MailInv /\ [MailNext]_allVars => MailInv'
  <2> SUFFICES ASSUME MailInv, [MailNext]_allVars PROVE MailInv'
    OBVIOUS
  <2>1. MailTypeOK /\ TypeOK /\ WritesAlone /\ MailTypeOK'
    BY MailTyped DEF MailInv, MailTypeOK
  <2>2. ASSUME NEW p \in Procs, FileStep(p) PROVE MailInv'
    BY <2>1, <2>2, FileStepIsAction, ActionAlone, FileKeeps
  <2>3. ASSUME NEW p \in Procs, NEW m \in Mails, Send(p, m) PROVE MailInv'
    BY <2>1, <2>3, SendIsAction, ActionAlone, SendKeeps
  <2>4. ASSUME NEW p \in Procs, Exec(p) \/ SendmailReads(p) \/ SendmailSends(p)
        PROVE  MailInv'
    <3>1. UNCHANGED <<pc, op, ino, leaked>>
      BY <2>4 DEF Exec, SendmailReads, SendmailSends, vars
    <3>2. WritesAlone'
      BY <2>1, <3>1 DEF WritesAlone, Reading, Writing
    <3> QED BY <2>1, <2>4, <3>2, SendmailKeeps
  <2>5. ASSUME NEW p \in Procs, Remove(p) PROVE MailInv'
    BY <2>1, <2>5, RemoveIsAction, ActionAlone, RemoveKeeps
  <2>6. CASE UNCHANGED allVars
    <3>1. /\ UNCHANGED <<dir, content, pc, op, data, ino, lock, want, got, result>>
          /\ UNCHANGED <<leaked, last, clash, calls>>
          /\ UNCHANGED <<at, mail, stdin, text, sent, done, short, crossed>>
      BY <2>6 DEF allVars, vars, mailVars
    <3>2. WritesAlone'
      BY <2>1, <3>1 DEF WritesAlone, Reading, Writing
    <3>3. OneName' /\ Claimed' /\ Single' /\ Distinct' /\ MailIntact'
      BY <3>1 DEF MailInv, OneName, Claimed, Single, Distinct, MailIntact, Active, Alone, Bytes
    <3>4. \A p \in Procs : Sending(p)' /\ OwnFile(p)' /\ Spooled(p)' /\ Passed(p)'
      BY <3>1 DEF MailInv, Sending, OwnFile, Spooled, Passed, Active, Alone, SpoolInode,
                  Bytes, IsPart
    <3> QED BY <2>1, <3>2, <3>3, <3>4 DEF MailInv
  <2> QED BY <2>2, <2>3, <2>4, <2>5, <2>6 DEF MailNext, MailStep
<1> QED BY <1>1, InitMail, PTL DEF MailSpec

\* What the results of the calls rest on holds with mails on their way too.
LEMMA MailVersions == MailSpec => [](MailInv /\ VersionInv)
<1>1. MailInv /\ MailInv' /\ VersionInv /\ [MailNext]_allVars => VersionInv'
  <2> SUFFICES ASSUME MailInv, MailInv', VersionInv, [MailNext]_allVars
               PROVE  VersionInv'
    OBVIOUS
  <2>1. MailTypeOK /\ TypeOK /\ WritesAlone /\ TypeOK'
    BY DEF MailInv, MailTypeOK
  <2>2. ASSUME NEW p \in Procs, FileStep(p) PROVE VersionInv'
    BY <2>1, <2>2, FileStepIsAction, ActionVersions
  <2>3. ASSUME NEW p \in Procs, NEW m \in Mails, Send(p, m) PROVE VersionInv'
    BY <2>1, <2>3, SendIsAction, ActionVersions
  <2>4. ASSUME NEW p \in Procs, Remove(p) PROVE VersionInv'
    BY <2>1, <2>4, RemoveIsAction, ActionVersions
  <2>5. CASE \/ UNCHANGED allVars
             \/ \E p \in Procs : Exec(p) \/ SendmailReads(p) \/ SendmailSends(p)
    <3>1. UNCHANGED vars
      BY <2>5 DEF Exec, SendmailReads, SendmailSends, allVars
    <3>2. UNCHANGED <<content, pc, op, data, ino, got, result, last, clash>>
      BY <3>1 DEF vars
    <3> QED BY <3>2, VersionsStay
  <2> QED BY <2>2, <2>3, <2>4, <2>5 DEF MailNext, MailStep
<1>2. MailInit => VersionInv
  BY InitFiles DEF MailInit
<1> QED BY <1>1, <1>2, MailInductive, PTL DEF MailSpec

\* The variables of Mail.send() keep their types, and a process that waits for
\* sendmail has a file that it reads (Mail.js:361).
THEOREM MailTyping == MailSpec => []MailTypeOK
<1>1. MailInv => MailTypeOK
  BY DEF MailInv
<1> QED BY <1>1, MailInductive, PTL

\* Nobody reads a file with a lock while writeFile() writes it, with the mails of
\* other processes on their way too (fs.cpp:814-820, Mail.js:360).
THEOREM MailExclusion == MailSpec => []WritesAlone
<1>1. MailInv => WritesAlone
  BY DEF MailInv
<1> QED BY <1>1, MailInductive, PTL

\* What is sent of a mail is what was written of it, if the disk took it all and no
\* other mail had the same file meanwhile (Mail.js:360-362).
THEOREM MailsWhole == MailSpec => []MailIntact
<1>1. MailInv => MailIntact
  BY DEF MailInv
<1> QED BY <1>1, MailInductive, PTL

\* A file is the beginning of one thing that was written while mails are sent, unless
\* writers met on it (fs.cpp:814-840, Mail.js:360).
THEOREM MailFileVersions == MailSpec => []OneVersion
<1>1. MailInv /\ VersionInv => OneVersion
  BY VersionsFollow
<1> QED BY <1>1, MailVersions, PTL

\* The mail that writeFile() wrote stays in its file until the next call opens that
\* for writing (fs.cpp:814-840, Mail.js:360).
THEOREM MailWritesStay == MailSpec => []WriteStays
<1>1. MailInv /\ VersionInv => WriteStays
  BY VersionsFollow
<1> QED BY <1>1, MailVersions, PTL
=============================================================================
