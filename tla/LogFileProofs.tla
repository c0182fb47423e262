---------------------------- MODULE LogFileProofs ----------------------------
(***************************************************************************)
(* Theorems about LogFile for any processes, lines and buffer size.        *)
(***************************************************************************)
EXTENDS LogFile, TLAPS

\* Slices of the buffer and bytes of lines are sequences of bytes.
LEMMA SliceType ==
  ASSUME TypeOK, NEW a \in Int, NEW n \in Nat
  PROVE  Slice(a, a + n) \in Seq(BytesOfLines)
<1>1. (a + n) - a = n
  OBVIOUS
<1>2. \A i \in Int : Byte(i) \in BytesOfLines
  BY DEF TypeOK, Byte, BytesOfLines
<1>3. \A i \in 1..n : Byte(a + i - 1) \in BytesOfLines
  BY <1>2
<1>4. Slice(a, a + n) = [i \in 1..n |-> Byte(a + i - 1)]
  BY <1>1 DEF Slice
<1>5. Slice(a, a + n) \in [1..n -> BytesOfLines]
  BY <1>3, <1>4
<1> QED
  BY <1>5

\* The type invariant is inductive: every action of the log keeps the types of
\* the shared memory, the file and each process's locals.
THEOREM TypeInvariant == Spec => []TypeOK
<1>1. Init => TypeOK
  BY ConstantsOK DEF Init, TypeOK, Procs, Children
<1>2. TypeOK /\ [Next]_vars => TypeOK'
  <2> SUFFICES ASSUME TypeOK, [Next]_vars PROVE TypeOK'
    OBVIOUS
  <2> USE DEF shared, locals
  <2>1. ASSUME NEW c \in Children, Fork(c) PROVE TypeOK'
    BY <2>1 DEF TypeOK, Fork, Procs
  <2>2. ASSUME NEW p \in Procs, NEW l \in Lines, Write(p, l) PROVE TypeOK'
    BY <2>2 DEF TypeOK, Write, Open
  <2>3. ASSUME NEW p \in Procs, Flush(p) PROVE TypeOK'
    BY <2>3 DEF TypeOK, Flush, Open
  <2>4. CASE Destroy
    BY <2>4, ConstantsOK DEF TypeOK, Destroy, Open, Procs
  <2>5. ASSUME NEW p \in Procs, Lock(p) PROVE TypeOK'
    BY <2>5 DEF TypeOK, Lock
  <2>6. ASSUME NEW p \in Procs, SkipFlush(p) PROVE TypeOK'
    BY <2>6 DEF TypeOK, SkipFlush, AfterFlush
  <2>7. ASSUME NEW p \in Procs, StartFlush(p) PROVE TypeOK'
    BY <2>7 DEF TypeOK, StartFlush
  <2>8. ASSUME NEW p \in Procs, WriteOut(p) PROVE TypeOK'
    <3>1. PICK n \in 1..toWrite[p] :
            /\ disk' = disk \o Slice(offset[p], offset[p] + n)
            /\ offset' = [offset EXCEPT ![p] = @ + n]
            /\ toWrite' = [toWrite EXCEPT ![p] = @ - n]
            /\ pc' = [pc EXCEPT ![p] = IF toWrite[p] = n THEN "reset" ELSE "write"]
      BY <2>8 DEF WriteOut
    <3>2. n \in Nat /\ toWrite[p] - n \in Nat /\ offset[p] \in Int
      BY DEF TypeOK
    <3>3. Slice(offset[p], offset[p] + n) \in Seq(BytesOfLines)
      BY <3>2, SliceType
    <3>4. disk' \in Seq(BytesOfLines)
      BY <3>1, <3>3 DEF TypeOK
    <3>5. UNCHANGED <<call, fd, holder, length, mem, at, status, doomed, errors>>
      BY <2>8 DEF WriteOut
    <3>6. /\ pc' = [pc EXCEPT ![p] = IF toWrite[p] = n THEN "reset" ELSE "write"]
          /\ offset' = [offset EXCEPT ![p] = @ + n]
          /\ toWrite' = [toWrite EXCEPT ![p] = @ - n]
      BY <3>1
    <3> HIDE <3>1
    <3> QED
      BY SMTT(30), <3>2, <3>4, <3>5, <3>6 DEF TypeOK
  <2>9. ASSUME NEW p \in Procs, WriteError(p) PROVE TypeOK'
    BY <2>9, ConstantsOK DEF TypeOK, WriteError
  <2>10. ASSUME NEW p \in Procs, Reset(p) PROVE TypeOK'
    BY <2>10 DEF TypeOK, Reset, AfterFlush
  <2>11. ASSUME NEW p \in Procs, Copy(p) PROVE TypeOK'
    <3> DEFINE n == LineLen[call[p]]
               dst == length .. (length + n - 1)
    <3>1. call[p] \in Lines /\ n \in 1..(Chunk - 1) /\ Chunk \in Nat /\ length \in Nat
      BY <2>11, ConstantsOK DEF TypeOK, Copy
    <3>2. mem' = [i \in DOMAIN mem \cup dst |->
                    IF i \in dst THEN Bytes(call[p])[i - length + 1] ELSE mem[i]]
      BY <2>11 DEF Copy
    <3>3. \A i \in dst : Bytes(call[p])[i - length + 1] \in BytesOfLines
      <4> SUFFICES ASSUME NEW i \in dst
                   PROVE  Bytes(call[p])[i - length + 1] \in BytesOfLines
        OBVIOUS
      <4>1. i - length + 1 \in 1..n /\ i - length + 1 \in 1..Chunk
        BY <3>1
      <4>2. Bytes(call[p])[i - length + 1] = <<call[p], i - length + 1>>
        BY <4>1 DEF Bytes
      <4> QED
        BY <3>1, <4>1, <4>2 DEF BytesOfLines
    <3>4. DOMAIN mem' \subseteq Nat /\ \A i \in DOMAIN mem' : mem'[i] \in BytesOfLines
      BY SMTT(30), <3>1, <3>2, <3>3 DEF TypeOK
    <3>5. at' = [at EXCEPT ![p] = length] /\ pc' = [pc EXCEPT ![p] = "bump"]
      BY <2>11 DEF Copy
    <3>6. UNCHANGED <<call, fd, holder, length, disk, offset, toWrite, status,
                      doomed, errors>>
      BY <2>11 DEF Copy
    <3> QED
      BY <3>1, <3>4, <3>5, <3>6 DEF TypeOK
  <2>12. ASSUME NEW p \in Procs, Bump(p) PROVE TypeOK'
    <3>1. call[p] \in Lines /\ LineLen[call[p]] \in Nat
      BY <2>12, ConstantsOK DEF TypeOK, Bump
    <3>2. length \in Nat /\ at[p] \in Nat
      BY DEF TypeOK
    <3>3. length' \in Nat
      BY <2>12, <3>1, <3>2 DEF Bump
    <3>4. /\ pc' = [pc EXCEPT ![p] = "unlock"]
          /\ UNCHANGED <<call, fd, holder, mem, disk, offset, toWrite, at,
                         status, doomed, errors>>
      BY <2>12 DEF Bump
    <3> QED
      BY <3>3, <3>4 DEF TypeOK
  <2>13. ASSUME NEW p \in Procs, Unlock(p) PROVE TypeOK'
    BY <2>13 DEF TypeOK, Unlock
  <2>14. ASSUME NEW p \in Procs, Die(p) PROVE TypeOK'
    BY <2>14 DEF TypeOK, Die
  <2>15. CASE UNCHANGED vars
    BY <2>15 DEF TypeOK, vars
  <2> QED
    BY <2>1, <2>2, <2>3, <2>4, <2>5, <2>6, <2>7, <2>8, <2>9, <2>10, <2>11,
       <2>12, <2>13, <2>14, <2>15 DEF Next, Step
<1> QED
  BY <1>1, <1>2, PTL DEF Spec

-----------------------------------------------------------------------------
(***************************************************************************)
(* Mutual exclusion needs more than what it says: that no two processes    *)
(* share an open file description, that a process in a call has its file   *)
(* open, and that a process in the critical section holds the lock.        *)
(***************************************************************************)
Private == \A p \in Procs : fd[p] \in {NoFd, p}

Locked ==
  \A p \in Procs :
    /\ pc[p] = "lock" \/ InCS(p) => fd[p] = p
    /\ InCS(p) => holder = p

LockInv == Private /\ Locked

\* While no child has been replaced, at most one process is inside the log's
\* lock, whatever processes die, whatever write(2) calls fail and even if the
\* log is destroyed.
THEOREM LockSafety ==
  ASSUME Replacements = {}
  PROVE  Spec => [](LockInv /\ MutualExclusion)
<1> USE DEF LockInv, Private, Locked, InCS
<1>1. Init => LockInv
  BY ConstantsOK DEF Init
<1>2. TypeOK /\ LockInv /\ [Next]_vars => LockInv'
  <2> SUFFICES ASSUME TypeOK, LockInv, [Next]_vars PROVE LockInv'
    OBVIOUS
  <2> USE ConstantsOK DEF TypeOK
  <2>1. ASSUME NEW c \in Children, Fork(c) PROVE LockInv'
    <3>1. fd[Master] = NoFd
      BY <2>1 DEF Fork
    <3> QED
      BY <2>1, <3>1 DEF Fork, Procs
  <2>2. ASSUME NEW p \in Procs, NEW l \in Lines, Write(p, l) PROVE LockInv'
    BY <2>2 DEF Write, Open
  <2>3. ASSUME NEW p \in Procs, Flush(p) PROVE LockInv'
    BY <2>3 DEF Flush, Open
  <2>4. CASE Destroy
    BY <2>4 DEF Destroy, Open, Procs
  <2>5. ASSUME NEW p \in Procs, Lock(p) PROVE LockInv'
    BY <2>5 DEF Lock
  <2>6. ASSUME NEW p \in Procs, SkipFlush(p) PROVE LockInv'
    BY <2>6 DEF SkipFlush, AfterFlush
  <2>7. ASSUME NEW p \in Procs, StartFlush(p) PROVE LockInv'
    BY <2>7 DEF StartFlush
  <2>8. ASSUME NEW p \in Procs, WriteOut(p) PROVE LockInv'
    BY <2>8 DEF WriteOut
  <2>9. ASSUME NEW p \in Procs, WriteError(p) PROVE LockInv'
    BY <2>9 DEF WriteError
  <2>10. ASSUME NEW p \in Procs, Reset(p) PROVE LockInv'
    BY <2>10 DEF Reset, AfterFlush
  <2>11. ASSUME NEW p \in Procs, Copy(p) PROVE LockInv'
    BY <2>11 DEF Copy
  <2>12. ASSUME NEW p \in Procs, Bump(p) PROVE LockInv'
    BY <2>12 DEF Bump
  <2>13. ASSUME NEW p \in Procs, Unlock(p) PROVE LockInv'
    BY <2>13 DEF Unlock
  <2>14. ASSUME NEW p \in Procs, Die(p) PROVE LockInv'
    BY <2>14 DEF Die
  <2>15. CASE UNCHANGED vars
    BY <2>15 DEF vars
  <2> QED
    BY <2>1, <2>2, <2>3, <2>4, <2>5, <2>6, <2>7, <2>8, <2>9, <2>10, <2>11,
       <2>12, <2>13, <2>14, <2>15 DEF Next, Step
<1>3. LockInv => MutualExclusion
  BY ConstantsOK DEF MutualExclusion
<1> QED
  BY <1>1, <1>2, <1>3, TypeInvariant, PTL DEF Spec

-----------------------------------------------------------------------------
(***************************************************************************)
(* The buffer's bound also needs what each process has established by      *)
(* where it stands: between the test of write() and unlock_logfile() no    *)
(* other process changes *length.                                          *)
(***************************************************************************)
RoomInv ==
  /\ BufferInBounds
  /\ \A p \in Procs :
       /\ pc[p] = "copy" => length + LineLen[call[p]] < Chunk
       /\ pc[p] = "bump" => at[p] = length /\ length + LineLen[call[p]] < Chunk

LEMMA RoomInductive ==
  ASSUME Replacements = {}
  PROVE  Spec => []RoomInv
<1> USE DEF RoomInv, BufferInBounds
<1>1. Init => RoomInv
  <2> SUFFICES ASSUME Init PROVE RoomInv
    OBVIOUS
  <2>1. Chunk \in Nat /\ 0 < Chunk
    BY ConstantsOK
  <2> QED
    BY <2>1 DEF Init
<1>2. TypeOK /\ MutualExclusion /\ RoomInv /\ [Next]_vars => RoomInv'
  <2> SUFFICES ASSUME TypeOK, MutualExclusion, RoomInv, [Next]_vars
               PROVE  RoomInv'
    OBVIOUS
  <2> USE ConstantsOK DEF TypeOK, shared, locals
  <2>0. \A p, q \in Procs : p # q /\ InCS(p) => pc[q] \notin {"copy", "bump"}
    BY DEF MutualExclusion, InCS
  <2>1. ASSUME NEW c \in Children, Fork(c) PROVE RoomInv'
    BY <2>1 DEF Fork, Procs
  <2>2. ASSUME NEW p \in Procs, NEW l \in Lines, Write(p, l) PROVE RoomInv'
    BY <2>2 DEF Write
  <2>3. ASSUME NEW p \in Procs, Flush(p) PROVE RoomInv'
    BY <2>3 DEF Flush
  <2>4. CASE Destroy
    BY <2>4 DEF Destroy, Procs
  <2>5. ASSUME NEW p \in Procs, Lock(p) PROVE RoomInv'
    BY <2>5 DEF Lock
  <2>6. ASSUME NEW p \in Procs, SkipFlush(p) PROVE RoomInv'
    BY <2>6 DEF SkipFlush, AfterFlush, MustFlush
  <2>7. ASSUME NEW p \in Procs, StartFlush(p) PROVE RoomInv'
    BY <2>7 DEF StartFlush
  <2>8. ASSUME NEW p \in Procs, WriteOut(p) PROVE RoomInv'
    BY <2>8 DEF WriteOut
  <2>9. ASSUME NEW p \in Procs, WriteError(p) PROVE RoomInv'
    BY <2>9 DEF WriteError
  <2>10. ASSUME NEW p \in Procs, Reset(p) PROVE RoomInv'
    BY <2>0, <2>10 DEF Reset, AfterFlush, InCS
  <2>11. ASSUME NEW p \in Procs, Copy(p) PROVE RoomInv'
    BY SMTT(30), <2>0, <2>11 DEF Copy, InCS
  <2>12. ASSUME NEW p \in Procs, Bump(p) PROVE RoomInv'
    BY <2>0, <2>12 DEF Bump, InCS
  <2>13. ASSUME NEW p \in Procs, Unlock(p) PROVE RoomInv'
    BY <2>13 DEF Unlock
  <2>14. ASSUME NEW p \in Procs, Die(p) PROVE RoomInv'
    BY <2>14 DEF Die
  <2>15. CASE UNCHANGED vars
    BY <2>15 DEF vars
  <2> QED
    BY <2>1, <2>2, <2>3, <2>4, <2>5, <2>6, <2>7, <2>8, <2>9, <2>10, <2>11,
       <2>12, <2>13, <2>14, <2>15 DEF Next, Step
<1> QED
  BY <1>1, <1>2, TypeInvariant, LockSafety, PTL DEF Spec

\* While no child has been replaced, memcpy() stays inside logBuffer and
\* *length below LOGFILE_CHUNK_SIZE.
THEOREM BufferSafety ==
  ASSUME Replacements = {}
  PROVE  Spec => []BufferInBounds
<1>1. RoomInv => BufferInBounds
  BY DEF RoomInv
<1> QED BY <1>1, RoomInductive, PTL

-----------------------------------------------------------------------------
(***************************************************************************)
(* A line whose write() returned is not lost: it stands in the buffer, and *)
(* what a flush has appended to the file so far is the buffer's beginning. *)
(* All of it if no write(2) failed, whoever died inside a call.            *)
(***************************************************************************)
InBuffer(l) ==
  \E i \in 0..(length - LineLen[l]) :
    \A j \in 1..LineLen[l] : Byte(i + j - 1) = <<l, j>>

Stands(l) == Occurs(l, disk) \/ InBuffer(l)

\* What a process inside the lock has done of its call.
Progress(p) ==
  /\ pc[p] \in {"write", "reset"} =>
       /\ offset[p] \in 0..Len(disk) /\ offset[p] + toWrite[p] = length
       /\ \A i \in 1..offset[p] : disk[Len(disk) - offset[p] + i] = Byte(i - 1)
  /\ pc[p] = "reset" => toWrite[p] = 0
  /\ pc[p] = "bump" => \A j \in 1..LineLen[call[p]] : Byte(at[p] + j - 1) = <<call[p], j>>
  /\ pc[p] = "unlock" /\ call[p] \in Lines => Stands(call[p])
  /\ pc[p] = "unlock" /\ call[p] \notin Lines => length = 0

LinesInv ==
  errors = 0 => /\ \A p \in Procs : Progress(p)
                /\ \A l \in Lines : status[l] = "returned" => Stands(l)

\* Where a line stands, by the positions of its bytes.
LEMMA OccursAt ==
  ASSUME NEW l \in Lines, NEW s \in Seq(BytesOfLines)
  PROVE  Occurs(l, s) <=> \E i \in 0..(Len(s) - LineLen[l]) :
                            \A j \in 1..LineLen[l] : s[i + j] = <<l, j>>
<1>1. LineLen[l] \in Nat /\ LineLen[l] >= 1 /\ Len(s) \in Nat
  BY ConstantsOK
<1>2. ASSUME NEW i \in 0..(Len(s) - LineLen[l])
      PROVE  SubSeq(s, i + 1, i + LineLen[l]) = Bytes(l)
               <=> \A j \in 1..LineLen[l] : s[i + j] = <<l, j>>
  <2> DEFINE n == LineLen[l]
             b == SubSeq(s, i + 1, i + n)
  <2>1. b = [j \in 1..n |-> s[i + j]]
    <3>1. i \in Nat /\ i + n <= Len(s)
      BY <1>1
    <3> QED BY <1>1, <3>1
  <2>2. Bytes(l) = [j \in 1..n |-> <<l, j>>]
    BY DEF Bytes
  <2> HIDE DEF b, n
  <2>3. b = Bytes(l) <=> \A j \in 1..n : s[i + j] = <<l, j>>
    BY <2>1, <2>2
  <2> QED BY <2>3 DEF b, n
<1> QED BY <1>2 DEF Occurs

\* Where the elements of a concatenation come from.
LEMMA ConcatAt ==
  ASSUME NEW S, NEW s \in Seq(S), NEW t \in Seq(S)
  PROVE  /\ s \o t \in Seq(S) /\ Len(s \o t) = Len(s) + Len(t)
         /\ \A i \in 1..Len(s) : (s \o t)[i] = s[i]
         /\ \A i \in 1..Len(t) : (s \o t)[Len(s) + i] = t[i]
  OBVIOUS

\* A line stays where it stands in the file when the file grows.
LEMMA OccursGrows ==
  ASSUME NEW l \in Lines, NEW s \in Seq(BytesOfLines), NEW t \in Seq(BytesOfLines),
         Occurs(l, s)
  PROVE  Occurs(l, s \o t)
<1>1. LineLen[l] \in Nat /\ Len(s) \in Nat /\ Len(t) \in Nat
  BY ConstantsOK
<1>2. PICK i \in 0..(Len(s) - LineLen[l]) :
        \A j \in 1..LineLen[l] : s[i + j] = <<l, j>>
  BY OccursAt
<1>3. s \o t \in Seq(BytesOfLines) /\ Len(s \o t) = Len(s) + Len(t)
      /\ \A k \in 1..Len(s) : (s \o t)[k] = s[k]
  OBVIOUS
<1>4. i \in 0..(Len(s \o t) - LineLen[l])
      /\ \A j \in 1..LineLen[l] : (s \o t)[i + j] = <<l, j>>
  <2>1. \A j \in 1..LineLen[l] : i + j \in 1..Len(s)
    BY <1>1
  <2>2. i \in 0..(Len(s \o t) - LineLen[l])
    BY <1>1, <1>3
  <2> QED BY <1>2, <1>3, <2>1, <2>2
<1> QED BY <1>3, <1>4, OccursAt

\* What a line stands in when the step does not touch the buffer's contents.
LEMMA StandsStays ==
  ASSUME TypeOK, NEW l \in Lines, Stands(l),
         Occurs(l, disk) => Occurs(l, disk'),
         length \in Nat, length' \in Nat, length <= length',
         \A i \in 0..(length - 1) : Byte(i)' = Byte(i)
  PROVE  Stands(l)'
<1>1. LineLen[l] \in Nat /\ LineLen[l] >= 1
  BY ConstantsOK
<1>2. Occurs(l, disk') => Occurs(l, disk)'
  BY DEF Occurs, Bytes
<1>3. ASSUME InBuffer(l) PROVE InBuffer(l)'
  <2>1. PICK i \in 0..(length - LineLen[l]) :
          \A j \in 1..LineLen[l] : Byte(i + j - 1) = <<l, j>>
    BY <1>3 DEF InBuffer
  <2>2. \A j \in 1..LineLen[l] : i + j - 1 \in 0..(length - 1)
    BY <1>1
  <2>3. i \in 0..(length' - LineLen[l])
    BY <1>1
  <2> QED BY <2>1, <2>2, <2>3 DEF InBuffer
<1> QED BY <1>2, <1>3 DEF Stands
\* The steps that leave the shared memory and the file alone.
LEMMA QuietLines ==
  ASSUME TypeOK, MutualExclusion, LinesInv, UNCHANGED shared,
         \/ \E c \in Children : Fork(c)
         \/ \E p \in Procs, l \in Lines : Write(p, l)
         \/ \E p \in Procs : \/ Flush(p) \/ WriteError(p) \/ Die(p) \/ Lock(p)
                             \/ SkipFlush(p) \/ StartFlush(p) \/ Unlock(p)
         \/ Destroy \/ UNCHANGED vars
  PROVE  LinesInv'
<1>1. UNCHANGED <<length, mem, disk>>
  BY DEF shared
<1>2. \A l \in Lines : Stands(l)' <=> Stands(l)
  BY <1>1 DEF Stands, Occurs, InBuffer, Byte, Bytes
<1>3. \A i \in Int : Byte(i)' = Byte(i)
  BY <1>1 DEF Byte
<1>4. errors' = 0 => errors = 0 /\ \A p \in Procs : ~WriteError(p)
  <2>1. errors' = errors \/ errors' = errors + 1
    BY DEF Fork, Write, Flush, Destroy, WriteError, Lock, SkipFlush, StartFlush, Unlock,
           Die, vars
  <2>2. \A p \in Procs : WriteError(p) => errors' = errors + 1
    BY DEF WriteError
  <2>3. errors \in Nat
    BY ConstantsOK DEF TypeOK
  <2> QED BY <2>1, <2>2, <2>3
<1> SUFFICES ASSUME errors' = 0
             PROVE  /\ \A p \in Procs : Progress(p)'
                    /\ \A l \in Lines : status'[l] = "returned" => Stands(l)'
  BY DEF LinesInv
<1>5. /\ \A p \in Procs : Progress(p)
      /\ \A l \in Lines : status[l] = "returned" => Stands(l)
  BY <1>4 DEF LinesInv
<1>6. ASSUME NEW p \in Procs,
             \/ pc'[p] \notin {"write", "reset", "bump", "unlock"}
             \/ /\ pc'[p] = pc[p] /\ call'[p] = call[p] /\ offset'[p] = offset[p]
                /\ toWrite'[p] = toWrite[p] /\ at'[p] = at[p]
      PROVE  Progress(p)'
  <2>1. CASE pc'[p] \notin {"write", "reset", "bump", "unlock"}
    BY <2>1 DEF Progress
  <2>2. CASE /\ pc'[p] = pc[p] /\ call'[p] = call[p] /\ offset'[p] = offset[p]
             /\ toWrite'[p] = toWrite[p] /\ at'[p] = at[p]
    <3>1. Progress(p)
      BY <1>5
    <3> QED BY <1>1, <1>2, <2>2, <3>1 DEF Progress, Byte
  <2> QED BY <1>6, <2>1, <2>2
<1>7. CASE \/ \E c \in Children : Fork(c)
           \/ \E p \in Procs, l \in Lines : Write(p, l)
           \/ \E p \in Procs : Flush(p) \/ Die(p) \/ Lock(p)
           \/ Destroy \/ UNCHANGED vars
  <2>1. UNCHANGED <<offset, toWrite, at>>
    BY <1>7 DEF Fork, Write, Flush, Destroy, Lock, Die, vars, locals
  <2>2. \/ UNCHANGED <<pc, call>>
        \/ \E p \in Procs, new \in {"idle", "lock", "dead", "check"} :
             /\ pc' = [pc EXCEPT ![p] = new]
             /\ call' = call \/ \E x : call' = [call EXCEPT ![p] = x]
    BY <1>7 DEF Fork, Write, Flush, Destroy, Lock, Die, vars, Procs
  <2>3. ASSUME NEW q \in Procs
        PROVE  pc'[q] \in {"idle", "lock", "dead", "check"}
                 \/ (pc'[q] = pc[q] /\ call'[q] = call[q])
    <3>1. CASE UNCHANGED <<pc, call>>
      BY <3>1
    <3>2. CASE ~UNCHANGED <<pc, call>>
      <4>1. PICK p \in Procs, new \in {"idle", "lock", "dead", "check"} :
              /\ pc' = [pc EXCEPT ![p] = new]
              /\ call' = call \/ \E x : call' = [call EXCEPT ![p] = x]
        BY <2>2, <3>2
      <4>2. pc'[q] = IF q = p THEN new ELSE pc[q]
        BY <4>1 DEF TypeOK
      <4>3. q # p => call'[q] = call[q]
        BY <4>1 DEF TypeOK
      <4> QED BY <4>2, <4>3
    <3> QED BY <3>1, <3>2
  <2>4. status' = status \/ \E l \in Lines : status' = [status EXCEPT ![l] = "writing"]
    BY <1>7 DEF Fork, Write, Flush, Destroy, Lock, Die, vars
  <2>5. \A l \in Lines : status'[l] = "returned" => status[l] = "returned"
    BY <2>4 DEF TypeOK
  <2> QED BY <1>2, <1>5, <1>6, <2>1, <2>3, <2>5
<1>8. ASSUME NEW p \in Procs, SkipFlush(p)
      PROVE  /\ \A q \in Procs : Progress(q)'
             /\ \A l \in Lines : status'[l] = "returned" => Stands(l)'
  <2>1. /\ pc' = [pc EXCEPT ![p] = AfterFlush(p)] /\ pc[p] = "check"
        /\ UNCHANGED <<call, offset, toWrite, at, status>>
    BY <1>8 DEF SkipFlush, locals
  <2>2. Progress(p)'
    <3>1. pc'[p] = AfterFlush(p)
      BY <2>1 DEF TypeOK
    <3>2. call[p] \notin Lines => length = 0
      BY <1>8 DEF SkipFlush, MustFlush
    <3> QED BY <1>1, <2>1, <3>1, <3>2 DEF Progress, AfterFlush
  <2>3. \A q \in Procs \ {p} : pc'[q] = pc[q]
    BY <2>1 DEF TypeOK
  <2> QED BY <1>2, <1>5, <1>6, <2>1, <2>2, <2>3
<1>9. ASSUME NEW p \in Procs, StartFlush(p)
      PROVE  /\ \A q \in Procs : Progress(q)'
             /\ \A l \in Lines : status'[l] = "returned" => Stands(l)'
  <2>1. /\ pc' = [pc EXCEPT ![p] = "write"] /\ toWrite' = [toWrite EXCEPT ![p] = length]
        /\ offset' = [offset EXCEPT ![p] = 0]
        /\ UNCHANGED <<call, at, status>>
    BY <1>9 DEF StartFlush
  <2>2. Progress(p)'
    <3>1. pc'[p] = "write" /\ toWrite'[p] = length /\ offset'[p] = 0
      BY <2>1 DEF TypeOK
    <3>2. length \in Nat /\ Len(disk) \in Nat
      BY DEF TypeOK
    <3> QED BY <1>1, <3>1, <3>2 DEF Progress
  <2>3. \A q \in Procs \ {p} : pc'[q] = pc[q] /\ toWrite'[q] = toWrite[q] /\ offset'[q] = offset[q]
    BY <2>1 DEF TypeOK
  <2> QED BY <1>2, <1>5, <1>6, <2>1, <2>2, <2>3
<1>10. ASSUME NEW p \in Procs, Unlock(p)
       PROVE  /\ \A q \in Procs : Progress(q)'
              /\ \A l \in Lines : status'[l] = "returned" => Stands(l)'
  <2>1. /\ pc[p] = "unlock" /\ pc'[p] \in {"idle", "closed"}
        /\ status' = IF call[p] \in Lines
                       THEN [status EXCEPT ![call[p]] = "returned"] ELSE status
        /\ UNCHANGED <<offset, toWrite, at>>
    BY <1>10 DEF Unlock, locals, TypeOK
  <2>2. \A q \in Procs \ {p} : pc'[q] = pc[q] /\ call'[q] = call[q]
    BY <1>10 DEF Unlock, TypeOK
  <2>3. call[p] \in Lines => Stands(call[p])
    BY <1>5, <2>1 DEF Progress
  <2>4. \A l \in Lines : status'[l] = "returned" => Stands(l)'
    BY <1>2, <1>5, <2>1, <2>3 DEF TypeOK
  <2> QED BY <1>6, <2>1, <2>2, <2>4
<1> QED BY <1>4, <1>7, <1>8, <1>9, <1>10

\* write(2) appends the next bytes of the buffer to the file.
LEMMA WriteLines ==
  ASSUME TypeOK, MutualExclusion, LinesInv, NEW p \in Procs, WriteOut(p)
  PROVE  LinesInv'
<1> SUFFICES ASSUME errors' = 0
             PROVE  /\ \A q \in Procs : Progress(q)'
                    /\ \A l \in Lines : status'[l] = "returned" => Stands(l)'
  BY DEF LinesInv
<1>1. /\ \A q \in Procs : Progress(q)
      /\ \A l \in Lines : status[l] = "returned" => Stands(l)
  BY DEF LinesInv, WriteOut
<1>2. PICK n \in 1..toWrite[p] :
        /\ disk' = disk \o Slice(offset[p], offset[p] + n)
        /\ offset' = [offset EXCEPT ![p] = @ + n]
        /\ toWrite' = [toWrite EXCEPT ![p] = @ - n]
        /\ pc' = [pc EXCEPT ![p] = IF toWrite[p] = n THEN "reset" ELSE "write"]
  BY DEF WriteOut
<1>3. /\ pc[p] = "write" /\ UNCHANGED <<call, length, mem, at, status>>
  BY DEF WriteOut
<1>4. /\ offset[p] \in 0..Len(disk) /\ offset[p] + toWrite[p] = length
      /\ \A i \in 1..offset[p] : disk[Len(disk) - offset[p] + i] = Byte(i - 1)
  BY <1>1, <1>3 DEF Progress
<1>5. /\ n \in Nat /\ toWrite[p] \in Nat /\ length \in Nat /\ n <= toWrite[p]
      /\ Len(disk) \in Nat /\ offset[p] \in Nat /\ disk \in Seq(BytesOfLines)
  BY <1>4 DEF TypeOK
<1> DEFINE t == Slice(offset[p], offset[p] + n)
<1>6. t \in Seq(BytesOfLines) /\ Len(t) = n
      /\ \A i \in 1..n : t[i] = Byte(offset[p] + i - 1)
  <2>1. (offset[p] + n) - offset[p] = n
    BY <1>5
  <2>2. t = [i \in 1..n |-> Byte(offset[p] + i - 1)]
    BY <2>1 DEF Slice
  <2>3. t \in Seq(BytesOfLines)
    BY <1>5, SliceType
  <2> HIDE DEF t
  <2> QED BY <1>5, <2>2, <2>3
<1>7. disk' = disk \o t
  BY <1>2
<1> HIDE DEF t
<1>8. /\ Len(disk') = Len(disk) + n
      /\ \A i \in 1..Len(disk) : disk'[i] = disk[i]
      /\ \A i \in 1..n : disk'[Len(disk) + i] = t[i]
  <2>1. disk \in Seq(BytesOfLines) /\ t \in Seq(BytesOfLines)
    BY <1>5, <1>6
  <2>2. /\ Len(disk \o t) = Len(disk) + Len(t)
        /\ \A i \in 1..Len(disk) : (disk \o t)[i] = disk[i]
        /\ \A i \in 1..Len(t) : (disk \o t)[Len(disk) + i] = t[i]
    BY <2>1, ConcatAt
  <2>3. Len(t) = n
    BY <1>6
  <2> QED BY <1>7, <2>2, <2>3
<1>9. \A i \in Int : Byte(i)' = Byte(i)
  BY <1>3 DEF Byte
<1>10. /\ offset'[p] = offset[p] + n /\ toWrite'[p] = toWrite[p] - n
       /\ pc'[p] = IF toWrite[p] = n THEN "reset" ELSE "write"
       /\ \A q \in Procs \ {p} : pc'[q] = pc[q]
  BY <1>2 DEF TypeOK
<1>11. Progress(p)'
  <2>1. \A i \in 1..offset'[p] : disk'[Len(disk') - offset'[p] + i] = Byte(i - 1)
    <3> SUFFICES ASSUME NEW i \in 1..(offset[p] + n)
                 PROVE  disk'[(Len(disk) - offset[p]) + i] = Byte(i - 1)
      <4>1. Len(disk') - offset'[p] = Len(disk) - offset[p]
        BY <1>5, <1>8, <1>10
      <4> QED BY <1>10, <4>1
    <3>1. CASE i <= offset[p]
      <4>1. i \in 1..offset[p] /\ (Len(disk) - offset[p]) + i \in 1..Len(disk)
        BY <1>4, <1>5, <3>1
      <4> QED BY <1>4, <1>8, <4>1
    <3>2. CASE i > offset[p]
      <4>1. i - offset[p] \in 1..n /\ offset[p] + (i - offset[p]) - 1 = i - 1
            /\ Len(disk) + (i - offset[p]) = (Len(disk) - offset[p]) + i
        BY <1>5, <3>2
      <4>2. disk'[Len(disk) + (i - offset[p])] = t[i - offset[p]]
        BY <1>8, <4>1
      <4>3. t[i - offset[p]] = Byte(offset[p] + (i - offset[p]) - 1)
        BY <1>6, <4>1
      <4> QED BY <4>1, <4>2, <4>3
    <3> QED BY <1>5, <3>1, <3>2
  <2>2. \A i \in 1..offset'[p] : Byte(i - 1)' = Byte(i - 1)
    BY <1>5, <1>9, <1>10
  <2>3. offset'[p] \in 0..Len(disk') /\ offset'[p] + toWrite'[p] = length'
    <3>1. Len(disk') = Len(disk) + n /\ length' = length
          /\ offset'[p] = offset[p] + n /\ toWrite'[p] = toWrite[p] - n
      BY <1>3, <1>8, <1>10
    <3>2. offset[p] <= Len(disk) /\ offset[p] + toWrite[p] = length
      BY <1>4, <1>5
    <3> QED BY <1>5, <3>1, <3>2
  <2>4. pc'[p] = "reset" => toWrite'[p] = 0
    BY <1>5, <1>10
  <2> QED BY <1>10, <2>1, <2>2, <2>3, <2>4 DEF Progress
<1>12. \A q \in Procs \ {p} : Progress(q)'
  BY <1>3, <1>10 DEF Progress, MutualExclusion, InCS
<1>13. \A l \in Lines : Stands(l) => Stands(l)'
  <2> SUFFICES ASSUME NEW l \in Lines, Stands(l) PROVE Stands(l)'
    OBVIOUS
  <2>1. Occurs(l, disk) => Occurs(l, disk')
    BY <1>5, <1>6, <1>7, OccursGrows
  <2>2. length' = length
    BY <1>3
  <2> QED BY <1>5, <1>9, <2>1, <2>2, StandsStays
<1> QED BY <1>1, <1>3, <1>11, <1>12, <1>13
\* *state->length = 0, once all of the buffer is in the file.
LEMMA ResetLines ==
  ASSUME TypeOK, MutualExclusion, LinesInv, NEW p \in Procs, Reset(p)
  PROVE  LinesInv'
<1> SUFFICES ASSUME errors' = 0
             PROVE  /\ \A q \in Procs : Progress(q)'
                    /\ \A l \in Lines : status'[l] = "returned" => Stands(l)'
  BY DEF LinesInv
<1>1. /\ \A q \in Procs : Progress(q)
      /\ \A l \in Lines : status[l] = "returned" => Stands(l)
  BY DEF LinesInv, Reset
<1>2. /\ pc[p] = "reset" /\ length' = 0 /\ pc' = [pc EXCEPT ![p] = AfterFlush(p)]
      /\ UNCHANGED <<call, mem, disk, offset, toWrite, at, status>>
  BY DEF Reset, locals
<1>3. /\ offset[p] \in 0..Len(disk) /\ offset[p] = length
      /\ \A i \in 1..offset[p] : disk[Len(disk) - offset[p] + i] = Byte(i - 1)
  <2>1. Progress(p) /\ offset[p] \in Int
    BY <1>1 DEF TypeOK
  <2> QED BY <1>2, <2>1 DEF Progress
<1>4. disk \in Seq(BytesOfLines) /\ Len(disk) \in Nat /\ length \in Nat
  BY DEF TypeOK
<1>5. ASSUME NEW l \in Lines, InBuffer(l) PROVE Occurs(l, disk)
  <2>1. PICK i \in 0..(length - LineLen[l]) :
          \A j \in 1..LineLen[l] : Byte(i + j - 1) = <<l, j>>
    BY <1>5 DEF InBuffer
  <2>2. LineLen[l] \in Nat /\ LineLen[l] >= 1
    BY ConstantsOK
  <2> DEFINE k == (Len(disk) - length) + i
  <2>3. k \in 0..(Len(disk) - LineLen[l])
    BY <1>3, <1>4, <2>2
  <2>4. ASSUME NEW j \in 1..LineLen[l] PROVE disk[k + j] = <<l, j>>
    <3>1. i + j \in 1..length /\ k + j = (Len(disk) - length) + (i + j)
      BY <1>4, <2>2
    <3>2. disk[(Len(disk) - length) + (i + j)] = Byte((i + j) - 1)
      BY <1>3, <3>1
    <3> QED BY <2>1, <3>1, <3>2
  <2> HIDE DEF k
  <2> QED BY <1>4, <2>3, <2>4, OccursAt
<1>6. \A l \in Lines : Stands(l) => Stands(l)'
  <2>1. \A l \in Lines : Occurs(l, disk)' <=> Occurs(l, disk)
    BY <1>2 DEF Occurs, Bytes
  <2> QED BY <1>5, <2>1 DEF Stands
<1>7. Progress(p)'
  <2>1. pc'[p] = AfterFlush(p)
    BY <1>2 DEF TypeOK
  <2>2. call' = call
    BY <1>2
  <2> QED BY <1>2, <2>1, <2>2 DEF Progress, AfterFlush
<1>8. \A q \in Procs \ {p} : Progress(q)'
  <2>1. \A q \in Procs \ {p} : pc'[q] = pc[q]
    BY <1>2 DEF TypeOK
  <2> QED BY <1>2, <2>1 DEF Progress, MutualExclusion, InCS
<1> QED BY <1>1, <1>2, <1>6, <1>7, <1>8

\* memcpy() puts the line behind what the buffer holds.
LEMMA CopyLines ==
  ASSUME TypeOK, MutualExclusion, LinesInv, NEW p \in Procs, Copy(p)
  PROVE  LinesInv'
<1> SUFFICES ASSUME errors' = 0
             PROVE  /\ \A q \in Procs : Progress(q)'
                    /\ \A l \in Lines : status'[l] = "returned" => Stands(l)'
  BY DEF LinesInv
<1>1. /\ \A q \in Procs : Progress(q)
      /\ \A l \in Lines : status[l] = "returned" => Stands(l)
  BY DEF LinesInv, Copy
<1> DEFINE dst == length .. (length + LineLen[call[p]] - 1)
<1>2. /\ pc[p] = "copy" /\ at' = [at EXCEPT ![p] = length]
      /\ pc' = [pc EXCEPT ![p] = "bump"]
      /\ mem' = [i \in DOMAIN mem \cup dst |->
                   IF i \in dst THEN Bytes(call[p])[i - length + 1] ELSE mem[i]]
      /\ UNCHANGED <<call, length, disk, status>>
  BY DEF Copy
<1>3. call[p] \in Lines /\ LineLen[call[p]] \in Nat /\ LineLen[call[p]] >= 1
      /\ length \in Nat
  BY <1>2, ConstantsOK DEF TypeOK
<1>4. \A i \in Int : i \notin dst => Byte(i)' = Byte(i)
  BY <1>2 DEF Byte
<1>5. ASSUME NEW j \in 1..LineLen[call[p]]
      PROVE  (length + j - 1) \in dst /\ mem'[length + j - 1] = <<call[p], j>>
             /\ (length + j - 1) \in DOMAIN mem'
  <2>1. (length + j - 1) \in dst /\ (length + j - 1) - length + 1 = j
    BY <1>3
  <2>2. Bytes(call[p])[j] = <<call[p], j>>
    BY DEF Bytes
  <2> HIDE DEF dst
  <2> QED BY <1>2, <2>1, <2>2
<1>6. \A i \in 0..(length - 1) : Byte(i)' = Byte(i)
  BY <1>3, <1>4
<1>7. \A l \in Lines : Stands(l) => Stands(l)'
  <2>1. length' = length /\ disk' = disk
    BY <1>2
  <2> QED BY <1>3, <1>6, <2>1, StandsStays
<1>8. Progress(p)'
  <2>1. pc'[p] = "bump" /\ at'[p] = length /\ call' = call
    BY <1>2 DEF TypeOK
  <2>2. \A j \in 1..LineLen[call[p]] : Byte(length + j - 1)' = <<call[p], j>>
    BY <1>2, <1>5 DEF Byte
  <2>3. \A j \in 1..LineLen[call'[p]] : Byte(at[p] + j - 1)' = <<call'[p], j>>
    BY <1>2, <2>1, <2>2 DEF Byte
  <2> QED BY <2>1, <2>3 DEF Progress
<1>9. \A q \in Procs \ {p} : Progress(q)'
  <2>1. \A q \in Procs \ {p} : pc'[q] = pc[q]
    BY <1>2 DEF TypeOK
  <2> QED BY <1>2, <2>1 DEF Progress, MutualExclusion, InCS
<1> QED BY <1>1, <1>2, <1>7, <1>8, <1>9

\* *length += len makes the line part of the buffer.
LEMMA BumpLines ==
  ASSUME TypeOK, MutualExclusion, RoomInv, LinesInv, NEW p \in Procs, Bump(p)
  PROVE  LinesInv'
<1> SUFFICES ASSUME errors' = 0
             PROVE  /\ \A q \in Procs : Progress(q)'
                    /\ \A l \in Lines : status'[l] = "returned" => Stands(l)'
  BY DEF LinesInv
<1>1. /\ \A q \in Procs : Progress(q)
      /\ \A l \in Lines : status[l] = "returned" => Stands(l)
  BY DEF LinesInv, Bump
<1>2. /\ pc[p] = "bump" /\ pc' = [pc EXCEPT ![p] = "unlock"]
      /\ UNCHANGED <<call, mem, disk, at, status>>
  BY DEF Bump, locals
<1>3. call[p] \in Lines /\ LineLen[call[p]] \in Nat /\ LineLen[call[p]] >= 1
      /\ length \in Nat /\ at[p] = length
  BY <1>2, ConstantsOK DEF TypeOK, RoomInv
<1>4. length' = length + LineLen[call[p]]
  BY <1>3 DEF Bump
<1>5. \A i \in Int : Byte(i)' = Byte(i)
  BY <1>2 DEF Byte
<1>6. \A l \in Lines : Stands(l) => Stands(l)'
  <2>1. disk' = disk /\ length' \in Nat /\ length <= length'
    BY <1>2, <1>3, <1>4
  <2>2. \A i \in 0..(length - 1) : Byte(i)' = Byte(i)
    BY <1>3, <1>5
  <2> QED BY <1>3, <2>1, <2>2, StandsStays
<1>7. Stands(call[p])'
  <2>1. \A j \in 1..LineLen[call[p]] : Byte(length + j - 1) = <<call[p], j>>
    BY <1>1, <1>2, <1>3 DEF Progress
  <2>2. \A j \in 1..LineLen[call[p]] : length + j - 1 \in Int
    BY <1>3
  <2>3. length \in 0..(length' - LineLen[call[p]]) /\ call' = call
    BY <1>2, <1>3, <1>4
  <2>4. InBuffer(call[p])'
    BY <1>5, <2>1, <2>2, <2>3 DEF InBuffer
  <2> QED BY <2>4 DEF Stands
<1>8. Progress(p)'
  <2>1. pc'[p] = "unlock" /\ call' = call
    BY <1>2 DEF TypeOK
  <2> QED BY <1>3, <1>7, <2>1 DEF Progress
<1>9. \A q \in Procs \ {p} : Progress(q)'
  <2>1. \A q \in Procs \ {p} : pc'[q] = pc[q]
    BY <1>2 DEF TypeOK
  <2> QED BY <1>2, <2>1 DEF Progress, MutualExclusion, InCS
<1> QED BY <1>1, <1>2, <1>6, <1>8, <1>9

LEMMA LinesInductive ==
  ASSUME Replacements = {}
  PROVE  Spec => [](TypeOK /\ LinesInv)
<1>1. Init => LinesInv
  BY DEF Init, LinesInv, Progress
<1>2. TypeOK /\ MutualExclusion /\ RoomInv /\ LinesInv /\ [Next]_vars => LinesInv'
  <2> SUFFICES ASSUME TypeOK, MutualExclusion, RoomInv, LinesInv, [Next]_vars
               PROVE  LinesInv'
    OBVIOUS
  <2>1. CASE \E p \in Procs : WriteOut(p) \/ Reset(p) \/ Copy(p) \/ Bump(p)
    BY <2>1, WriteLines, ResetLines, CopyLines, BumpLines
  <2>2. CASE ~ \E p \in Procs : WriteOut(p) \/ Reset(p) \/ Copy(p) \/ Bump(p)
    <3>1. \/ \E c \in Children : Fork(c)
          \/ \E p \in Procs, l \in Lines : Write(p, l)
          \/ \E p \in Procs : \/ Flush(p) \/ WriteError(p) \/ Die(p) \/ Lock(p)
                              \/ SkipFlush(p) \/ StartFlush(p) \/ Unlock(p)
          \/ Destroy \/ UNCHANGED vars
      BY <2>2 DEF Next, Step
    <3>2. UNCHANGED shared
      BY <3>1 DEF Fork, Write, Flush, Destroy, WriteError, Lock, SkipFlush, StartFlush,
                  Unlock, Die, vars, shared
    <3> QED BY <3>1, <3>2, QuietLines
  <2> QED BY <2>1, <2>2
<1> QED BY <1>1, <1>2, TypeInvariant, LockSafety, RoomInductive, PTL DEF Spec

\* Unless a write(2) failed, a line whose write() returned is in the file or in the
\* buffer, whatever processes died (logfile.cpp:100-123).
THEOREM NoLineLost ==
  ASSUME Replacements = {}
  PROVE  Spec => []NoLostLine
<1>1. TypeOK /\ LinesInv => NoLostLine
  <2> SUFFICES ASSUME TypeOK, LinesInv, errors = 0, NEW l \in Lines, InBuffer(l)
               PROVE  Occurs(l, Slice(0, length))
    BY DEF LinesInv, NoLostLine, Stands
  <2>1. length \in Nat /\ length - 0 = length /\ 0 + length = length
    BY DEF TypeOK
  <2> DEFINE s == Slice(0, length)
  <2>2. s \in Seq(BytesOfLines) /\ Len(s) = length
        /\ \A k \in 1..length : s[k] = Byte(k - 1)
    <3>1. s = [k \in 1..length |-> Byte(k - 1)]
      BY <2>1 DEF Slice
    <3>2. s \in Seq(BytesOfLines)
      <4>1. Slice(0, 0 + length) \in Seq(BytesOfLines)
        <5>1. 0 \in Int /\ length \in Nat
          BY <2>1
        <5> QED BY <5>1, SliceType, Zenon
      <4> QED BY <2>1, <4>1
    <3> HIDE DEF s
    <3> QED BY <2>1, <3>1, <3>2
  <2>3. PICK i \in 0..(length - LineLen[l]) :
          \A j \in 1..LineLen[l] : Byte(i + j - 1) = <<l, j>>
    BY DEF InBuffer
  <2>4. LineLen[l] \in Nat
    BY ConstantsOK
  <2>5. \A j \in 1..LineLen[l] : i + j \in 1..length
    BY <2>1, <2>4
  <2> HIDE DEF s
  <2>6. Occurs(l, s)
    <3>1. \A j \in 1..LineLen[l] : s[i + j] = <<l, j>>
      BY <2>2, <2>3, <2>5
    <3> QED BY <2>2, <3>1, OccursAt
  <2> QED BY <2>6 DEF s
<1> QED BY <1>1, LinesInductive, PTL

\* When flush() or destroy() returns and no write(2) failed, the lines whose write()
\* had returned are in the file (LogFile.js:17, logfile.cpp:60-76).
THEOREM FlushSaves ==
  ASSUME Replacements = {}
  PROVE  Spec => []FlushReachesDisk
<1>1. TypeOK /\ LinesInv => FlushReachesDisk
  <2> SUFFICES ASSUME TypeOK, LinesInv, errors = 0, NEW p \in Procs, pc[p] = "unlock",
                      call[p] \in {"flush", "destroy"},
                      NEW l \in Lines, status[l] = "returned"
               PROVE  Occurs(l, disk)
    BY DEF FlushReachesDisk
  <2>1. length = 0
    BY ConstantsOK DEF LinesInv, Progress
  <2>2. LineLen[l] \in Nat /\ LineLen[l] >= 1
    BY ConstantsOK
  <2>3. ~InBuffer(l)
    BY <2>1, <2>2 DEF InBuffer
  <2> QED BY <2>3 DEF LinesInv, Stands
<1> QED BY <1>1, LinesInductive, PTL
-----------------------------------------------------------------------------
(***************************************************************************)
(* The refinement of AtomicLog.  A flush moves bytes from the buffer to    *)
(* the file, which leaves Content as it is; a line joins Content at the    *)
(* step that adds to *length.  A process that dies in a flush, or a        *)
(* write(2) that fails, makes a later flush write bytes twice or not at    *)
(* all: this holds of runs without either.                                 *)
(***************************************************************************)
Flushing(p) == pc[p] \in {"write", "reset"}

\* The lines in the log.
Named == {Content[i][1] : i \in DOMAIN Content}

\* A line is logged once: not before the step of its write() that adds to *length.
OnceInv ==
  /\ \A p \in Procs : call[p] \in Lines =>
       /\ status[call[p]] = "writing"
       /\ pc[p] # "unlock" => call[p] \notin Named
  /\ \A p, q \in Procs : call[p] \in Lines /\ call[q] = call[p] => p = q
  /\ \A l \in Lines : status[l] = "new" => l \notin Named

LEMMA SeqEqual ==
  ASSUME NEW S, NEW s \in Seq(S), NEW t \in Seq(S), Len(s) = Len(t),
         \A i \in 1..Len(s) : s[i] = t[i]
  PROVE  s = t
  OBVIOUS

LEMMA ConcatAssoc ==
  ASSUME NEW S, NEW s \in Seq(S), NEW t \in Seq(S), NEW u \in Seq(S)
  PROVE  (s \o t) \o u = s \o (t \o u)
  OBVIOUS

\* A flush in progress is the only one.
LEMMA FlushedIs ==
  ASSUME MutualExclusion, NEW p \in Procs, Flushing(p)
  PROVE  Flushed = offset[p]
<1> DEFINE r == CHOOSE q \in Procs : pc[q] \in {"write", "reset"}
<1>1. r \in Procs /\ pc[r] \in {"write", "reset"}
  BY DEF Flushing
<1>2. r = p
  BY <1>1 DEF MutualExclusion, InCS, Flushing
<1>3. Flushed = offset[r]
  BY <1>1 DEF Flushed
<1> QED BY <1>2, <1>3

LEMMA FlushedNext ==
  ASSUME MutualExclusion', NEW p \in Procs, Flushing(p)'
  PROVE  Flushed' = offset'[p]
<1> DEFINE r == CHOOSE q \in Procs : pc'[q] \in {"write", "reset"}
<1>1. r \in Procs /\ pc'[r] \in {"write", "reset"}
  BY DEF Flushing
<1>2. r = p
  BY <1>1 DEF MutualExclusion, InCS, Flushing
<1>3. Flushed' = offset'[r]
  BY <1>1 DEF Flushed
<1> QED BY <1>2, <1>3

LEMMA FlushedNone ==
  /\ (\A p \in Procs : ~Flushing(p)) => Flushed = 0
  /\ (\A p \in Procs : ~Flushing(p)') => Flushed' = 0
  BY DEF Flushed, Flushing

\* Slices by position, in this state and in the next.
LEMMA SliceAt ==
  ASSUME TypeOK, NEW a \in Nat, NEW b \in Nat, a <= b
  PROVE  /\ Slice(a, b) \in Seq(BytesOfLines) /\ Len(Slice(a, b)) = b - a
         /\ \A i \in 1..(b - a) : Slice(a, b)[i] = Byte(a + i - 1)
<1>1. b - a \in Nat /\ a + (b - a) = b /\ a \in Int
  OBVIOUS
<1>2. Slice(a, a + (b - a)) \in Seq(BytesOfLines)
  BY <1>1, SliceType, Zenon
<1>3. Slice(a, b) = [i \in 1..(b - a) |-> Byte(a + i - 1)]
  BY DEF Slice
<1>4. Slice(a, b) \in Seq(BytesOfLines)
  BY <1>1, <1>2
<1> HIDE DEF Slice
<1> QED BY <1>1, <1>3, <1>4

\* Steps that leave the memory, the file and the flush in progress alone, or that
\* start one, leave the log alone.
LEMMA ContentStays ==
  ASSUME MutualExclusion, MutualExclusion', UNCHANGED <<length, mem, disk>>,
         \A p \in Procs :
           /\ Flushing(p) => Flushing(p)' /\ offset'[p] = offset[p]
           /\ Flushing(p)' /\ ~Flushing(p) =>
                offset'[p] = 0 /\ \A q \in Procs : ~Flushing(q)
  PROVE  Content' = Content
<1>1. Flushed' = Flushed
  <2>1. CASE \E p \in Procs : Flushing(p)
    BY <2>1, FlushedIs, FlushedNext
  <2>2. CASE \A p \in Procs : ~Flushing(p)
    <3>1. CASE \E p \in Procs : Flushing(p)'
      BY <2>2, <3>1, FlushedNone, FlushedNext
    <3>2. CASE \A p \in Procs : ~Flushing(p)'
      BY <2>2, <3>2, FlushedNone
    <3> QED BY <3>1, <3>2
  <2> QED BY <2>1, <2>2
<1>2. Slice(Flushed, length)' = Slice(Flushed, length)
  BY <1>1 DEF Slice, Byte
<1> QED BY <1>2 DEF Content

\* write(2) moves bytes of the log from the buffer to the file.
LEMMA WritePersists ==
  ASSUME TypeOK, TypeOK', MutualExclusion, MutualExclusion',
         NEW p \in Procs, Progress(p), WriteOut(p)
  PROVE  /\ Content' = Content
         /\ \E n \in Len(disk)..Len(Content) : disk' = SubSeq(Content, 1, n)
<1>1. PICK n \in 1..toWrite[p] :
        /\ disk' = disk \o Slice(offset[p], offset[p] + n)
        /\ offset' = [offset EXCEPT ![p] = @ + n]
        /\ pc' = [pc EXCEPT ![p] = IF toWrite[p] = n THEN "reset" ELSE "write"]
  BY DEF WriteOut
<1>2. /\ pc[p] = "write" /\ UNCHANGED <<length, mem>>
      /\ Flushing(p) /\ Flushing(p)'
  BY <1>1 DEF WriteOut, Flushing, TypeOK
<1> DEFINE o == offset[p]
<1>3. /\ o \in Nat /\ n \in Nat /\ length \in Nat /\ o + n \in Nat /\ o + n <= length
      /\ o <= o + n /\ o <= length /\ Len(disk) \in Nat /\ disk \in Seq(BytesOfLines)
  <2>1. /\ offset[p] \in 0..Len(disk) /\ offset[p] + toWrite[p] = length
        /\ toWrite[p] \in Nat /\ length \in Nat /\ Len(disk) \in Nat
        /\ disk \in Seq(BytesOfLines)
    BY <1>2 DEF Progress, TypeOK
  <2> QED BY <2>1
<1>4. Flushed = o /\ Flushed' = o + n
  BY <1>1, <1>2, FlushedIs, FlushedNext DEF TypeOK
<1> DEFINE u == Slice(o, o + n)
           v == Slice(o + n, length)
           w == Slice(o, length)
<1>5. /\ u \in Seq(BytesOfLines) /\ Len(u) = n /\ \A i \in 1..n : u[i] = Byte(o + i - 1)
      /\ v \in Seq(BytesOfLines) /\ Len(v) = length - (o + n)
      /\ \A i \in 1..(length - (o + n)) : v[i] = Byte((o + n) + i - 1)
      /\ w \in Seq(BytesOfLines) /\ Len(w) = length - o
      /\ \A i \in 1..(length - o) : w[i] = Byte(o + i - 1)
  <2>1. (o + n) - o = n
    BY <1>3
  <2> HIDE DEF o
  <2> QED BY <1>3, <2>1, SliceAt
<1>6. /\ disk' = disk \o u /\ Slice(Flushed, length)' = v /\ Slice(Flushed, length) = w
  <2>1. Slice(Flushed, length)' = v
    BY <1>2, <1>4 DEF Slice, Byte
  <2> QED BY <1>1, <1>4, <2>1
<1> HIDE DEF o, u, v, w
<1>7. u \o v = w
  <2>0. /\ u \o v \in Seq(BytesOfLines) /\ Len(u \o v) = Len(u) + Len(v)
        /\ \A i \in 1..Len(u) : (u \o v)[i] = u[i]
        /\ \A i \in 1..Len(v) : (u \o v)[Len(u) + i] = v[i]
    <3>1. u \in Seq(BytesOfLines) /\ v \in Seq(BytesOfLines)
      BY <1>5
    <3> QED BY <3>1, ConcatAt
  <2>1. u \o v \in Seq(BytesOfLines) /\ Len(u \o v) = Len(w)
    <3>1. Len(u) = n /\ Len(v) = length - (o + n) /\ Len(w) = length - o
      BY <1>5
    <3>2. n + (length - (o + n)) = length - o
      BY <1>3
    <3> QED BY <2>0, <3>1, <3>2
  <2>2. ASSUME NEW i \in 1..Len(w) PROVE (u \o v)[i] = w[i]
    <3>1. CASE i <= n
      <4>1. i \in 1..n /\ i \in 1..(length - o) /\ Len(u) = n
        BY <1>3, <1>5, <3>1
      <4>2. (u \o v)[i] = u[i]
        BY <2>0, <4>1
      <4> QED BY <1>5, <4>1, <4>2
    <3>2. CASE i > n
      <4>1. i - n \in 1..(length - (o + n)) /\ n + (i - n) = i
            /\ (o + n) + (i - n) - 1 = o + i - 1
        BY <1>3, <1>5, <3>2
      <4>2. (u \o v)[n + (i - n)] = v[i - n]
        BY <1>5, <2>0, <4>1
      <4>3. v[i - n] = Byte((o + n) + (i - n) - 1)
        BY <1>5, <4>1
      <4>4. w[i] = Byte(o + i - 1)
        BY <1>5
      <4> QED BY <4>1, <4>2, <4>3, <4>4
    <3> QED BY <1>3, <1>5, <3>1, <3>2
  <2> QED BY <1>5, <2>1, <2>2, SeqEqual
<1>8. Content' = (disk \o u) \o v /\ Content = disk \o w
  BY <1>6 DEF Content
<1>9. Content' = Content
  <2>1. (disk \o u) \o v = disk \o (u \o v)
    <3>1. /\ disk \in Seq(BytesOfLines) /\ u \in Seq(BytesOfLines)
          /\ v \in Seq(BytesOfLines)
      BY <1>3, <1>5
    <3> QED BY <3>1, ConcatAssoc
  <2> QED BY <1>7, <1>8, <2>1
<1>10. disk' = SubSeq(Content, 1, Len(disk) + n)
  <2> DEFINE m == Len(disk) + n
             s == SubSeq(Content, 1, m)
  <2>1. /\ disk \o u \in Seq(BytesOfLines) /\ Len(disk \o u) = m
        /\ Content \in Seq(BytesOfLines) /\ Len(Content) = m + Len(v) /\ Len(v) \in Nat
        /\ \A i \in 1..m : Content[i] = (disk \o u)[i]
    <3>1. disk \o u \in Seq(BytesOfLines) /\ Len(disk \o u) = m
      BY <1>3, <1>5, ConcatAt
    <3>2. Content = (disk \o u) \o v
      BY <1>8, <1>9
    <3>3. /\ Content \in Seq(BytesOfLines) /\ Len(Content) = Len(disk \o u) + Len(v)
          /\ \A i \in 1..Len(disk \o u) : Content[i] = (disk \o u)[i]
      <4>1. v \in Seq(BytesOfLines)
        BY <1>5
      <4> QED BY <3>1, <3>2, <4>1, ConcatAt
    <3>4. Len(v) \in Nat
      BY <1>5
    <3> HIDE DEF m
    <3> QED BY <3>1, <3>3, <3>4
  <2>2. m \in Nat /\ m <= Len(Content)
    BY <1>3, <2>1
  <2> HIDE DEF m
  <2>3. s \in Seq(BytesOfLines) /\ Len(s) = m /\ \A i \in 1..m : s[i] = Content[i]
    BY <2>1, <2>2
  <2> HIDE DEF s
  <2>4. s = disk \o u
    BY <2>1, <2>3, SeqEqual
  <2> QED BY <1>6, <2>4 DEF s, m
<1>11. Len(disk) + n \in Len(disk)..Len(Content)
  <2>1. Len(Content) = Len(disk) + (length - o)
    <3>1. Len(disk \o w) = Len(disk) + Len(w)
      BY <1>3, <1>5, ConcatAt
    <3> QED BY <1>5, <1>8, <3>1
  <2> QED BY <1>3, <2>1
<1> QED BY <1>9, <1>10, <1>11
\* memcpy() touches no byte of the log; the reset and the end of a flush neither.
LEMMA CopyHidden ==
  ASSUME TypeOK, MutualExclusion, MutualExclusion', NEW p \in Procs, Copy(p)
  PROVE  Content' = Content
<1>1. /\ pc[p] = "copy" /\ pc' = [pc EXCEPT ![p] = "bump"]
      /\ UNCHANGED <<length, disk>>
      /\ mem' = [i \in DOMAIN mem \cup (length .. (length + LineLen[call[p]] - 1)) |->
                   IF i \in length .. (length + LineLen[call[p]] - 1)
                     THEN Bytes(call[p])[i - length + 1] ELSE mem[i]]
  BY DEF Copy
<1>2. \A q \in Procs : ~Flushing(q) /\ ~Flushing(q)'
  BY <1>1 DEF MutualExclusion, InCS, Flushing, TypeOK
<1>3. Flushed = 0 /\ Flushed' = 0
  BY <1>2, FlushedNone
<1>4. length \in Nat
  BY DEF TypeOK
<1>5. \A i \in 0..(length - 1) : Byte(i)' = Byte(i)
  BY <1>1, <1>4 DEF Byte
<1>6. Slice(Flushed, length)' = Slice(Flushed, length)
  <2>1. Slice(Flushed, length) = [i \in 1..length |-> Byte(0 + i - 1)]
    BY <1>3, <1>4 DEF Slice
  <2>2. Slice(Flushed, length)' = [i \in 1..length |-> Byte(0 + i - 1)']
    BY <1>1, <1>3, <1>4 DEF Slice
  <2>3. \A i \in 1..length : Byte(0 + i - 1)' = Byte(0 + i - 1)
    BY <1>4, <1>5
  <2> QED BY <2>1, <2>2, <2>3
<1> QED BY <1>1, <1>6 DEF Content

LEMMA ResetHidden ==
  ASSUME TypeOK, TypeOK', MutualExclusion, MutualExclusion',
         NEW p \in Procs, Progress(p), Reset(p)
  PROVE  Content' = Content /\ disk' = disk
<1>1. /\ pc[p] = "reset" /\ length' = 0 /\ disk' = disk /\ mem' = mem
      /\ pc' = [pc EXCEPT ![p] = AfterFlush(p)]
  BY DEF Reset
<1>2. offset[p] = length /\ length \in Nat
  <2>1. offset[p] + toWrite[p] = length /\ toWrite[p] = 0 /\ offset[p] \in Int
        /\ length \in Nat
    BY <1>1 DEF Progress, TypeOK
  <2> QED BY <2>1
<1>3. Flushed = length
  <2>1. Flushing(p)
    BY <1>1 DEF Flushing
  <2> QED BY <1>2, <2>1, FlushedIs
<1>4. Flushed' = 0
  <2>1. \A q \in Procs : ~Flushing(q)'
    <3>1. pc'[p] = AfterFlush(p) /\ \A q \in Procs \ {p} : pc'[q] = pc[q]
      BY <1>1 DEF TypeOK
    <3> QED BY <1>1, <3>1 DEF MutualExclusion, InCS, Flushing, AfterFlush
  <2> QED BY <2>1, FlushedNone
<1>5. Slice(Flushed, length) = Slice(Flushed, length)'
  <2>1. Slice(Flushed, length) = [i \in 1..0 |-> Byte(length + i - 1)]
    BY <1>2, <1>3 DEF Slice
  <2>2. Slice(Flushed, length)' = [i \in 1..0 |-> Byte(0 + i - 1)']
    BY <1>1, <1>4 DEF Slice
  <2> QED BY <2>1, <2>2
<1> QED BY <1>1, <1>5 DEF Content

\* A line joins the log when it is added to *length.
LEMMA BumpAppends ==
  ASSUME TypeOK, TypeOK', MutualExclusion, MutualExclusion', RoomInv,
         NEW p \in Procs, Progress(p), Bump(p)
  PROVE  /\ Content' = Content \o Bytes(call[p]) /\ disk' = disk
         /\ Named' = Named \cup {call[p]}
<1> DEFINE l == call[p]
           n == LineLen[l]
<1>1. /\ pc[p] = "bump" /\ pc' = [pc EXCEPT ![p] = "unlock"]
      /\ UNCHANGED <<mem, disk>>
  BY DEF Bump
<1>2. /\ l \in Lines /\ n \in Nat /\ n >= 1 /\ n < Chunk /\ Chunk \in Nat
      /\ length \in Nat /\ at[p] = length
  BY <1>1, ConstantsOK DEF TypeOK, RoomInv
<1>3. length' = length + n
  BY <1>2 DEF Bump
<1>4. \A q \in Procs : ~Flushing(q) /\ ~Flushing(q)'
  <2> SUFFICES ASSUME NEW q \in Procs PROVE ~Flushing(q) /\ ~Flushing(q)'
    OBVIOUS
  <2>1. pc' = [pc EXCEPT ![p] = "unlock"] /\ DOMAIN pc = Procs
    BY <1>1 DEF TypeOK
  <2>2. q # p => pc[q] \notin {"write", "reset"}
    BY <1>1 DEF MutualExclusion, InCS
  <2>3. pc[q] \notin {"write", "reset"}
    BY <1>1, <2>2
  <2>4. pc'[q] = pc[q] \/ pc'[q] = "unlock"
    BY <2>1
  <2> QED BY <2>3, <2>4 DEF Flushing
<1>5. Flushed = 0 /\ Flushed' = 0
  BY <1>4, FlushedNone
<1>6. \A j \in 1..n : Byte(length + j - 1) = <<l, j>>
  BY <1>1, <1>2 DEF Progress
<1> DEFINE s == Slice(0, length)
           t == Slice(0, length + n)
           b == Bytes(l)
<1>7. /\ s \in Seq(BytesOfLines) /\ Len(s) = length
      /\ \A i \in 1..length : s[i] = Byte(i - 1)
  <2>1. Slice(0, length) \in Seq(BytesOfLines) /\ Len(Slice(0, length)) = length - 0
        /\ \A i \in 1..(length - 0) : Slice(0, length)[i] = Byte(0 + i - 1)
    <3>1. 0 \in Nat /\ length \in Nat /\ 0 <= length
      BY <1>2
    <3> QED BY <3>1, SliceAt
  <2> QED BY <1>2, <2>1
<1>8. /\ t \in Seq(BytesOfLines) /\ Len(t) = length + n
      /\ \A i \in 1..(length + n) : t[i] = Byte(i - 1)
  <2>1. length + n \in Nat /\ 0 <= length + n
    BY <1>2
  <2>2. Slice(0, length + n) \in Seq(BytesOfLines)
        /\ Len(Slice(0, length + n)) = (length + n) - 0
        /\ \A i \in 1..((length + n) - 0) : Slice(0, length + n)[i] = Byte(0 + i - 1)
    BY <2>1, SliceAt
  <2> QED BY <2>1, <2>2
<1>9. b \in Seq(BytesOfLines) /\ Len(b) = n /\ \A j \in 1..n : b[j] = <<l, j>>
  <2>1. b = [j \in 1..n |-> <<l, j>>]
    BY DEF Bytes
  <2>2. \A j \in 1..n : <<l, j>> \in BytesOfLines
    BY <1>2 DEF BytesOfLines
  <2> HIDE DEF b
  <2>3. n \in Nat
    BY <1>2
  <2>4. \A j \in 1..n : b[j] = <<l, j>>
    BY <2>1
  <2>5. b \in [1..n -> BytesOfLines]
    BY <2>1, <2>2
  <2>6. b \in Seq(BytesOfLines)
    BY <2>3, <2>5
  <2>7. Len(b) = n
    BY <2>3, <2>5
  <2> QED BY <2>4, <2>6, <2>7
<1>10. /\ Content = disk \o s /\ Content' = disk \o t /\ disk' = disk
       /\ disk \in Seq(BytesOfLines)
  <2>1. Slice(Flushed, length) = s
    BY <1>5
  <2>2. Slice(Flushed, length)' = t
    BY <1>1, <1>3, <1>5 DEF Slice, Byte
  <2> QED BY <1>1, <2>1, <2>2 DEF Content, TypeOK
<1> HIDE DEF s, t, b, n
<1>11. t = s \o b
  <2>1. /\ s \o b \in Seq(BytesOfLines) /\ Len(s \o b) = Len(s) + Len(b)
        /\ \A i \in 1..Len(s) : (s \o b)[i] = s[i]
        /\ \A i \in 1..Len(b) : (s \o b)[Len(s) + i] = b[i]
    <3>1. s \in Seq(BytesOfLines) /\ b \in Seq(BytesOfLines)
      BY <1>7, <1>9
    <3> QED BY <3>1, ConcatAt
  <2>2. Len(s) = length /\ Len(b) = n /\ Len(t) = length + n
    BY <1>7, <1>8, <1>9
  <2>3. ASSUME NEW i \in 1..Len(t) PROVE t[i] = (s \o b)[i]
    <3>1. t[i] = Byte(i - 1) /\ i \in 1..(length + n)
      BY <1>8, <2>2
    <3>2. CASE i <= length
      <4>1. i \in 1..length
        BY <1>2, <3>1, <3>2
      <4>2. (s \o b)[i] = s[i]
        BY <2>1, <2>2, <4>1
      <4> QED BY <1>7, <3>1, <4>1, <4>2
    <3>3. CASE i > length
      <4>1. i - length \in 1..n /\ length + (i - length) = i
            /\ length + (i - length) - 1 = i - 1
        BY <1>2, <3>1, <3>3
      <4>2. (s \o b)[length + (i - length)] = b[i - length]
        BY <2>1, <2>2, <4>1
      <4>3. b[i - length] = <<l, i - length>>
        BY <1>9, <4>1
      <4>4. Byte(length + (i - length) - 1) = <<l, i - length>>
        BY <1>6, <4>1
      <4> QED BY <3>1, <4>1, <4>2, <4>3, <4>4
    <3>4. i <= length \/ i > length
      <4>1. i \in Nat
        BY <2>2, <1>2
      <4> QED BY <1>2, <4>1
    <3> QED BY <3>2, <3>3, <3>4
  <2>4. t \in Seq(BytesOfLines) /\ Len(t) = Len(s \o b)
    BY <1>8, <2>1, <2>2
  <2> QED BY <2>1, <2>3, <2>4, SeqEqual
<1>12. Content' = Content \o b
  <2>1. s \in Seq(BytesOfLines) /\ b \in Seq(BytesOfLines) /\ disk \in Seq(BytesOfLines)
    BY <1>7, <1>9, <1>10
  <2>2. (disk \o s) \o b = disk \o (s \o b)
    BY <2>1, ConcatAssoc
  <2> QED BY <1>10, <1>11, <2>2
<1>13. Named' = Named \cup {l}
  <2>1. Content \in Seq(BytesOfLines)
    <3>1. s \in Seq(BytesOfLines)
      BY <1>7
    <3> QED BY <1>10, <3>1, ConcatAt
  <2>2. /\ Content \o b \in Seq(BytesOfLines) /\ Len(Content \o b) = Len(Content) + Len(b)
        /\ \A i \in 1..Len(Content) : (Content \o b)[i] = Content[i]
        /\ \A i \in 1..Len(b) : (Content \o b)[Len(Content) + i] = b[i]
    <3>1. b \in Seq(BytesOfLines)
      BY <1>9
    <3> QED BY <2>1, <3>1, ConcatAt
  <2>3. Len(b) = n /\ \A i \in 1..n : b[i][1] = l
    BY <1>9
  <2> DEFINE c == Content \o b
             k == Len(Content)
  <2>4. k \in Nat /\ DOMAIN Content = 1..k /\ DOMAIN c = 1..(k + n)
    BY <1>2, <2>1, <2>2, <2>3
  <2>5. \A i \in 1..k : c[i][1] = Content[i][1]
    BY <2>2
  <2>6. \A i \in 1..n : c[k + i][1] = l
    BY <2>2, <2>3
  <2>7. Named' = {c[i][1] : i \in DOMAIN c}
    BY <1>12 DEF Named
  <2> HIDE DEF c, k
  <2>8. {c[i][1] : i \in 1..(k + n)} = {Content[i][1] : i \in 1..k} \cup {l}
    <3>1. ASSUME NEW i \in 1..(k + n)
          PROVE  c[i][1] \in {Content[j][1] : j \in 1..k} \cup {l}
      <4>1. CASE i <= k
        <5>1. i \in 1..k
          BY <2>4, <4>1
        <5> QED BY <2>5, <5>1
      <4>2. CASE i > k
        <5>1. i - k \in 1..n /\ k + (i - k) = i
          BY <1>2, <2>4, <4>2
        <5> QED BY <2>6, <5>1
      <4> QED BY <1>2, <2>4, <4>1, <4>2
    <3>2. ASSUME NEW i \in 1..k PROVE Content[i][1] \in {c[j][1] : j \in 1..(k + n)}
      <4>1. i \in 1..(k + n)
        BY <1>2, <2>4
      <4> QED BY <2>5, <4>1
    <3>3. l \in {c[j][1] : j \in 1..(k + n)}
      <4>1. k + 1 \in 1..(k + n) /\ 1 \in 1..n
        BY <1>2, <2>4
      <4> QED BY <2>6, <4>1
    <3> QED BY <3>1, <3>2, <3>3
  <2> QED BY <2>4, <2>7, <2>8 DEF Named
<1> QED BY <1>10, <1>12, <1>13 DEF b
-----------------------------------------------------------------------------
\* Runs without failures, in which nobody is killed and the log is not destroyed.
Undisturbed == MaxErrors = 0 /\ Killable = {} /\ MayDestroy = FALSE

Calm == doomed = {} /\ errors = 0

AtomicInv == TypeOK /\ MutualExclusion /\ RoomInv /\ LinesInv /\ Calm

\* The steps that neither write bytes out nor add a line.
LEMMA QuietContent ==
  ASSUME Undisturbed, AtomicInv, AtomicInv', [Next]_vars,
         \A p \in Procs : ~WriteOut(p) /\ ~Reset(p) /\ ~Copy(p) /\ ~Bump(p)
  PROVE  Content' = Content /\ disk' = disk
<1>1. ~Destroy /\ \A p \in Procs : ~WriteError(p)
  BY DEF AtomicInv, Calm, Undisturbed, WriteError, Destroy
<1>2. \A p \in Procs : Die(p) => pc[p] = "idle"
  BY DEF AtomicInv, Calm, Undisturbed, Die
<1>3. CASE \/ \E c \in Children : Fork(c)
           \/ \E p \in Procs, l \in Lines : Write(p, l)
           \/ \E p \in Procs : \/ Flush(p) \/ Die(p) \/ Lock(p) \/ SkipFlush(p)
                               \/ Unlock(p)
  <2>1. UNCHANGED <<length, mem, disk, offset>>
    BY <1>3 DEF Fork, Write, Flush, Lock, SkipFlush, Unlock, Die, shared, locals
  <2>2. PICK p \in Procs, new \in {"idle", "lock", "check", "copy", "unlock", "closed", "dead"} :
          /\ pc' = [pc EXCEPT ![p] = new]
          /\ ~Flushing(p)
    BY <1>2, <1>3 DEF Fork, Write, Flush, Lock, SkipFlush, Unlock, Die, AfterFlush,
                      Flushing, Procs
  <2>3. \A q \in Procs : Flushing(q)' <=> Flushing(q)
    BY <2>2 DEF Flushing, AtomicInv, TypeOK
  <2> QED BY <2>1, <2>3, ContentStays DEF AtomicInv
<1>4. ASSUME NEW p \in Procs, StartFlush(p) PROVE Content' = Content /\ disk' = disk
  <2>1. /\ pc[p] = "check" /\ pc' = [pc EXCEPT ![p] = "write"]
        /\ offset' = [offset EXCEPT ![p] = 0] /\ UNCHANGED <<length, mem, disk>>
    BY <1>4 DEF StartFlush, shared
  <2>2. \A q \in Procs : ~Flushing(q)
    BY <2>1 DEF AtomicInv, MutualExclusion, InCS, Flushing
  <2>3. offset'[p] = 0 /\ \A q \in Procs \ {p} : ~Flushing(q)'
    BY <2>1, <2>2 DEF AtomicInv, TypeOK, Flushing
  <2> QED BY <2>1, <2>2, <2>3, ContentStays DEF AtomicInv
<1>5. CASE UNCHANGED vars
  <2>1. UNCHANGED <<pc, offset, length, mem, disk>>
    BY <1>5 DEF vars
  <2> QED BY <2>1, ContentStays DEF AtomicInv, Flushing
<1> QED BY <1>1, <1>3, <1>4, <1>5 DEF Next, Step

\* Only the step that adds to *length changes the log, and only write(2) the file.
LEMMA ContentSteps ==
  ASSUME Undisturbed, AtomicInv, AtomicInv', [Next]_vars, \A p \in Procs : ~Bump(p)
  PROVE  /\ Content' = Content
         /\ \/ disk' = disk
            \/ \E n \in Len(disk)..Len(Content) : disk' = SubSeq(Content, 1, n)
<1>1. ASSUME NEW p \in Procs, WriteOut(p)
      PROVE  /\ Content' = Content
             /\ \E n \in Len(disk)..Len(Content) : disk' = SubSeq(Content, 1, n)
  BY <1>1, WritePersists DEF AtomicInv, Calm, LinesInv
<1>2. ASSUME NEW p \in Procs, Reset(p) PROVE Content' = Content /\ disk' = disk
  BY <1>2, ResetHidden DEF AtomicInv, Calm, LinesInv
<1>3. ASSUME NEW p \in Procs, Copy(p) PROVE Content' = Content /\ disk' = disk
  BY <1>3, CopyHidden DEF AtomicInv, Copy
<1> QED BY <1>1, <1>2, <1>3, QuietContent

\* Every step is one of AtomicLog, or none.
LEMMA StepMaps ==
  ASSUME Undisturbed, AtomicInv, AtomicInv', OnceInv, [Next]_vars
  PROVE  [Atomic!Next]_Atomic!vars
<1>1. ASSUME NEW p \in Procs, Bump(p) PROVE \E l \in Lines : Atomic!AppendLine(l)
  <2>1. /\ Content' = Content \o Bytes(call[p]) /\ disk' = disk
        /\ Named' = Named \cup {call[p]}
    BY <1>1, BumpAppends DEF AtomicInv, Calm, LinesInv
  <2>2. call[p] \in Lines /\ call[p] \notin Named
    BY <1>1 DEF Bump, AtomicInv, TypeOK, OnceInv
  <2> QED BY <2>1, <2>2 DEF Atomic!AppendLine, Atomic!Bytes, Bytes, Named
<1>2. CASE \A p \in Procs : ~Bump(p)
  <2>1. /\ Content' = Content
        /\ \/ disk' = disk
           \/ \E n \in Len(disk)..Len(Content) : disk' = SubSeq(Content, 1, n)
    BY <1>2, ContentSteps
  <2> QED BY <2>1 DEF Atomic!Persist, Atomic!vars, Atomic!Next
<1> QED BY <1>1, <1>2 DEF Atomic!Next

LEMMA OnceStep ==
  ASSUME Undisturbed, AtomicInv, AtomicInv', OnceInv, [Next]_vars
  PROVE  OnceInv'
<1>1. TypeOK /\ "none" \notin Lines /\ "flush" \notin Lines
  BY ConstantsOK DEF AtomicInv
<1>2. ~Destroy /\ \A p \in Procs : ~WriteError(p) /\ (Die(p) => pc[p] = "idle")
  BY DEF AtomicInv, Calm, Undisturbed, WriteError, Destroy, Die
<1>3. ASSUME NEW p \in Procs, Bump(p) PROVE OnceInv'
  <2>1. Named' = Named \cup {call[p]}
    BY <1>3, BumpAppends DEF AtomicInv, Calm, LinesInv
  <2>2. /\ pc' = [pc EXCEPT ![p] = "unlock"] /\ UNCHANGED <<call, status>>
        /\ call[p] \in Lines
    BY <1>1, <1>3 DEF Bump, TypeOK
  <2> QED BY <1>1, <2>1, <2>2 DEF OnceInv, TypeOK
<1>4. CASE \A p \in Procs : ~Bump(p)
  <2>1. Named' = Named
    BY <1>4, ContentSteps DEF Named
  <2>2. ASSUME NEW p \in Procs, NEW l \in Lines, Write(p, l) PROVE OnceInv'
    <3>1. /\ status[l] = "new" /\ status' = [status EXCEPT ![l] = "writing"]
          /\ call' = [call EXCEPT ![p] = l] /\ pc' = [pc EXCEPT ![p] = "lock"]
      BY <2>2 DEF Write
    <3> QED BY <1>1, <2>1, <3>1 DEF OnceInv, TypeOK
  <2>3. ASSUME NEW p \in Procs, Flush(p) \/ Die(p) PROVE OnceInv'
    <3>1. /\ status' = status
          /\ \E x \in {"flush", "none"} : call' = [call EXCEPT ![p] = x]
          /\ \E x \in {"lock", "dead"} : pc' = [pc EXCEPT ![p] = x]
      BY <2>3 DEF Flush, Die
    <3> QED BY <1>1, <2>1, <3>1 DEF OnceInv, TypeOK
  <2>4. ASSUME NEW p \in Procs, Unlock(p) PROVE OnceInv'
    <3>1. /\ call' = [call EXCEPT ![p] = "none"]
          /\ status' = IF call[p] \in Lines
                         THEN [status EXCEPT ![call[p]] = "returned"] ELSE status
          /\ \E x \in {"idle", "closed"} : pc' = [pc EXCEPT ![p] = x]
      BY <2>4 DEF Unlock
    <3>2. /\ \A q \in Procs \ {p} : call'[q] = call[q] /\ pc'[q] = pc[q]
          /\ call'[p] = "none"
      BY <1>1, <3>1 DEF TypeOK
    <3>3. \A q \in Procs \ {p} : call[q] \in Lines => status'[call[q]] = "writing"
      BY <1>1, <3>1 DEF OnceInv, TypeOK
    <3>4. \A l \in Lines : status'[l] = "new" => status[l] = "new"
      BY <1>1, <3>1 DEF TypeOK
    <3> QED BY <1>1, <2>1, <3>2, <3>3, <3>4 DEF OnceInv
  <2>5. CASE \/ \E c \in Children : Fork(c)
             \/ \E p \in Procs : \/ Lock(p) \/ SkipFlush(p) \/ StartFlush(p)
                                 \/ WriteOut(p) \/ Reset(p) \/ Copy(p)
             \/ UNCHANGED vars
    <3>1. UNCHANGED <<call, status>>
      BY <2>5 DEF Fork, Lock, SkipFlush, StartFlush, WriteOut, Reset, Copy, vars
    <3>2. \/ pc' = pc
          \/ \E p \in Procs : pc[p] # "unlock" /\ \E x : pc' = [pc EXCEPT ![p] = x]
      BY <2>5 DEF Fork, Lock, SkipFlush, StartFlush, WriteOut, Reset, Copy, vars, Procs
    <3>3. \A q \in Procs : pc[q] = "unlock" => pc'[q] = "unlock"
      BY <1>1, <3>2 DEF TypeOK
    <3> QED BY <2>1, <3>1, <3>3 DEF OnceInv
  <2> QED BY <1>2, <1>4, <2>2, <2>3, <2>4, <2>5 DEF Next, Step
<1> QED BY <1>3, <1>4

LEMMA InitContent == Init => Content = <<>>
<1> SUFFICES ASSUME Init PROVE Content = <<>>
  OBVIOUS
<1>1. \A p \in Procs : ~Flushing(p)
  BY DEF Init, Flushing
<1>2. Flushed = 0 /\ length = 0 /\ disk = <<>>
  BY <1>1, FlushedNone DEF Init
<1>3. Slice(Flushed, length) = <<>>
  BY <1>2 DEF Slice
<1> QED BY <1>2, <1>3 DEF Content

LEMMA AtomicInductive ==
  ASSUME Replacements = {}, Undisturbed
  PROVE  Spec => [](AtomicInv /\ OnceInv)
<1>1. Init => Calm
  BY DEF Init, Calm
<1>2. Calm /\ [Next]_vars => Calm'
  <2> SUFFICES ASSUME doomed = {}, errors = 0, [Next]_vars
               PROVE  doomed' = {} /\ errors' = 0
    BY DEF Calm
  <2>1. ~Destroy /\ \A p \in Procs : ~WriteError(p)
    BY DEF Undisturbed, WriteError, Destroy
  <2> QED BY <2>1 DEF Next, Step, Fork, Write, Flush, Lock, SkipFlush, StartFlush,
                      WriteOut, Reset, Copy, Bump, Unlock, Die, vars
<1>3. Spec => []AtomicInv
  <2>1. TypeOK /\ MutualExclusion /\ RoomInv /\ LinesInv /\ Calm => AtomicInv
    BY DEF AtomicInv
  <2> QED BY <1>1, <1>2, <2>1, TypeInvariant, LockSafety, RoomInductive, LinesInductive,
             PTL DEF Spec
<1>4. Init => OnceInv
  <2> SUFFICES ASSUME Init PROVE OnceInv
    OBVIOUS
  <2>1. Named = {}
    BY InitContent DEF Named
  <2>2. \A p \in Procs : call[p] \notin Lines
    BY ConstantsOK DEF Init
  <2> QED BY <2>1, <2>2 DEF OnceInv
<1>5. AtomicInv /\ AtomicInv' /\ OnceInv /\ [Next]_vars => OnceInv'
  BY OnceStep
<1> QED BY <1>3, <1>4, <1>5, PTL DEF Spec

\* The log implements AtomicLog: as long as no process dies inside a call, no
\* write(2) fails and no child is replaced, the processes append whole lines, each
\* once, and the file is a prefix of what they appended (logfile.cpp:11-15, 100-123).
THEOREM Refinement ==
  ASSUME Replacements = {}, Undisturbed
  PROVE  Spec => RefinesAtomicLog
<1>1. Init => Atomic!Init
  <2> SUFFICES ASSUME Init PROVE Atomic!Init
    OBVIOUS
  <2>1. Content = <<>>
    BY InitContent
  <2> QED BY <2>1 DEF Init, Atomic!Init
<1>2. AtomicInv /\ AtomicInv' /\ OnceInv /\ [Next]_vars => [Atomic!Next]_Atomic!vars
  BY StepMaps
<1> QED BY <1>1, <1>2, AtomicInductive, PTL DEF Spec, RefinesAtomicLog, Atomic!Spec
=============================================================================
