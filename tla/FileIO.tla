-------------------------------- MODULE FileIO --------------------------------
(***************************************************************************)
(* Files read and written as a whole by the processes of a server:         *)
(* fs.readFile(), readFile64(), writeFile(), writeFile64() and unlink() of *)
(* src/src/fs.cpp, with the flock() that three of them take.               *)
(*                                                                         *)
(* A file is an inode; `dir' gives the one that a name has.  A block stands *)
(* for the bytes that one read(2) of readFile() returns, and is named after *)
(* the data it was written from and its place there.  flock() locks an open *)
(* file description: each call has one of its own, so a process waits for  *)
(* what it left open itself as for anybody else's.                         *)
(***************************************************************************)
EXTENDS Naturals, Sequences, FiniteSets

CONSTANTS
  Procs,     \* the processes
  Names,     \* the names of files
  Data,      \* what may be written to a file
  Size,      \* Size[d] is the number of blocks of d
  Allow,     \* what may go wrong: "full" (the disk), "badread" (an error of
             \* read(2)), "kill" (a signal ends a process in a call)
  MaxCalls,  \* bound: the calls
  None       \* no file, no data

ASSUME ConstantsOK ==
  /\ Size \in [Data -> Nat]
  /\ Allow \subseteq {"full", "badread", "kill"}
  /\ MaxCalls \in Nat
  /\ None \notin Nat /\ None \notin Data

VARIABLES
  dir,      \* the inode of each name, or None
  content,  \* the blocks of each inode, in the order they were created
  pc,       \* where each process is in its call
  op,       \* the call it is in, or was in last
  data,     \* what it writes
  ino,      \* the inode it has open
  lock,     \* the lock its description has: "none", "shared", "exclusive"
  want,     \* the size readFile64() asked for
  got,      \* the blocks read
  result,   \* what the last call returned
  leaked,   \* inodes that readFile64() left open and locked, with the process
  last,     \* for each inode, the process that opened it for writing last
  clash,    \* inodes that two calls wrote or read at once without excluding
            \* each other
  calls     \* counts what the bound bounds

files == <<dir, content>>
history == <<last, clash, calls>>
vars == <<dir, content, pc, op, data, ino, lock, want, got, result, leaked,
          last, clash, calls>>

Readers == {"readFile", "readFile64"}
Writers == {"writeFile", "writeFile64"}

\* p has inode i open in a call.
Using(p, i) == pc[p] \in {"lock", "read", "size", "slurp", "write", "unlock"}
                 /\ ino[p] = i

\* p has opened inode i for writing and has yet to write.
ToWrite(p, i) == Using(p, i) /\ op[p] \in Writers /\ pc[p] # "unlock"

Bytes(d) == [j \in 1..Size[d] |-> <<d, j>>]

Init ==
  /\ dir = [n \in Names |-> None]
  /\ content = <<>>
  /\ pc = [p \in Procs |-> "idle"]
  /\ op = [p \in Procs |-> "none"]
  /\ data = [p \in Procs |-> None]
  /\ ino = [p \in Procs |-> 0]
  /\ lock = [p \in Procs |-> "none"]
  /\ want = [p \in Procs |-> 0]
  /\ got = [p \in Procs |-> <<>>]
  /\ result = [p \in Procs |-> "none"]
  /\ leaked = {}
  /\ last = <<>>
  /\ clash = {}
  /\ calls = 0

-----------------------------------------------------------------------------
\* The call of f by p, with d to write.
Begin(p, f, d) ==
  /\ pc[p] = "idle"
  /\ op' = [op EXCEPT ![p] = f]
  /\ data' = [data EXCEPT ![p] = d]
  /\ got' = [got EXCEPT ![p] = <<>>]

\* open() fails: for a reader if there is no such file, for all if they may not.
OpenFails(p, f) ==
  /\ pc[p] = "idle"
  /\ result' = [result EXCEPT ![p] = IF f \in Readers THEN "null" ELSE "false"]
  /\ UNCHANGED <<files, pc, op, data, ino, lock, want, got, leaked, last, clash>>

OpenRead(p, f, name) ==
  /\ dir[name] # None
  /\ Begin(p, f, None)
  /\ ino' = [ino EXCEPT ![p] = dir[name]]
  /\ pc' = [pc EXCEPT ![p] = "lock"]
  /\ result' = [result EXCEPT ![p] = "none"]
  /\ UNCHANGED <<files, lock, want, leaked, last, clash>>

\* Mutant of Truncated: no O_TRUNC.
Truncated_Not(i) == content

\* The contents once inode i is opened with O_TRUNC.
Truncated(i) == [content EXCEPT ![i] = <<>>]

\* open(O_CREAT | O_TRUNC): an existing file is empty from here on, whoever has
\* it locked.  Only writeFile() goes on to lock it.
OpenWrite(p, f, name, d) ==
  LET i == IF dir[name] = None THEN Len(content) + 1 ELSE dir[name] IN
  /\ Begin(p, f, d)
  /\ dir' = [dir EXCEPT ![name] = i]
  /\ content' = IF dir[name] = None THEN Append(content, <<>>) ELSE Truncated(i)
  /\ last' = IF dir[name] = None
               THEN Append(last, p) ELSE [last EXCEPT ![i] = p]
  /\ clash' = IF \E q \in Procs : ToWrite(q, i)
                THEN clash \cup {i} ELSE clash
  /\ ino' = [ino EXCEPT ![p] = i]
  /\ pc' = [pc EXCEPT ![p] = IF f = "writeFile" THEN "lock" ELSE "write"]
  /\ result' = [result EXCEPT ![p] = "none"]
  /\ UNCHANGED <<lock, want, leaked>>

\* fs.unlink(): who has the file open keeps it.
Unlink(p, name) ==
  /\ pc[p] = "idle"
  /\ op' = [op EXCEPT ![p] = "unlink"]
  /\ result' = [result EXCEPT ![p] = IF dir[name] = None THEN "false" ELSE "true"]
  /\ dir' = [dir EXCEPT ![name] = None]
  /\ UNCHANGED <<content, pc, data, ino, lock, want, got, leaked, last, clash>>

-----------------------------------------------------------------------------
Held(i, modes) == \E q \in Procs : ino[q] = i /\ lock[q] \in modes

\* Mutant of LockShared: a reader does not lock the file.
LockShared_Without(p) ==
  /\ pc[p] = "lock" /\ op[p] \in Readers
  /\ pc' = [pc EXCEPT ![p] = IF op[p] = "readFile" THEN "read" ELSE "size"]
  /\ UNCHANGED <<files, op, data, ino, lock, want, got, result, leaked, history>>

\* flock(LOCK_SH) of a reader.
LockShared(p) ==
  /\ pc[p] = "lock" /\ op[p] \in Readers
  /\ ~Held(ino[p], {"exclusive"})
  /\ lock' = [lock EXCEPT ![p] = "shared"]
  /\ pc' = [pc EXCEPT ![p] = IF op[p] = "readFile" THEN "read" ELSE "size"]
  /\ UNCHANGED <<files, op, data, ino, want, got, result, leaked, history>>

\* Mutant of LockExclusive: LOCK_SH, as in the functions around it.
LockExclusive_Shared(p) ==
  /\ pc[p] = "lock" /\ op[p] \in Writers
  /\ ~Held(ino[p], {"exclusive"})
  /\ lock' = [lock EXCEPT ![p] = "shared"]
  /\ pc' = [pc EXCEPT ![p] = "write"]
  /\ UNCHANGED <<files, op, data, ino, want, got, result, leaked, history>>

\* flock(LOCK_EX) of writeFile().
LockExclusive(p) ==
  /\ pc[p] = "lock" /\ op[p] \in Writers
  /\ ~Held(ino[p], {"shared", "exclusive"})
  /\ \A l \in leaked : l.ino # ino[p]
  /\ lock' = [lock EXCEPT ![p] = "exclusive"]
  /\ pc' = [pc EXCEPT ![p] = "write"]
  /\ UNCHANGED <<files, op, data, ino, want, got, result, leaked, history>>

\* Mutant of Return: the descriptor is not closed.
Return_KeepsOpen(p, r) ==
  /\ pc' = [pc EXCEPT ![p] = "idle"]
  /\ want' = [want EXCEPT ![p] = 0]
  /\ result' = [result EXCEPT ![p] = r]
  /\ UNCHANGED lock

\* The call of p returns r, after close() and with it the end of its lock.
Return(p, r) ==
  /\ pc' = [pc EXCEPT ![p] = "idle"]
  /\ lock' = [lock EXCEPT ![p] = "none"]
  /\ want' = [want EXCEPT ![p] = 0]
  /\ result' = [result EXCEPT ![p] = r]

\* A turn of the loop of readFile().
ReadBlock(p) ==
  /\ pc[p] = "read"
  /\ Len(got[p]) < Len(content[ino[p]])
  /\ got' = [got EXCEPT ![p] = Append(@, content[ino[p]][Len(@) + 1])]
  /\ UNCHANGED <<files, pc, op, data, ino, lock, want, result, leaked, history>>

\* read(2) returns 0.
ReadEnds(p) ==
  /\ pc[p] = "read"
  /\ Len(got[p]) >= Len(content[ino[p]])
  /\ Return(p, "contents")
  /\ UNCHANGED <<files, op, data, ino, got, leaked, history>>

\* readFile64(): lseek() to the end.
AskSize(p) ==
  /\ pc[p] = "size"
  /\ want' = [want EXCEPT ![p] = Len(content[ino[p]])]
  /\ pc' = [pc EXCEPT ![p] = "slurp"]
  /\ UNCHANGED <<files, op, data, ino, lock, got, result, leaked, history>>

\* readFile64(): one read(2) of the whole.
Slurp(p) ==
  /\ pc[p] = "slurp"
  /\ want[p] = Len(content[ino[p]])
  /\ got' = [got EXCEPT ![p] = content[ino[p]]]
  /\ Return(p, "contents")
  /\ UNCHANGED <<files, op, data, ino, leaked, history>>

\* A file that got longer since is read up to the size asked for.
SlurpPart(p) ==
  /\ pc[p] = "slurp"
  /\ want[p] < Len(content[ino[p]])
  /\ got' = [got EXCEPT ![p] = SubSeq(content[ino[p]], 1, want[p])]
  /\ Return(p, "contents")
  /\ UNCHANGED <<files, op, data, ino, leaked, history>>

\* A file that got shorter since, or an error of read(2): null, and the
\* descriptor stays open and locked.
SlurpFails(p) ==
  /\ pc[p] = "slurp"
  /\ want[p] > Len(content[ino[p]]) \/ ("badread" \in Allow /\ want[p] > 0)
  /\ leaked' = leaked \cup {[by |-> p, ino |-> ino[p]]}
  /\ Return(p, "null")
  /\ UNCHANGED <<files, op, data, ino, got, history>>

\* Mutant of Outcome: a short write is a success.
Outcome_Any(p, n) == "true"

\* What writeFile() returns after write(2) wrote n blocks.
Outcome(p, n) == IF n = Size[data[p]] THEN "true" ELSE "false"

\* write(2): of all blocks, or of some when the disk is full.
WriteOut(p) ==
  /\ pc[p] = "write"
  /\ \E n \in (IF "full" \in Allow THEN 0..Size[data[p]] ELSE {Size[data[p]]}) :
       LET i == ino[p]
           old == content[i]
           new == [j \in 1..(IF n > Len(old) THEN n ELSE Len(old)) |->
                     IF j <= n THEN <<data[p], j>> ELSE old[j]]
       IN /\ content' = [content EXCEPT ![i] = new]
          /\ IF op[p] = "writeFile"
               THEN /\ pc' = [pc EXCEPT ![p] = "unlock"]
                    /\ result' = [result EXCEPT ![p] = Outcome(p, n)]
                    /\ UNCHANGED <<lock, want, clash>>
               ELSE /\ Return(p, Outcome(p, n))
                    /\ clash' = IF \E q \in Procs \ {p} : Using(q, i)
                                  THEN clash \cup {i} ELSE clash
  /\ UNCHANGED <<dir, op, data, ino, got, leaked, last, calls>>

\* flock(LOCK_UN) and close() of writeFile().
Unlock(p) ==
  /\ pc[p] = "unlock"
  /\ Return(p, result[p])
  /\ UNCHANGED <<files, op, data, ino, got, leaked, history>>

-----------------------------------------------------------------------------
\* The end of a process: between calls, by a signal, or because readFile()
\* appends -1 bytes when read(2) fails.  The kernel closes what it has open.
Die(p) ==
  /\ \/ pc[p] = "idle"
     \/ "kill" \in Allow /\ pc[p] # "dead"
     \/ "badread" \in Allow /\ pc[p] = "read"
  /\ pc' = [pc EXCEPT ![p] = "dead"]
  /\ op' = [op EXCEPT ![p] = "none"]
  /\ data' = [data EXCEPT ![p] = None]
  /\ ino' = [ino EXCEPT ![p] = 0]
  /\ want' = [want EXCEPT ![p] = 0]
  /\ got' = [got EXCEPT ![p] = <<>>]
  /\ result' = [result EXCEPT ![p] = "none"]
  /\ lock' = [lock EXCEPT ![p] = "none"]
  /\ leaked' = {l \in leaked : l.by # p}
  /\ UNCHANGED <<files, history>>

\* A call by the application, on one of `names' and with one of `ds' to write.
Call(p, names, ds) ==
  /\ calls < MaxCalls
  /\ calls' = calls + 1
  /\ \/ \E f \in Readers \cup Writers : OpenFails(p, f)
     \/ \E f \in Readers, name \in names : OpenRead(p, f, name)
     \/ \E f \in Writers, name \in names, d \in ds : OpenWrite(p, f, name, d)
     \/ \E name \in names : Unlink(p, name)

\* What a process does on its own once it is in a call.
Step(p) ==
  \/ LockShared(p) \/ LockExclusive(p) \/ ReadBlock(p) \/ ReadEnds(p)
  \/ AskSize(p) \/ Slurp(p) \/ SlurpPart(p) \/ SlurpFails(p) \/ WriteOut(p) \/ Unlock(p)

Next == \E p \in Procs : Call(p, Names, Data) \/ Step(p) \/ Die(p)

Spec == Init /\ [][Next]_vars

-----------------------------------------------------------------------------
Blocks == Data \X Nat

\* Where a process reads or writes with a lock.
Reading(p) == pc[p] \in {"read", "size", "slurp"}
Writing(p) == op[p] = "writeFile" /\ pc[p] \in {"write", "unlock"}

\* Every variable has its type, and the lock of a call is the one it asked for.
TypeOK ==
  /\ dir \in [Names -> DOMAIN content \cup {None}]
  /\ content \in Seq(Seq(Blocks))
  /\ pc \in [Procs -> {"idle", "lock", "read", "size", "slurp", "write",
                       "unlock", "dead"}]
  /\ op \in [Procs -> Readers \cup Writers \cup {"unlink", "none"}]
  /\ data \in [Procs -> Data \cup {None}]
  /\ ino \in [Procs -> DOMAIN content \cup {0}]
  /\ lock \in [Procs -> {"none", "shared", "exclusive"}]
  /\ want \in [Procs -> Nat]
  /\ got \in [Procs -> Seq(Blocks)]
  /\ result \in [Procs -> {"none", "null", "true", "false", "contents"}]
  /\ leaked \subseteq [by : Procs, ino : DOMAIN content]
  /\ last \in Seq(Procs) /\ Len(last) = Len(content)
  /\ clash \subseteq DOMAIN content
  /\ calls \in 0..MaxCalls
  /\ \A p \in Procs :
       /\ pc[p] \in {"write", "unlock"} => op[p] \in Writers
       /\ pc[p] = "lock" => op[p] \in Readers \cup {"writeFile"}
       /\ op[p] \in Writers /\ pc[p] \notin {"idle", "dead"} => data[p] \in Data
       /\ pc[p] \notin {"idle", "dead"} => ino[p] # 0
       /\ lock[p] = IF Reading(p) THEN "shared"
                    ELSE IF Writing(p) THEN "exclusive" ELSE "none"
       /\ Reading(p) => op[p] \in Readers

\* While writeFile() writes a file, nobody else reads it or writes it with
\* writeFile(), and no descriptor that was left open has it locked.
WritesAlone ==
  \A p \in Procs : Writing(p) =>
    /\ \A q \in Procs \ {p} : ino[q] = ino[p] => ~Reading(q) /\ ~Writing(q)
    /\ \A l \in leaked : l.ino # ino[p]

IsPart(s, d) == Len(s) <= Size[d] /\ \A j \in DOMAIN s : s[j] = <<d, j>>
IsOneVersion(s) == s = <<>> \/ \E d \in Data : IsPart(s, d)

\* A file, and what a reader has collected of it block by block, is the beginning
\* of one thing that was written: a writer may empty a file under the hands of a
\* reader and does not fill it.  Except for the files that two writers had open
\* at once, or that writeFile64() wrote, without a lock, while they were open.
OneVersion ==
  /\ \A i \in DOMAIN content \ clash : IsOneVersion(content[i])
  /\ \A p \in Procs :
       op[p] \in Readers /\ ino[p] \notin clash => IsOneVersion(got[p])

\* When writeFile() returned true, the file is what it wrote until the next
\* call opens it, unless another writer had it open meanwhile.
WriteStays ==
  \A p \in Procs :
    op[p] = "writeFile" /\ result[p] = "true" /\ ino[p] \notin clash
      /\ last[ino[p]] = p => content[ino[p]] = Bytes(data[p])

\* A call that waits for a lock gets it, unless a readFile64() that failed left
\* the file locked.
CallsReturn ==
  \A p \in Procs :
    pc[p] = "lock" ~> pc[p] # "lock" \/ \E l \in leaked : l.ino = ino[p]
=============================================================================
