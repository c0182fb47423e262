------------------------------- MODULE LogFile -------------------------------
(***************************************************************************)
(* The log shared by the server's processes: src/src/logfile.cpp and its   *)
(* wrapper src/modules/LogFile.js, with the order in which lockServer() of *)
(* src/httpd/main.js forks the processes that use it.                      *)
(*                                                                         *)
(* `length' and `mem' are the shared memory, `disk' the file.  Every       *)
(* process opens the file lazily, on its first call, and then flock()s the *)
(* descriptor it has: flock() is a lock of the open file description, so a *)
(* process forked after its parent opened the file shares the parent's     *)
(* lock.  An open file description is named after the process that opened  *)
(* it; fd[p] is the description p's logFd refers to.                       *)
(***************************************************************************)
EXTENDS Integers, Sequences, FiniteSets

CONSTANTS
  Master,       \* the process that constructs the LogFile
  Flusher,      \* the process forked by the constructor
  FirstGen,     \* children forked before the master writes its first line
  Replacements, \* children forked afterwards, each for a child that died
  Killable,     \* processes a signal may end at any step
  Lines,        \* the lines that may be logged, each at most once
  LineLen,      \* LineLen[l] is the number of bytes of line l
  Chunk,        \* LOGFILE_CHUNK_SIZE
  MaxErrors,    \* bound: how many write(2) calls fail
  MayDestroy,   \* whether the master ever destroys the log; lockServer() does not
  Quiet,        \* whether the master, as lockServer(), logs one line and no more
  NoFd          \* logFd = 0, and the holder of a free lock

Children == FirstGen \cup Replacements
Procs == {Master, Flusher} \cup Children

\* Every line is shorter than the buffer: logfile_write() assumes it too.
ASSUME ConstantsOK ==
  /\ Master # Flusher /\ {Master, Flusher} \cap Children = {}
  /\ FirstGen \cap Replacements = {}
  /\ Killable \subseteq Children \cup {Flusher}
  /\ NoFd \notin Procs
  /\ {"flush", "destroy", "none", "stray"} \cap Lines = {}
  /\ Chunk \in Nat \ {0} /\ MaxErrors \in Nat
  /\ MayDestroy \in BOOLEAN /\ Quiet \in BOOLEAN /\ (Quiet => ~MayDestroy)
  /\ LineLen \in [Lines -> 1..(Chunk - 1)]

VARIABLES
  pc,        \* where each process is
  call,      \* the call it is in: a line to write, "flush", "destroy" or "none"
  fd,        \* the open file description of its logFd, or NoFd
  holder,    \* the description that holds the flock, or NoFd
  length,    \* *state->length, in shared memory
  mem,       \* the bytes of logBuffer written so far, by index
  disk,      \* the bytes of the file
  offset, toWrite,  \* locals of flush_logfile(), per process
  at,        \* where memcpy() put a line, per process
  status,    \* per line: "new", "writing", or "returned" from write()
  doomed,    \* processes sent a signal by destroy()
  errors     \* failed write(2) calls so far

shared == <<length, mem, disk>>
locals == <<offset, toWrite, at>>
vars == <<pc, call, fd, holder, length, mem, disk, offset, toWrite, at,
          status, doomed, errors>>

Alive(p) == pc[p] \notin {"unborn", "dead", "closed"}

\* The processes between lock_logfile() and unlock_logfile().
InCS(p) == pc[p] \in {"check", "write", "reset", "copy", "bump", "unlock"}

\* logBuffer[i]; what lies before the buffer is no byte of any line.
Byte(i) == IF i \in DOMAIN mem THEN mem[i] ELSE <<"stray", 0>>

\* logBuffer[from..to-1] as a sequence.
Slice(from, to) == [i \in 1..(to - from) |-> Byte(from + i - 1)]

Bytes(l) == [i \in 1..LineLen[l] |-> <<l, i>>]

-----------------------------------------------------------------------------
\* new LogFile(): the STATE constructor, and the flusher's fork.  No process
\* has opened the file for writing yet.
Init ==
  /\ pc = [p \in Procs |-> IF p \in Children THEN "unborn" ELSE "idle"]
  /\ call = [p \in Procs |-> "none"]
  /\ fd = [p \in Procs |-> NoFd]
  /\ holder = NoFd
  /\ length = 0
  /\ mem = <<>>
  /\ disk = <<>>
  /\ offset = [p \in Procs |-> 0]
  /\ toWrite = [p \in Procs |-> 0]
  /\ at = [p \in Procs |-> 0]
  /\ status = [l \in Lines |-> "new"]
  /\ doomed = {}
  /\ errors = 0

\* lockServer() forks its children; a child has the master's descriptors.
\* The first generation is forked before the master's first write, a
\* replacement after it and after the death of a child.
Fork(c) ==
  /\ pc[c] = "unborn"
  /\ pc[Master] = "idle"
  /\ \/ c \in FirstGen /\ fd[Master] = NoFd
     \/ /\ c \in Replacements
        /\ fd[Master] # NoFd
        /\ Cardinality({d \in Children : pc[d] = "dead"})
             > Cardinality({d \in Replacements : pc[d] # "unborn"})
  /\ pc' = [pc EXCEPT ![c] = "idle"]
  /\ fd' = [fd EXCEPT ![c] = fd[Master]]
  /\ UNCHANGED <<call, holder, shared, locals, status, doomed, errors>>

\* open_logfile(): open the file unless this process has it open, or
\* inherited it open.
Open(p) == fd' = [fd EXCEPT ![p] = IF @ = NoFd THEN p ELSE @]

\* logfile.write(): the master writes its first line only after it has forked
\* the first generation, and lockServer() no other line.
Write(p, l) ==
  /\ pc[p] = "idle" /\ p # Flusher
  /\ p = Master => /\ \A c \in FirstGen : pc[c] # "unborn"
                   /\ Quiet => fd[Master] = NoFd
  /\ status[l] = "new"
  /\ status' = [status EXCEPT ![l] = "writing"]
  /\ call' = [call EXCEPT ![p] = l]
  /\ pc' = [pc EXCEPT ![p] = "lock"]
  /\ Open(p)
  /\ UNCHANGED <<holder, shared, locals, doomed, errors>>

\* logfile.flush(), by the flusher once a second or by the owner of the log.
Flush(p) ==
  /\ pc[p] = "idle" /\ p \in {Master, Flusher}
  /\ p = Master => ~Quiet /\ \A c \in FirstGen : pc[c] # "unborn"
  /\ call' = [call EXCEPT ![p] = "flush"]
  /\ pc' = [pc EXCEPT ![p] = "lock"]
  /\ Open(p)
  /\ UNCHANGED <<holder, shared, locals, status, doomed, errors>>

\* LogFile.destroy(): send the flusher SIGKILL, flush, then delete the STATE.
Destroy ==
  /\ MayDestroy
  /\ pc[Master] = "idle" /\ \A c \in FirstGen : pc[c] # "unborn"
  /\ doomed' = doomed \cup {Flusher}
  /\ call' = [call EXCEPT ![Master] = "destroy"]
  /\ pc' = [pc EXCEPT ![Master] = "lock"]
  /\ Open(Master)
  /\ UNCHANGED <<holder, shared, locals, status, errors>>

-----------------------------------------------------------------------------
\* Mutant of Lock: flock(LOCK_SH), which other holders do not block.
Lock_Shared(p) ==
  /\ pc[p] = "lock"
  /\ holder' = fd[p]
  /\ pc' = [pc EXCEPT ![p] = "check"]
  /\ UNCHANGED <<call, fd, shared, locals, status, doomed, errors>>

\* lock_logfile(): flock(LOCK_EX) waits while another description has the lock.
Lock(p) ==
  /\ pc[p] = "lock"
  /\ holder \in {NoFd, fd[p]}
  /\ holder' = fd[p]
  /\ pc' = [pc EXCEPT ![p] = "check"]
  /\ UNCHANGED <<call, fd, shared, locals, status, doomed, errors>>

\* Mutant of MustFlush: > for >=.
MustFlush_OffByOne(p) == call[p] \in Lines => length + LineLen[call[p]] > Chunk

\* Mutant of MustFlush: flush() also waits until the buffer is nearly full.
MustFlush_Lazy(p) ==
  length + (IF call[p] \in Lines THEN LineLen[call[p]] ELSE 1) >= Chunk

\* Is the buffer to be flushed?  Always in flush(); in write() when the line
\* would not leave a byte free.
MustFlush(p) == call[p] \in Lines => length + LineLen[call[p]] >= Chunk

AfterFlush(p) == IF call[p] \in Lines THEN "copy" ELSE "unlock"

SkipFlush(p) ==
  /\ pc[p] = "check"
  /\ ~MustFlush(p) \/ length = 0
  /\ pc' = [pc EXCEPT ![p] = AfterFlush(p)]
  /\ UNCHANGED <<call, fd, holder, shared, locals, status, doomed, errors>>

\* Mutant of StartFlush: *length is reset before the bytes are written.
StartFlush_ResetFirst(p) ==
  /\ pc[p] = "check"
  /\ MustFlush(p) /\ length # 0
  /\ toWrite' = [toWrite EXCEPT ![p] = length]
  /\ offset' = [offset EXCEPT ![p] = 0]
  /\ pc' = [pc EXCEPT ![p] = "write"]
  /\ length' = 0
  /\ UNCHANGED <<call, fd, holder, mem, disk, at, status, doomed, errors>>

\* flush_logfile(): lseek(), then toWrite = *state->length and offset = 0.
StartFlush(p) ==
  /\ pc[p] = "check"
  /\ MustFlush(p) /\ length # 0
  /\ toWrite' = [toWrite EXCEPT ![p] = length]
  /\ offset' = [offset EXCEPT ![p] = 0]
  /\ pc' = [pc EXCEPT ![p] = "write"]
  /\ UNCHANGED <<call, fd, holder, shared, at, status, doomed, errors>>

\* Mutant of WriteOut: a short write is retried from the start of the buffer.
WriteOut_NoOffset(p) ==
  /\ pc[p] = "write"
  /\ \E n \in 1..toWrite[p] :
       /\ disk' = disk \o Slice(offset[p], offset[p] + n)
       /\ toWrite' = [toWrite EXCEPT ![p] = @ - n]
       /\ pc' = [pc EXCEPT ![p] = IF toWrite[p] = n THEN "reset" ELSE "write"]
  /\ UNCHANGED <<call, fd, holder, length, mem, offset, at, status, doomed,
                 errors>>

\* One write(2) of the loop: it appends some of the bytes asked for.
WriteOut(p) ==
  /\ pc[p] = "write"
  /\ \E n \in 1..toWrite[p] :
       /\ disk' = disk \o Slice(offset[p], offset[p] + n)
       /\ offset' = [offset EXCEPT ![p] = @ + n]
       /\ toWrite' = [toWrite EXCEPT ![p] = @ - n]
       /\ pc' = [pc EXCEPT ![p] = IF toWrite[p] = n THEN "reset" ELSE "write"]
  /\ UNCHANGED <<call, fd, holder, length, mem, at, status, doomed, errors>>

\* A write(2) that fails returns -1, which the loop adds and subtracts as if
\* it were a count.
WriteError(p) ==
  /\ pc[p] = "write" /\ errors < MaxErrors
  /\ errors' = errors + 1
  /\ offset' = [offset EXCEPT ![p] = @ - 1]
  /\ toWrite' = [toWrite EXCEPT ![p] = @ + 1]
  /\ UNCHANGED <<pc, call, fd, holder, shared, at, status, doomed>>

\* Mutant of Reset: the length is taken from the loop's count, one too small.
Reset_FromCount(p) ==
  /\ pc[p] = "reset"
  /\ length' = toWrite[p] - 1
  /\ pc' = [pc EXCEPT ![p] = AfterFlush(p)]
  /\ UNCHANGED <<call, fd, holder, mem, disk, locals, status, doomed, errors>>

\* *state->length = 0.
Reset(p) ==
  /\ pc[p] = "reset"
  /\ length' = 0
  /\ pc' = [pc EXCEPT ![p] = AfterFlush(p)]
  /\ UNCHANGED <<call, fd, holder, mem, disk, locals, status, doomed, errors>>

\* memcpy() to logBuffer[*length].
Copy(p) ==
  /\ pc[p] = "copy"
  /\ LET bytes == Bytes(call[p])
         dst == length .. (length + LineLen[call[p]] - 1)
     IN mem' = [i \in DOMAIN mem \cup dst |->
                  IF i \in dst THEN bytes[i - length + 1] ELSE mem[i]]
  /\ at' = [at EXCEPT ![p] = length]
  /\ pc' = [pc EXCEPT ![p] = "bump"]
  /\ UNCHANGED <<call, fd, holder, length, disk, offset, toWrite, status,
                 doomed, errors>>

\* *length += len, not atomic: it may add to the value memcpy() used.
Bump(p) ==
  /\ pc[p] = "bump"
  /\ \E base \in {length, at[p]} : length' = base + LineLen[call[p]]
  /\ pc' = [pc EXCEPT ![p] = "unlock"]
  /\ UNCHANGED <<call, fd, holder, mem, disk, locals, status, doomed, errors>>

\* unlock_logfile(), and the call returns; destroy() then closes logFd.
Unlock(p) ==
  /\ pc[p] = "unlock"
  /\ holder' = IF holder = fd[p] THEN NoFd ELSE holder
  /\ pc' = [pc EXCEPT ![p] = IF call[p] = "destroy" THEN "closed" ELSE "idle"]
  /\ fd' = [fd EXCEPT ![p] = IF call[p] = "destroy" THEN NoFd ELSE @]
  /\ status' = IF call[p] \in Lines
                 THEN [status EXCEPT ![call[p]] = "returned"] ELSE status
  /\ call' = [call EXCEPT ![p] = "none"]
  /\ UNCHANGED <<shared, locals, doomed, errors>>

\* Mutant of Die: the lock outlives the process, as a lock file would.
Die_KeepsLock(p) ==
  /\ Alive(p)
  /\ \/ p \in Children /\ pc[p] = "idle"
     \/ p \in Killable \cup doomed
  /\ pc' = [pc EXCEPT ![p] = "dead"]
  /\ call' = [call EXCEPT ![p] = "none"]
  /\ fd' = [fd EXCEPT ![p] = NoFd]
  /\ UNCHANGED <<holder, shared, locals, status, doomed, errors>>

\* The end of a process: a child after its last request, or any process a
\* signal reaches.  The kernel releases the lock when the last descriptor of
\* the holding description is closed.
Die(p) ==
  /\ Alive(p)
  /\ \/ p \in Children /\ pc[p] = "idle"
     \/ p \in Killable \cup doomed
  /\ pc' = [pc EXCEPT ![p] = "dead"]
  /\ call' = [call EXCEPT ![p] = "none"]
  /\ fd' = [fd EXCEPT ![p] = NoFd]
  /\ holder' = IF holder = fd[p] /\ \A q \in Procs \ {p} : fd[q] # fd[p]
                 THEN NoFd ELSE holder
  /\ UNCHANGED <<shared, locals, status, doomed, errors>>

\* What a process does on its own once it is in a call.
Step(p) ==
  \/ Lock(p) \/ SkipFlush(p) \/ StartFlush(p) \/ WriteOut(p) \/ Reset(p)
  \/ Copy(p) \/ Bump(p) \/ Unlock(p)

Next ==
  \/ \E c \in Children : Fork(c)
  \/ \E p \in Procs, l \in Lines : Write(p, l)
  \/ \E p \in Procs : Flush(p) \/ WriteError(p) \/ Die(p) \/ Step(p)
  \/ Destroy

Spec == Init /\ [][Next]_vars

\* A process that is running runs, flock() does not pass a waiting process over
\* for ever (the only process that keeps asking sleeps between two requests),
\* the flusher keeps calling flush() and lockServer() keeps forking.
Fairness ==
  /\ \A p \in Procs : WF_vars(Step(p)) /\ SF_vars(Lock(p))
  /\ WF_vars(Flush(Flusher))
  /\ \A c \in Children : WF_vars(Fork(c))

FairSpec == Spec /\ Fairness

-----------------------------------------------------------------------------
BytesOfLines == {<<l, i>> : l \in Lines, i \in 1..Chunk} \cup {<<"stray", 0>>}

\* Every variable has its type.
TypeOK ==
  /\ pc \in [Procs -> {"unborn", "idle", "lock", "check", "write", "reset",
                       "copy", "bump", "unlock", "closed", "dead"}]
  /\ call \in [Procs -> Lines \cup {"flush", "destroy", "none"}]
  /\ \A p \in Procs :
       /\ pc[p] \in {"copy", "bump"} => call[p] \in Lines
       /\ pc[p] \in {"idle", "unborn"} => call[p] = "none"
  /\ fd \in [Procs -> Procs \cup {NoFd}]
  /\ holder \in Procs \cup {NoFd}
  /\ length \in Nat
  /\ DOMAIN mem \subseteq Nat
  /\ \A i \in DOMAIN mem : mem[i] \in BytesOfLines
  /\ disk \in Seq(BytesOfLines)
  /\ offset \in [Procs -> Int]
  /\ toWrite \in [Procs -> Nat]
  /\ at \in [Procs -> Nat]
  /\ status \in [Lines -> {"new", "writing", "returned"}]
  /\ doomed \subseteq {Flusher}
  /\ errors \in 0..MaxErrors

\* No two processes are between lock_logfile() and unlock_logfile(): a write is
\* not interrupted by another's (logfile.cpp:11-15).
MutualExclusion ==
  \A p, q \in Procs : InCS(p) /\ InCS(q) => p = q

\* memcpy() stays inside logBuffer and the length never exceeds it, whatever
\* processes died and whatever write(2) calls failed.
BufferInBounds ==
  /\ length < Chunk
  /\ \A i \in DOMAIN mem : i < Chunk

\* Line l stands whole, its bytes side by side, in the byte sequence s.
Occurs(l, s) ==
  \E i \in 0..(Len(s) - LineLen[l]) : SubSeq(s, i + 1, i + LineLen[l]) = Bytes(l)

\* Unless a write(2) failed, a line whose write() returned is whole in the file
\* or in the buffer that the next flush writes, even if processes die inside any
\* of the calls.
NoLostLine ==
  errors = 0 => \A l \in Lines : status[l] = "returned" =>
    Occurs(l, disk) \/ Occurs(l, Slice(0, length))

\* When flush() or destroy() returns, every line whose write() had returned by
\* then is in the file (LogFile.js:17), unless a write(2) failed.
FlushReachesDisk ==
  errors = 0 => \A p \in Procs :
    pc[p] = "unlock" /\ call[p] \in {"flush", "destroy"} =>
      \A l \in Lines : status[l] = "returned" => Occurs(l, disk)

\* A call of the log returns, or its process ends: a process that dies inside
\* the lock does not leave it locked.
CallsReturn ==
  \A p \in Procs : pc[p] = "lock" ~> pc[p] \in {"idle", "closed", "dead"}

\* A line whose write() returned reaches the file without a further write(): the
\* flusher sees to it.  Nothing replaces a flusher that died, and a failed
\* write(2) may drop the buffer.
LinesReachDisk ==
  \A l \in Lines : status[l] = "returned" ~>
    Occurs(l, disk) \/ pc[Flusher] = "dead" \/ errors > 0

\* Lines are appended whole, in one order and once, and the file is a prefix of
\* them.  The log is the file and what no flush in progress has written yet.
Flushed ==
  IF \E p \in Procs : pc[p] \in {"write", "reset"}
    THEN offset[CHOOSE p \in Procs : pc[p] \in {"write", "reset"}]
    ELSE 0
Content == disk \o Slice(Flushed, length)
Atomic == INSTANCE AtomicLog WITH
  log <- Content,
  logged <- {Content[i][1] : i \in DOMAIN Content}
RefinesAtomicLog == Atomic!Spec
=============================================================================
