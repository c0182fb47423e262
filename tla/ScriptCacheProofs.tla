-------------------------- MODULE ScriptCacheProofs --------------------------
(***************************************************************************)
(* Proofs about ScriptCache, for every set of kinds and of versions that   *)
(* do not compile, and whatever an editor does to the file's time.         *)
(***************************************************************************)
EXTENDS ScriptCache, TLAPS

\* What the actions do to the scripts and their counts: one more of each, or a
\* count that grows.
LEMMA AppendType ==
  ASSUME NEW q \in Seq(Nat), NEW n \in Nat
  PROVE  /\ Append(q, n) \in Seq(Nat)
         /\ Len(Append(q, n)) = Len(q) + 1
         /\ DOMAIN Append(q, n) = 1..Len(q) + 1
         /\ \A s \in DOMAIN q : s \in DOMAIN Append(q, n) /\ Append(q, n)[s] = q[s]
         /\ Append(q, n)[Len(q) + 1] = n
  OBVIOUS

LEMMA ExceptType ==
  ASSUME NEW q \in Seq(Nat), NEW s \in DOMAIN q
  PROVE  /\ [q EXCEPT ![s] = @ + 1] \in Seq(Nat)
         /\ Len([q EXCEPT ![s] = @ + 1]) = Len(q)
         /\ [q EXCEPT ![s] = @ + 1][s] = q[s] + 1
         /\ \A t \in DOMAIN q : t # s => [q EXCEPT ![s] = @ + 1][t] = q[t]
  OBVIOUS

\* The two counts that grow for the script that is kept.
LEMMA EvictType ==
  ASSUME TypeOK, Evict
  PROVE  /\ frees' \in Seq(Nat) /\ Len(frees') = Len(frees)
         /\ cache # None /\ kind \in Compiled => frees'[cache.script] = frees[cache.script] + 1
         /\ \A s \in Scripts : ~(cache # None /\ kind \in Compiled /\ s = cache.script)
                                 => frees'[s] = frees[s]
<1>1. frees \in Seq(Nat) /\ DOMAIN frees = Scripts /\ (cache # None => cache.script \in Scripts)
  BY DEF TypeOK, Scripts
<1>2. CASE cache # None /\ kind \in Compiled
  <2>1. frees' = [frees EXCEPT ![cache.script] = @ + 1]
    BY <1>2 DEF Evict
  <2> QED BY <1>1, <1>2, <2>1, ExceptType
<1>3. CASE ~(cache # None /\ kind \in Compiled)
  BY <1>1, <1>3 DEF Evict
<1> QED BY <1>2, <1>3

LEMMA NoteType ==
  ASSUME TypeOK, NoteFailure
  PROVE  /\ failed' \in Seq(Nat) /\ Len(failed') = Len(failed)
         /\ cache # None /\ kind \in Compiled => failed'[cache.script] = failed[cache.script] + 1
         /\ \A s \in Scripts : ~(cache # None /\ kind \in Compiled /\ s = cache.script)
                                 => failed'[s] = failed[s]
<1>1. failed \in Seq(Nat) /\ DOMAIN failed = Scripts /\ (cache # None => cache.script \in Scripts)
  BY DEF TypeOK, Scripts
<1>2. CASE cache # None /\ kind \in Compiled
  <2>1. failed' = [failed EXCEPT ![cache.script] = @ + 1]
    BY <1>2 DEF NoteFailure
  <2> QED BY <1>1, <1>2, <2>1, ExceptType
<1>3. CASE ~(cache # None /\ kind \in Compiled)
  BY <1>1, <1>3 DEF NoteFailure
<1> QED BY <1>2, <1>3

\* A script is added.
LEMMA CompileType ==
  ASSUME TypeOK, Compile
  PROVE  LET n == Len(scripts) + 1 IN
         /\ scripts' \in Seq(Nat) /\ Len(scripts') = n /\ DOMAIN scripts' = 1..n
         /\ frees' \in Seq(Nat) /\ Len(frees') = n
         /\ failed' \in Seq(Nat) /\ Len(failed') = n
         /\ scripts'[n] = source /\ frees'[n] = 0 /\ failed'[n] = 0
         /\ \A s \in Scripts : frees'[s] = frees[s] /\ failed'[s] = failed[s]
         /\ \A s \in 1..n : s \in Scripts \/ s = n
         /\ n \notin Scripts
         /\ cache' \in Entries /\ cache' # None /\ cache'.script = n /\ running' = n
<1>1. /\ scripts \in Seq(Nat) /\ frees \in Seq(Nat) /\ failed \in Seq(Nat)
      /\ Len(frees) = Len(scripts) /\ Len(failed) = Len(scripts)
      /\ source \in Nat /\ seen \in Nat /\ file.mtime \in Nat
  BY DEF TypeOK
<1>2. /\ scripts' = Append(scripts, source) /\ frees' = Append(frees, 0)
      /\ failed' = Append(failed, 0)
  BY DEF Compile
<1>3. /\ scripts' \in Seq(Nat) /\ Len(scripts') = Len(scripts) + 1
      /\ DOMAIN scripts' = 1..(Len(scripts) + 1) /\ scripts'[Len(scripts) + 1] = source
  BY <1>1, <1>2, AppendType
<1>4. /\ frees' \in Seq(Nat) /\ Len(frees') = Len(scripts) + 1
      /\ frees'[Len(scripts) + 1] = 0
      /\ \A s \in DOMAIN frees : frees'[s] = frees[s]
  BY <1>1, <1>2, AppendType
<1>5. /\ failed' \in Seq(Nat) /\ Len(failed') = Len(scripts) + 1
      /\ failed'[Len(scripts) + 1] = 0
      /\ \A s \in DOMAIN failed : failed'[s] = failed[s]
  BY <1>1, <1>2, AppendType
<1>6. DOMAIN frees = Scripts /\ DOMAIN failed = Scripts /\ Scripts = 1..Len(scripts)
  BY <1>1 DEF Scripts
<1>7. Len(scripts) \in Nat
  BY <1>1
<1>8. /\ cache' = [mtime |-> Stamp, script |-> Len(scripts) + 1]
      /\ running' = Len(scripts) + 1
  BY DEF Compile
<1>9. cache' \in Entries
  BY <1>1, <1>7, <1>8 DEF Entries, Stamp
<1>10. cache' # None
  BY <1>1, <1>7, <1>8, ConstantsOK DEF Stamp
<1>11. \A s \in 1..(Len(scripts) + 1) : s \in Scripts \/ s = Len(scripts) + 1
  BY <1>6, <1>7
<1>12. Len(scripts) + 1 \notin Scripts
  BY <1>6, <1>7
<1> QED BY <1>3, <1>4, <1>5, <1>6, <1>8, <1>9, <1>10, <1>11, <1>12

\* The variables keep their types: child.js never runs or keeps a script that
\* was not compiled.
THEOREM TypeInvariant == Spec => []TypeOK
<1>1. Init => TypeOK
  <2> SUFFICES ASSUME Init PROVE TypeOK
    OBVIOUS
  <2>1. hidden \in BOOLEAN
    BY DEF Init
  <2>2. sure \in BOOLEAN
    BY DEF Init
  <2>3. /\ scripts \in Seq(Nat) /\ frees \in Seq(Nat) /\ failed \in Seq(Nat)
        /\ Len(frees) = Len(scripts) /\ Len(failed) = Len(scripts)
    BY DEF Init
  <2> QED BY <2>1, <2>2, <2>3, ConstantsOK DEF Init, TypeOK
<1>2. TypeOK /\ [Next]_vars => TypeOK'
  <2> SUFFICES ASSUME TypeOK, [Next]_vars PROVE TypeOK'
    OBVIOUS
  <2>A. ASSUME NEW m \in Found, Lookup(m)
        PROVE  /\ seen' \in Nat /\ last' \in Nat /\ sure' \in BOOLEAN /\ source' \in Nat
               /\ started' \in Nat /\ requests' \in 0..MaxRequests
               /\ UNCHANGED <<kind, file, newest, hidden, cache, scripts, failed>>
    <3>1. sure' \in BOOLEAN
      BY <2>A DEF Lookup
    <3> QED BY <2>A, <3>1, ConstantsOK DEF Lookup, Found, TypeOK, editor
  <2>1. CASE Hit
    <3>1. PICK m \in Found : Fresh(m) /\ Lookup(m)
      BY <2>1 DEF Hit
    <3>2. frees' = frees /\ running' = cache.script /\ pc' = "run" /\ cache # None
      BY <2>1, <3>1 DEF Hit, Fresh
    <3>3. cache.script \in Scripts /\ cache.script \in Nat
      BY <3>2 DEF TypeOK, Entries
    <3> QED BY <2>A, <3>1, <3>2, <3>3 DEF TypeOK, Scripts
  <2>2. CASE Miss
    <3>1. PICK m \in Found : ~Fresh(m) /\ Lookup(m)
      BY <2>2 DEF Miss
    <3>2. frees' \in Seq(Nat) /\ Len(frees') = Len(frees)
      BY <2>2, EvictType DEF Miss
    <3> QED BY <2>2, <2>A, <3>1, <3>2 DEF Miss, TypeOK, Scripts
  <2>3. CASE Read
    BY <2>3 DEF Read, TypeOK, Scripts, editor
  <2>4. CASE Compile
    <3>1. /\ kind' = kind /\ file' = file /\ newest' = newest /\ hidden' = hidden
          /\ pc' = "run" /\ seen' = seen /\ last' = last /\ sure' = sure
          /\ source' = source /\ started' = started /\ requests' = requests
      BY <2>4 DEF Compile, editor
    <3>2. Len(scripts) + 1 \in 1..(Len(scripts) + 1) /\ Len(scripts) + 1 \in Nat
      BY DEF TypeOK
    <3> QED BY <2>4, <3>1, <3>2, CompileType DEF TypeOK, Scripts
  <2>5. CASE CompileFails
    <3>1. failed' \in Seq(Nat) /\ Len(failed') = Len(failed)
      BY <2>5, NoteType DEF CompileFails
    <3>2. UNCHANGED <<kind, file, newest, hidden, cache, scripts, frees, seen, last,
                      sure, source, started, requests>>
      BY <2>5 DEF CompileFails, editor
    <3>3. \/ pc' = "idle" /\ running' = running
          \/ cache # None /\ pc' = "run" /\ running' = cache.script
      BY <2>5 DEF CompileFails
    <3>4. cache # None => cache.script \in Scripts /\ cache.script \in Nat
      BY DEF TypeOK, Scripts
    <3> QED BY <3>1, <3>2, <3>3, <3>4 DEF TypeOK, Scripts
  <2>6. CASE RunEnds
    BY <2>6 DEF RunEnds, lookup, editor, TypeOK, Scripts
  <2>7. CASE Edit
    <3>1. file' \in [ver : Nat, mtime : Nat \ {0}] /\ newest' \in Nat
      BY <2>7 DEF Edit, TypeOK
    <3>2. hidden' \in BOOLEAN
      BY <2>7 DEF Edit
    <3> QED BY <2>7, <3>1, <3>2 DEF Edit, lookup, TypeOK, Scripts
  <2>8. CASE LookupThrows
    BY <2>8, ConstantsOK DEF LookupThrows, editor, TypeOK, Scripts
  <2>9. CASE UNCHANGED vars
    BY <2>9 DEF vars, TypeOK, Scripts
  <2> QED BY <2>1, <2>2, <2>3, <2>4, <2>5, <2>6, <2>7, <2>8, <2>9 DEF Next
<1> QED BY <1>1, <1>2, PTL DEF Spec
-----------------------------------------------------------------------------
\* The invariant behind NoFreedRun: an entry whose script was freed is older than
\* a time the file once had, so that a lookup hits it only with an earlier one.
FreedInv ==
  /\ file.mtime <= newest
  /\ kind \notin Compiled => \A s \in Scripts : frees[s] = 0
  /\ cache # None /\ frees[cache.script] # 0 => cache.mtime < newest
  /\ NoFreedRun

\* v8.runScript() gets a script that v8.freeScript() got before only if the lookup
\* found a time older than one the file had, or no file; so never, while times do
\* not go back and the file is always there, whatever stops to compile.
THEOREM FreedSafety == Spec => []NoFreedRun
<1>1. Init => FreedInv
  BY DEF Init, FreedInv, NoFreedRun, Scripts
<1>2. TypeOK /\ FreedInv /\ [Next]_vars => FreedInv'
  <2> SUFFICES ASSUME TypeOK, FreedInv, [Next]_vars PROVE FreedInv'
    OBVIOUS
  <2>0. /\ file.mtime \in Nat /\ newest \in Nat /\ file.mtime <= newest
        /\ cache # None => cache.mtime \in Nat /\ cache.script \in Scripts
        /\ pc = "run" => running \in Scripts
    BY DEF TypeOK, FreedInv, Entries
  <2>1. CASE Hit
    <3>1. PICK m \in Found : Fresh(m) /\ Lookup(m)
      BY <2>1 DEF Hit
    <3>2. /\ cache # None /\ m <= cache.mtime /\ m \in Nat
          /\ seen' = m /\ last' = newest /\ running' = cache.script
          /\ UNCHANGED <<kind, file, newest, cache, scripts, frees>>
      BY <2>0, <2>1, <3>1 DEF Hit, Fresh, Lookup, Found, editor
    <3>3. frees[cache.script] # 0 => m < newest
      BY <2>0, <3>2 DEF FreedInv
    <3> QED BY <3>2, <3>3 DEF FreedInv, NoFreedRun, Scripts
  <2>2. CASE Miss
    <3>1. PICK m \in Found : ~Fresh(m) /\ Lookup(m)
      BY <2>2 DEF Miss
    <3>2. /\ UNCHANGED <<kind, file, newest, cache, scripts>> /\ pc' = "read"
      BY <2>2, <3>1 DEF Miss, Lookup, editor
    <3>3. cache # None => cache.mtime < newest
      BY <2>0, <3>1 DEF Fresh, Found
    <3>4. kind \notin Compiled => \A s \in Scripts : frees'[s] = 0
      BY <2>2, EvictType DEF Miss, FreedInv
    <3> QED BY <3>2, <3>3, <3>4 DEF FreedInv, NoFreedRun, Scripts
  <2>3. CASE Read
    BY <2>3 DEF Read, editor, FreedInv, NoFreedRun, Scripts
  <2>4. CASE Compile
    <3>1. UNCHANGED <<kind, file, newest>>
      BY <2>4 DEF Compile, editor
    <3>2. \A s \in DOMAIN scripts' : kind \notin Compiled => frees'[s] = 0
      BY <2>4, CompileType DEF FreedInv
    <3>3. frees'[cache'.script] = 0 /\ frees'[running'] = 0
      BY <2>4, CompileType
    <3> QED BY <3>1, <3>2, <3>3 DEF FreedInv, NoFreedRun, Scripts
  <2>5. CASE CompileFails
    <3>1. UNCHANGED <<kind, file, newest, cache, scripts, frees>>
      BY <2>5 DEF CompileFails, editor
    <3>2. pc' = "run" => kind = "less" /\ cache # None /\ running' = cache.script
      BY <2>5 DEF CompileFails
    <3>3. pc' = "run" => frees[cache.script] = 0
      BY <2>0, <3>2 DEF FreedInv, Compiled
    <3> QED BY <3>1, <3>2, <3>3 DEF FreedInv, NoFreedRun, Scripts
  <2>6. CASE RunEnds
    BY <2>6 DEF RunEnds, lookup, editor, FreedInv, NoFreedRun, Scripts
  <2>7. CASE Edit
    <3>1. file'.mtime <= newest' /\ newest <= newest' /\ newest' \in Nat
      BY <2>0, <2>7 DEF Edit
    <3>2. UNCHANGED <<kind, cache, scripts, frees, pc, seen, last, running>>
      BY <2>7 DEF Edit, lookup
    <3>3. cache # None /\ frees[cache.script] # 0 => cache.mtime < newest'
      BY <2>0, <3>1 DEF FreedInv
    <3> QED BY <3>1, <3>2, <3>3 DEF FreedInv, NoFreedRun, Scripts
  <2>8. CASE LookupThrows
    BY <2>8 DEF LookupThrows, editor, FreedInv, NoFreedRun, Scripts
  <2>9. CASE UNCHANGED vars
    BY <2>9 DEF vars, FreedInv, NoFreedRun, Scripts
  <2> QED BY <2>1, <2>2, <2>3, <2>4, <2>5, <2>6, <2>7, <2>8, <2>9 DEF Next
<1>3. FreedInv => NoFreedRun
  BY DEF FreedInv
<1> QED BY <1>1, <1>2, <1>3, TypeInvariant, PTL DEF Spec
-----------------------------------------------------------------------------
\* A compiled script is freed once for its replacement and once for every failed
\* compilation while it was kept, which are as many times too often.
THEOREM FreesSafety == Spec => []FreesAccounted
<1>1. Init => FreesAccounted
  BY DEF Init, FreesAccounted, Scripts
<1>2. TypeOK /\ FreesAccounted /\ [Next]_vars => FreesAccounted'
  <2> SUFFICES ASSUME TypeOK, FreesAccounted, [Next]_vars, kind' \in Compiled
               PROVE  FreesAccounted'
    BY DEF FreesAccounted
  <2>0. /\ cache # None => cache.script \in Scripts
        /\ \A s \in Scripts : frees[s] \in Nat /\ failed[s] \in Nat
    BY DEF TypeOK, Scripts
  <2>1. CASE Hit
    BY <2>1 DEF Hit, Lookup, FreesAccounted, Scripts
  <2>2. CASE Miss
    <3>1. /\ UNCHANGED <<kind, cache, scripts, failed>> /\ pc = "idle" /\ pc' = "read"
      BY <2>2 DEF Miss, Lookup
    <3>2. ASSUME NEW s \in Scripts
          PROVE  frees'[s] = failed[s] + 1
      <4>1. CASE cache # None /\ s = cache.script
        <5>1. frees'[s] = frees[s] + 1
          BY <2>2, <3>1, <4>1, EvictType DEF Miss
        <5>2. frees[s] = failed[s] + 0
          BY <3>1, <4>1 DEF FreesAccounted
        <5> QED BY <2>0, <5>1, <5>2
      <4>2. CASE ~(cache # None /\ s = cache.script)
        <5>1. frees'[s] = frees[s]
          BY <2>2, <4>2, EvictType DEF Miss
        <5>2. frees[s] = failed[s] + 1
          BY <3>1, <4>2 DEF FreesAccounted
        <5> QED BY <5>1, <5>2
      <4> QED BY <4>1, <4>2
    <3> QED BY <3>1, <3>2 DEF FreesAccounted, Scripts
  <2>3. CASE Read
    BY <2>3 DEF Read, FreesAccounted, Scripts
  <2>4. CASE Compile
    <3>1. kind' = kind /\ pc = "compile" /\ pc' = "run"
      BY <2>4 DEF Compile
    <3>2. \A s \in Scripts : frees[s] = failed[s] + 1
      BY <3>1 DEF FreesAccounted
    <3>3. ASSUME NEW s \in Scripts
          PROVE  frees'[s] = failed'[s] + 1 /\ s # cache'.script
      BY <2>4, <3>2, CompileType
    <3>4. ASSUME NEW s \in DOMAIN scripts', s \notin Scripts
          PROVE  /\ cache' # None /\ s = cache'.script
                 /\ frees'[s] = failed'[s] + 0
      <4>1. s = Len(scripts) + 1 /\ frees'[s] = 0 /\ failed'[s] = 0
        BY <2>4, <3>4, CompileType
      <4> QED BY <2>4, <4>1, CompileType
    <3> QED BY <3>1, <3>3, <3>4 DEF FreesAccounted, Scripts
  <2>5. CASE CompileFails
    <3>1. UNCHANGED <<kind, cache, scripts, frees>> /\ pc = "compile"
      BY <2>5 DEF CompileFails
    <3>2. pc' = "idle"
      BY <2>5, <3>1 DEF CompileFails, Compiled
    <3>3. ASSUME NEW s \in Scripts
          PROVE  frees[s] = failed'[s] + IF cache # None /\ cache.script = s THEN 0 ELSE 1
      <4>1. frees[s] = failed[s] + 1
        BY <3>1 DEF FreesAccounted
      <4>2. CASE cache # None /\ cache.script = s
        <5>1. failed'[s] = failed[s] + 1
          BY <2>5, <3>1, <4>2, NoteType DEF CompileFails
        <5> QED BY <2>0, <4>1, <4>2, <5>1
      <4>3. CASE ~(cache # None /\ cache.script = s)
        <5>1. failed'[s] = failed[s]
          BY <2>5, <4>3, NoteType DEF CompileFails
        <5> QED BY <4>1, <4>3, <5>1
      <4> QED BY <4>2, <4>3
    <3> QED BY <3>1, <3>2, <3>3 DEF FreesAccounted, Scripts
  <2>6. CASE RunEnds
    BY <2>6 DEF RunEnds, FreesAccounted, Scripts
  <2>7. CASE Edit
    BY <2>7 DEF Edit, FreesAccounted, Scripts
  <2>8. CASE LookupThrows
    BY <2>8 DEF LookupThrows, FreesAccounted, Scripts
  <2>9. CASE UNCHANGED vars
    BY <2>9 DEF vars, FreesAccounted, Scripts
  <2> QED BY <2>1, <2>2, <2>3, <2>4, <2>5, <2>6, <2>7, <2>8, <2>9 DEF Next
<1> QED BY <1>1, <1>2, TypeInvariant, PTL DEF Spec
-----------------------------------------------------------------------------
\* The invariant behind CompiledUpToDate: no entry is later than the latest time
\* of the file, and one as late was made of what the file holds, unless several
\* contents had that time.
TimesInv ==
  kind # "jst" =>
    /\ 1 <= newest /\ file.mtime <= newest
    /\ ~hidden => file.mtime = newest
    /\ cache # None =>
         /\ cache.mtime <= newest
         /\ cache.mtime = newest /\ ~hidden /\ scripts[cache.script] # 0
              => scripts[cache.script] = file.ver
    /\ pc \in {"read", "compile"} => seen <= newest /\ started <= file.ver
    /\ pc = "compile" /\ source # 0 =>
         /\ started <= source /\ source <= file.ver
         /\ seen = newest /\ ~hidden => source = file.ver
    /\ CompiledUpToDate

\* A page that keeps the time it compared is never served older than it was when
\* the request began, if the lookup found a time that is later than those of all
\* earlier contents of the file.
THEOREM UpToDateSafety == Spec => []CompiledUpToDate
<1>1. Init => TimesInv
  BY DEF Init, TimesInv, CompiledUpToDate
<1>2. TypeOK /\ TimesInv /\ [Next]_vars => TimesInv'
  <2> SUFFICES ASSUME TypeOK, TimesInv, [Next]_vars, kind' # "jst"
               PROVE  TimesInv'
    BY DEF TimesInv
  <2>0. /\ file.mtime \in Nat /\ file.ver \in Nat /\ newest \in Nat
        /\ cache # None => cache.mtime \in Nat /\ cache.script \in Scripts
        /\ seen \in Nat /\ started \in Nat /\ source \in Nat
        /\ \A s \in Scripts : scripts[s] \in Nat
    BY DEF TypeOK, Entries, Scripts
  <2>K. kind' = kind
    BY DEF Next, Hit, Miss, Lookup, LookupThrows, Read, Compile, CompileFails, RunEnds,
           Edit, vars
  <2>I. /\ 1 <= newest /\ file.mtime <= newest
        /\ ~hidden => file.mtime = newest
        /\ cache # None =>
             /\ cache.mtime <= newest
             /\ cache.mtime = newest /\ ~hidden /\ scripts[cache.script] # 0
                  => scripts[cache.script] = file.ver
    BY <2>K DEF TimesInv
  <2>1. CASE Hit
    <3>1. PICK m \in Found : Fresh(m) /\ Lookup(m)
      BY <2>1 DEF Hit
    <3>2. /\ seen' = m /\ last' = newest /\ sure' = ~hidden /\ started' = file.ver
          /\ UNCHANGED <<kind, file, newest, hidden, cache, scripts>>
      BY <3>1 DEF Lookup, editor
    <3>3. /\ cache # None /\ m <= cache.mtime /\ m \in Nat
          /\ running' = cache.script /\ pc' = "run"
      BY <2>0, <2>1, <3>1 DEF Hit, Fresh, Found
    <3>4. m = newest /\ ~hidden /\ scripts[cache.script] # 0
            => scripts[cache.script] >= file.ver
      BY <2>0, <2>I, <3>3
    <3>5. CompiledUpToDate'
      BY <3>2, <3>3, <3>4 DEF CompiledUpToDate, MadeOfNothing, UpToDate
    <3> QED BY <2>I, <3>2, <3>3, <3>5 DEF TimesInv
  <2>2. CASE Miss
    <3>1. PICK m \in Found : ~Fresh(m) /\ Lookup(m)
      BY <2>2 DEF Miss
    <3>2. /\ seen' = m /\ started' = file.ver /\ pc' = "read"
          /\ UNCHANGED <<kind, file, newest, hidden, cache, scripts>>
      BY <2>2, <3>1 DEF Miss, Lookup, editor
    <3>3. m <= newest
      BY <2>0, <2>I DEF Found
    <3> QED BY <2>0, <2>I, <3>2, <3>3 DEF TimesInv, CompiledUpToDate
  <2>3. CASE Read
    <3>1. /\ pc = "read" /\ pc' = "compile" /\ source' \in {0, file.ver}
          /\ UNCHANGED <<kind, file, newest, hidden, cache, scripts, seen, started>>
      BY <2>3 DEF Read, editor
    <3>2. seen <= newest /\ started <= file.ver
      BY <2>K, <3>1 DEF TimesInv
    <3> QED BY <2>0, <2>I, <3>1, <3>2 DEF TimesInv, CompiledUpToDate
  <2>4. CASE Compile
    <3>1. /\ pc = "compile" /\ pc' = "run"
          /\ UNCHANGED <<kind, file, newest, hidden, seen, last, sure, source, started>>
      BY <2>4 DEF Compile, editor
    <3>2. /\ cache' # None /\ cache'.script = Len(scripts) + 1
          /\ running' = Len(scripts) + 1 /\ scripts'[Len(scripts) + 1] = source
      BY <2>4, CompileType
    <3>3. cache'.mtime = seen
      BY <2>4, <2>K DEF Compile, Stamp
    <3>4. /\ seen <= newest
          /\ source # 0 => /\ started <= source
                           /\ seen = newest /\ ~hidden => source = file.ver
      BY <2>K, <3>1 DEF TimesInv
    <3>5. source # 0 => source >= started
      BY <2>0, <3>4
    <3>6. CompiledUpToDate'
      BY <3>1, <3>2, <3>5 DEF CompiledUpToDate, MadeOfNothing, UpToDate
    <3> QED BY <2>I, <3>1, <3>2, <3>3, <3>4, <3>6 DEF TimesInv
  <2>5. CASE CompileFails
    <3>1. /\ pc = "compile"
          /\ UNCHANGED <<kind, file, newest, hidden, cache, scripts, seen, source, started>>
      BY <2>5 DEF CompileFails, editor
    <3>2. /\ pc' \in {"idle", "run"}
          /\ pc' = "run" => kind = "less" /\ source # 0 /\ source \in Broken
      BY <2>5 DEF CompileFails, Throws, Sound
    <3>3. source # 0 => source >= started
      BY <2>0, <2>K, <3>1 DEF TimesInv
    <3>4. CompiledUpToDate'
      BY <3>1, <3>2, <3>3 DEF CompiledUpToDate, UpToDate
    <3> QED BY <2>I, <3>1, <3>2, <3>4 DEF TimesInv
  <2>6. CASE RunEnds
    <3>1. pc' = "idle" /\ UNCHANGED <<kind, file, newest, hidden, cache, scripts>>
      BY <2>6 DEF RunEnds, editor
    <3> QED BY <2>I, <3>1 DEF TimesInv, CompiledUpToDate
  <2>7. CASE Edit
    <3>1. PICK m \in Nat :
            /\ file' = [ver |-> file.ver + 1, mtime |-> m]
            /\ newest' = IF m > newest THEN m ELSE newest
            /\ hidden' = (m <= newest)
      BY <2>0, <2>7 DEF Edit
    <3>2. UNCHANGED <<kind, cache, scripts, pc, seen, last, sure, source, running, started>>
      BY <2>7 DEF Edit, lookup
    <3>8. /\ file'.mtime = m /\ file'.ver = file.ver + 1
          /\ m <= newest' /\ newest <= newest' /\ newest' \in Nat
          /\ m > newest => newest' = m
      BY <2>0, <3>1
    <3>9. ~hidden' => m > newest
      <4>1. ~(m <= newest) => m > newest
        BY <2>0
      <4>2. ~hidden' => ~(m <= newest)
        BY <3>1, Zenon
      <4> QED BY <4>1, <4>2
    <3>10. ~hidden' => newest < newest' /\ file'.mtime = newest'
      BY <2>0, <3>8, <3>9
    <3>3. /\ 1 <= newest' /\ file'.mtime <= newest' /\ newest <= newest'
          /\ file'.ver = file.ver + 1
          /\ ~hidden' => file'.mtime = newest' /\ newest < newest'
      BY <2>0, <2>I, <3>8, <3>10
    <3>4. cache # None => cache.mtime <= newest' /\ (~hidden' => cache.mtime # newest')
      <4> SUFFICES ASSUME cache # None
                   PROVE  cache.mtime <= newest' /\ (~hidden' => cache.mtime # newest')
        OBVIOUS
      <4>1. cache.mtime \in Nat /\ cache.mtime <= newest
        BY <2>0, <2>I
      <4>2. cache.mtime <= newest'
        BY <2>0, <3>8, <4>1
      <4>3. newest < newest' => cache.mtime # newest'
        BY <2>0, <3>8, <4>1
      <4> QED BY <3>10, <4>2, <4>3
    <3>5. pc \in {"read", "compile"} =>
            seen <= newest' /\ started <= file'.ver /\ (~hidden' => seen # newest')
      <4>1. pc \in {"read", "compile"} => seen <= newest /\ started <= file.ver
        BY <2>K DEF TimesInv
      <4> QED BY <2>0, <3>3, <3>8, <4>1
    <3>6. pc = "compile" /\ source # 0 => started <= source /\ source <= file'.ver
      <4>1. pc = "compile" /\ source # 0 => started <= source /\ source <= file.ver
        BY <2>K DEF TimesInv
      <4> QED BY <2>0, <3>8, <4>1
    <3>7. CompiledUpToDate'
      BY <2>K, <3>2 DEF TimesInv, CompiledUpToDate, MadeOfNothing, UpToDate
    <3> QED BY <3>2, <3>3, <3>4, <3>5, <3>6, <3>7 DEF TimesInv
  <2>8. CASE LookupThrows
    BY <2>8, <2>I DEF LookupThrows, editor, TimesInv, CompiledUpToDate
  <2>9. CASE UNCHANGED vars
    BY <2>9 DEF vars, TimesInv, CompiledUpToDate, MadeOfNothing, UpToDate
  <2> QED BY <2>1, <2>2, <2>3, <2>4, <2>5, <2>6, <2>7, <2>8, <2>9 DEF Next
<1>3. TimesInv => CompiledUpToDate
  BY DEF TimesInv, CompiledUpToDate
<1> QED BY <1>1, <1>2, <1>3, TypeInvariant, PTL DEF Spec
=============================================================================
