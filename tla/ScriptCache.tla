----------------------------- MODULE ScriptCache -----------------------------
(***************************************************************************)
(* The caches of pages in a child: getCachedJst(), getCachedCoffee(),      *)
(* getCachedLess() and getCachedSJS() of src/httpd/child.js over the       *)
(* scripts of src/src/v8.cpp, while someone edits the file.  All four keep *)
(* what they made of the file with a modification time, and make it again  *)
(* when the file's is later; they differ in which time they keep, in what  *)
(* becomes of a page that does not compile, and in that a compiled script  *)
(* has to be freed, where a template and a style sheet are collected.      *)
(*                                                                         *)
(* One page stands for all: the caches have an entry per page and share    *)
(* nothing.  A content of the file is its version, a script is its number  *)
(* in the order of compilation.  Times are whole seconds, so that two      *)
(* edits may have the same one; a file that is restored or copied may get  *)
(* an earlier one; and one that is replaced may be gone for a moment, which *)
(* each call of the lookup may find.                                       *)
(***************************************************************************)
EXTENDS Naturals, Sequences

CONSTANTS
  Kinds,        \* the kinds of page looked at: "jst", "coffee", "less", "sjs"
  Broken,       \* the versions of the file that do not compile
  SameSecond,   \* whether an edit may leave the modification time as it is
  SetBack,      \* whether it may set it back to that of an earlier second
  MayVanish,    \* whether a call may find that the file is gone
  MaxVersion,   \* bound: the last version
  MaxRequests,  \* bound: the requests for the page
  None          \* no entry in the cache

ASSUME ConstantsOK ==
  /\ Kinds \subseteq {"jst", "coffee", "less", "sjs"}
  /\ Broken \subseteq Nat \ {0}
  /\ SameSecond \in BOOLEAN /\ SetBack \in BOOLEAN /\ MayVanish \in BOOLEAN
  /\ MaxVersion \in Nat /\ MaxRequests \in Nat
  /\ None \notin [mtime : Nat, script : Nat]

VARIABLES
  kind,      \* the kind of the page
  file,      \* its version and modification time
  newest,    \* ghost: the latest modification time that it ever had
  hidden,    \* ghost: the file's time is not later than all that it had before
  cache,     \* the time and the script kept, or None
  scripts,   \* the version each script was made from, in order
  frees,     \* for each script, how often v8.freeScript() freed it
  pc,        \* "idle", "read", "compile" or "run"
  failed,    \* ghost: for each script, the compilations that failed while it was kept
  seen,      \* the time the lookup found, 0 if it found no file
  last,      \* ghost: what newest was then
  sure,      \* ghost: and that the file's time was not hidden
  source,    \* the version that was read, 0 if none was
  running,   \* the script the request runs
  started,   \* the version of the file when the request began
  requests   \* counts what the bound bounds

lookup == <<seen, last, sure, source, running, started, requests>>
editor == <<file, newest, hidden>>
vars == <<kind, file, newest, hidden, cache, scripts, frees, failed, pc, seen,
          last, sure, source, running, started, requests>>

\* The pages that v8 compiles to scripts.
Compiled == {"coffee", "sjs"}

Init ==
  /\ kind \in Kinds
  /\ file = [ver |-> 1, mtime |-> 1]
  /\ newest = 1
  /\ hidden = FALSE
  /\ cache = None
  /\ scripts = <<>>
  /\ frees = <<>>
  /\ failed = <<>>
  /\ pc = "idle"
  /\ seen = 0
  /\ last = 0
  /\ sure = TRUE
  /\ source = 0
  /\ running = 0
  /\ started = 1
  /\ requests = 0

-----------------------------------------------------------------------------
\* What the lookup may find: for a file that is gone fs.fileModified() returns
\* false, which is less than every time.  For a .coffee page it is fs.stat().mtime,
\* which throws then.
Found ==
  {file.mtime} \cup (IF MayVanish /\ kind # "coffee" THEN {0} ELSE {})

\* ! (mtime > cached.mtime)
Fresh(m) == cache # None /\ m <= cache.mtime

\* The page is requested, and its modification time m compared with the entry's.
Lookup(m) ==
  /\ pc = "idle" /\ requests < MaxRequests
  /\ seen' = m
  /\ last' = newest
  /\ sure' = ~hidden
  /\ source' = 0
  /\ started' = file.ver
  /\ requests' = requests + 1
  /\ UNCHANGED <<kind, editor, cache, scripts, failed>>

\* The lookup throws: fs.stat() finds no file, or fs.exists() does not.
LookupThrows ==
  /\ pc = "idle" /\ requests < MaxRequests
  /\ MayVanish /\ kind \in {"coffee", "jst"}
  /\ requests' = requests + 1
  /\ UNCHANGED <<kind, editor, cache, scripts, frees, failed, pc, seen, last,
                 sure, source, running, started>>

\* A hit runs what is kept.
Hit ==
  /\ \E m \in Found : Fresh(m) /\ Lookup(m)
  /\ running' = cache.script
  /\ pc' = "run"
  /\ UNCHANGED frees

\* Mutant of Evict: the old script is not freed.
Evict_Leaks == UNCHANGED frees

\* v8.freeScript() of the script that will be replaced.
Evict ==
  frees' = IF cache # None /\ kind \in Compiled
             THEN [frees EXCEPT ![cache.script] = @ + 1]
             ELSE frees

Miss ==
  /\ \E m \in Found : ~Fresh(m) /\ Lookup(m)
  /\ Evict
  /\ pc' = "read"
  /\ UNCHANGED running

\* fs.readFile(), which returns null if the file is gone.
Read ==
  /\ pc = "read"
  /\ source' \in {file.ver} \cup (IF MayVanish THEN {0} ELSE {})
  /\ pc' = "compile"
  /\ UNCHANGED <<kind, editor, cache, scripts, frees, failed, seen, last, sure,
                 running, started, requests>>

\* Mutant of Stamp: every cache asks for the time after it read the file.
Stamp_Late == file.mtime

\* The time kept with the page: the one that was compared, but for a template,
\* for which fs.stat() is called after the file was read.
Stamp == IF kind = "jst" THEN file.mtime ELSE seen

\* Whether what was read can be made a page.  Of no source a .sjs page makes an
\* empty script.  A template is only parsed: its errors are found when it runs.
Sound == IF source = 0 THEN kind = "sjs" ELSE kind = "jst" \/ source \notin Broken

\* Making the page fails; for a template also because the fs.stat() after the
\* read finds no file.
Throws == ~Sound \/ (kind = "jst" /\ MayVanish)

\* The page compiles and replaces the entry.
Compile ==
  /\ pc = "compile" /\ Sound
  /\ scripts' = Append(scripts, source)
  /\ frees' = Append(frees, 0)
  /\ failed' = Append(failed, 0)
  /\ cache' = [mtime |-> Stamp, script |-> Len(scripts) + 1]
  /\ running' = Len(scripts) + 1
  /\ pc' = "run"
  /\ UNCHANGED <<kind, editor, seen, last, sure, source, started, requests>>

\* The failure is noted with the script that is kept.
NoteFailure ==
  failed' = IF cache # None /\ kind \in Compiled
              THEN [failed EXCEPT ![cache.script] = @ + 1]
              ELSE failed

\* Mutant of CompileFails: the entry of a script is stamped with the time of the
\* page that did not compile, so as not to compile that over and over.
CompileFails_Stamped ==
  /\ pc = "compile" /\ Throws
  /\ cache' = IF cache # None /\ kind \in Compiled
                THEN [cache EXCEPT !.mtime = seen] ELSE cache
  /\ NoteFailure
  /\ pc' = "idle"
  /\ UNCHANGED <<kind, editor, scripts, frees, lookup>>

\* Mutant of CompileFails: the entry is replaced all the same, as it would be
\* without the res.stop() after the error page.
CompileFails_Stored ==
  /\ pc = "compile" /\ Throws
  /\ cache' = [mtime |-> seen, script |-> Len(scripts) + 1]
  /\ NoteFailure
  /\ pc' = "idle"
  /\ UNCHANGED <<kind, editor, scripts, frees, lookup>>

\* The page does not compile: an error page, and the entry stays as it is, with
\* its time and its script, which Miss has freed.  For a style sheet the parser
\* only reports the error, and the old sheet is sent if there is one.
CompileFails ==
  /\ pc = "compile" /\ Throws
  /\ NoteFailure
  /\ \/ pc' = "idle" /\ UNCHANGED running
     \/ /\ kind = "less" /\ source # 0 /\ cache # None
        /\ pc' = "run" /\ running' = cache.script
  /\ UNCHANGED <<kind, editor, cache, scripts, frees, seen, last, sure, source,
                 started, requests>>

\* v8.runScript(), or the write of the page, ends.
RunEnds ==
  /\ pc = "run"
  /\ pc' = "idle"
  /\ UNCHANGED <<kind, editor, cache, scripts, frees, failed, lookup>>

\* Someone saves the file, now or in the second of the last save, or puts a copy
\* in its place that has an earlier time (mv, cp -p, a restored backup).
Edit ==
  /\ file.ver < MaxVersion
  /\ \E m \in {newest + 1} \cup (IF SameSecond THEN {file.mtime} ELSE {})
                         \cup (IF SetBack THEN 1..newest ELSE {}) :
       /\ file' = [ver |-> file.ver + 1, mtime |-> m]
       /\ newest' = IF m > newest THEN m ELSE newest
       /\ hidden' = (m <= newest)
  /\ UNCHANGED <<kind, cache, scripts, frees, failed, pc, lookup>>

Next ==
  LookupThrows \/ Hit \/ Miss \/ Read \/ Compile \/ CompileFails \/ RunEnds \/ Edit

Spec == Init /\ [][Next]_vars

-----------------------------------------------------------------------------
Scripts == DOMAIN scripts
Entries == [mtime : Nat, script : Nat \ {0}]

\* Every variable has its type; the entry and the script that runs were made.
TypeOK ==
  /\ kind \in Kinds
  /\ file \in [ver : Nat, mtime : Nat \ {0}]
  /\ newest \in Nat /\ hidden \in BOOLEAN
  /\ cache \in Entries \cup {None}
  /\ scripts \in Seq(Nat)
  /\ frees \in Seq(Nat) /\ Len(frees) = Len(scripts)
  /\ failed \in Seq(Nat) /\ Len(failed) = Len(scripts)
  /\ pc \in {"idle", "read", "compile", "run"}
  /\ seen \in Nat /\ last \in Nat /\ sure \in BOOLEAN
  /\ source \in Nat /\ started \in Nat /\ running \in Nat
  /\ requests \in 0..MaxRequests
  /\ cache # None => cache.script \in Scripts
  /\ pc = "run" => running \in Scripts

\* A script that was freed runs only in a request that found an earlier time than
\* the file once had, or no file: a compilation that fails leaves the freed script
\* with its old time, and nothing but a later one keeps it from being run
\* (child.js:195-200 and 261-284).
NoFreedRun ==
  pc = "run" /\ frees[running] # 0 => seen < last

\* How often each script was freed: once when it left the cache, and once more
\* for every compilation that failed while it was kept, since it stays there to
\* be freed again; no script is left over.
FreesAccounted ==
  kind \in Compiled =>
    \A s \in Scripts :
      frees[s] = failed[s] + IF /\ cache # None /\ cache.script = s
                                /\ pc \notin {"read", "compile"}
                             THEN 0 ELSE 1

\* A request runs a page no older than the file was when the request began,
\* unless that is a style sheet that does not parse.
UpToDate ==
  pc = "run" =>
    \/ scripts[running] >= started
    \/ kind = "less" /\ source \in Broken /\ source >= started

\* The page that runs was made while the file was gone.
MadeOfNothing == scripts[running] = 0

\* UpToDate for the pages that keep the time they compared, if the lookup found a
\* time that no earlier content of the file had.
CompiledUpToDate ==
  pc = "run" /\ kind # "jst" /\ seen = last /\ sure /\ ~MadeOfNothing => UpToDate
=============================================================================
