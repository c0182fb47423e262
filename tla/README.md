# SilkJS in TLA+

Models of the parts of SilkJS where processes, crashes and the order of calls matter: the HTTP server
under `src/httpd` with the native objects it stands on (`src/src`). Paths below are relative to the
repository; "the child" is one of the server's worker processes.

## 1. Inventory

| Component | State | Operations | Interacts with | What is hard | What makes it correct |
|---|---|---|---|---|---|
| Log (`src/logfile.cpp`, `modules/LogFile.js`) | buffer and length in shared memory, the file, one lazily opened descriptor per process | write, flush, destroy, the flusher's loop | every process of the server, the kernel's `flock()` | interleaving, inherited locks, deaths in the locked section, short and failed writes | whole lines, each once, none lost after `write()` returned, the file catches up |
| Master (`httpd/main.js`, `lockServer`) | `children`, the kernel's process table | fork, wait, fork again | children, log | failed forks, reused pids, children dying at any point | the table is the kernel's; the pool is restored; a child has of root only what the kernel would not let it give up |
| Accept loop (`httpd/child.js`) | the lock around `accept()`, `requestsHandled` | lock, accept, unlock, serve, exit | siblings through the lock | which description `flock()` locks; death while holding it | one child in `accept()`; every connection is accepted |
| Request loop (`httpd/child.js`, `response.js`, `buffer.cpp`) | `keepAlive`, response buffer, `headersSent`, watchdog | req.init, res.init, handlers, errorHandler, endRequest, flush, close | handlers of the application, client | exceptions at any call, failed and blocked writes, state kept across requests and connections | own bytes only; kept connections are parseable; every request ends |
| Request (`httpd/request.js`, `src/http.cpp`) | stream with a 4096 byte buffer | readHeaders, readPost, readMime | client | five second timeouts in the middle of a request, that start anew with every read; memory of earlier bodies | where one request ends, the next begins |
| Page caches (`child.js`, `src/v8.cpp`) | cache per kind, compiled scripts | look up, compile, free | files changed by others | file changes between the reads; compile errors | a freed script runs, and is freed again, only where a failed compile left it; changes are seen |
| Templates (`lib/Jst.js`) | `jst_html`, shared by nested pages | parse, execute, include | response | exceptions of `res.stop()` caught inside | output of one page only |
| Files (`src/fs.cpp`) | file contents and locks | readFile, readFile64, writeFile, writeFile64, unlink | other processes | truncation before the lock, a writer without one, descriptors left open, short writes | a reader sees one version; a write that returned true stays |
| Mail (`modules/Mail.js`) | a file in `/tmp` per mail | send | files, sendmail | plain mails share one file | the mail that is sent is the mail |
| Modules (`builtin/require.js`) | module cache, directory stack | require | modules, pages | cycles, exceptions in a module, falsy exports | a module runs once and with its directory; what a failure leaves is known |
| SQL (`src/mysql.cpp`, `modules/MySQL.js`) | connection, open transaction | connect, update, startTransaction, commit, rollback, the ping before each | handlers, server | silent reconnects, lost answers, requests that leave a transaction open | a transaction is committed as a whole or not at all, as its caller was told |
| Lists (`modules/List.js`) | a ring of nodes | add, remove | – | pointers | the ring is the sequence |

`PROJECT.json` lists these and the parts that are not modelled with the reason. In short: bindings of C
libraries (cairo, gd, curl, ssh2, ...) and wrappers of system calls have no control of their own;
vendored JavaScript, assets, examples and tests are not the program; `masterServer()` in `main.js` is
called by nothing.

## 2. Modules

    AtomicLog        what the log promises
      ^ RefinesAtomicLog
    LogFile          the log: shared buffer, locks, forks          MCLogFile, LogFileProofs
    LockServer       master, accept lock, pool                     MCLockServer, LockServerProofs
    Connection       what a child promises its clients
      ^ RefinesConnection
    HttpChild        requests and responses of one child           MCHttpChild, HttpChildProofs
    RequestStream    requests cut out of what clients send         MCRequestStream, RequestStreamProofs
    ScriptCache      the caches of pages in a child                MCScriptCache, ScriptCacheProofs
    FileIO           whole files, read and written with locks
      ^ EXTENDS
    Mail             mails over files and sendmail                 MCMail, MailProofs
    SqlSession       transactions of the requests of a child       MCSqlSession, SqlSessionProofs
    Require          the module loader                             MCRequire, RequireProofs

`LockServer.Serve` is one step: everything `HttpChild` does between `Accept` and `Close`.
`LockServer.Crash` is every end of a child that `HttpChild` shows: `ErrorExit`, `WatchdogFires`,
`BrokenPipe`, and signals. `LogFile` has the processes of `LockServer` as the users of the log, with the
order of forks that `lockServer()` has (`Fork`). `RequestStream` opens what `HttpChild` has as the outcomes
of req.init(): `NoHeaders`, `NullByte` are `HttpChild.ReadNothing`, a head without uri and `Reject` are
`ReadThrows`, `Handle` is `ReadRequest` and all that follows. `ScriptCache` is what a handler for a page does
before it writes; its `CompileFails` ends in `HttpChild.Stop` or `Throw`. `Mail` composes `FileIO`: each
step of a process in `send()` is a step of FileIO, of sendmail, or of the two calls between. `SqlSession` and
`Require` are what handlers of `HttpChild` do besides responding: `SqlSession.Request` to `EndRequest` or the
uncaught exception is one stay in "handle", and the exception that `Require.Leaves` lets through is
`HttpChild.Throw`.

**LogFile.** One action per step of `logfile_write()` and `logfile_flush()` that another process can see:
`Write`/`Flush` (the call, and `open_logfile()`), `Lock`, `SkipFlush`/`StartFlush`, `WriteOut` per
`write(2)`, `Reset`, `Copy` (the `memcpy`), `Bump` (`*length += len`, which is not atomic), `Unlock`.
`WriteError` is the loop's treatment of -1. `flock()` is a lock of the open file description, so the model
names descriptions: `fd[p]` is the one process `p` uses, inherited over `Fork` or opened by itself.
`Die` releases the lock when the last descriptor of the holding description goes.
`at[p]` remembers the length `memcpy()` used; unlocked processes may have changed it before `Bump`.

**LockServer.** `mpc` is the master's place in `lockServer()`. `kind` and `alive` are the kernel's process
table, zombies included; `children` is the master's. `Ofd` says which description a child locks around
`accept()`: with `serverAlgorithm` "flock" its own, otherwise `control` is undefined, so `flock(0)` locks
the inherited standard input. main.js sets "semaphore" before child.js chooses `accept()`, so "flock" can
only come from a configuration file named on the command line. `SetGid`/`SetUid` behave as the kernel's:
they are for root, and the kernel may refuse them even to root (`Refusable`: an id that is not mapped, no
process left to that user), which setgid() and setuid() report as -1 (process.cpp:75-77, 106-108).
`SetChildUser` ignores both results, as main.js:230-231 does; the ghost `refused` keeps what was refused.

**HttpChild.** `pc` is the place in `run()`: "accept", "read" (req.init), "handle" (the handler, any sequence
of calls on `res`), "send" (inside sendFile), "stuck" (an endless loop), "error" (errorHandler), "end"
(endRequest), "flush", "close". A request is named by `requestsHandled`. `buf` keeps for each byte the request
that wrote it, `wire` one record per response: headers sent, the length they announced, bytes sent, whose
bytes, whether keep-alive was announced, and in `odd` what else is odd about it. "cut": `sendHeaders()` gives
`net.write()` the number of characters of the header (response.js:153), which writes that many bytes of its
UTF-8 (net.cpp:363-378), so that a character that is not ASCII costs it its end; every header may be one
(`Header`). "late": a handler wrote, or began another file, after the header was sent. "over": without
`Config.sendFile` (`copies`) the file is read into a string and as many bytes written as its size was
(response.js:212-217), so that of a file that shrank, or cannot be opened, bytes from past the end of the
string are sent. With it, `FileShrinks` is a file that shrank, or a sendfile(2) that sent a part: its offset
is moved twice (net.cpp:489-496), and it returns 0 for ever. `Allow` names what may go wrong outside of the
child. The 500 page of `errorHandler` stays in `buf` and is never sent, as in the code: the loop is left
before `res.flush()`. A `Connection` header of any value, "close" included, asks for keep-alive, as in
`res.init`.

`Connection` is what a client sees of it: a connection is "waiting" in "read", "serving" from the
handler to the flush or the error page, "closing", then "closed" or "ended" with the process. `Answers` is the
responses on the wire, told as their request, whether they are whole (one header, as many bytes as it
announced), whether their handler spoiled them ("cut" or "late") and whether they announced keep-alive,
without the response to the request that is served: nothing is said of it until `Reply` (the flush) or `Fail`
(every other end) adds it. A request that could not be parsed, or whose flush failed before the headers, has
no answer; its connection is closed.

**RequestStream.** A byte is a record of the connection and the request it was sent in and of what
`readHeaders()` makes of it, so that a property can say whose bytes a request has. The client sends any
prefix at any time (`Send`) and may leave; `Fill` is `FillBuffer()` with a buffer of `BufSize` (4096 in the
code), `HeaderByte` and `BodyByte` are turns of the loops of `readHeaders()` and `Read(buf, count)`. `NoByte`
is `Read()` returning -1, after five seconds or at the end of the connection: it ends the connection in the
headers, and in a body gives a string of the full length whose rest is what `char buf[size]` (http.cpp:139-143)
held before: `left`, which has the bytes of every body read so far, those of other connections too, and `Junk`
for what no body left; `got` is how many bytes did arrive. The five seconds start anew with every read
(SilkJS.h:142), a header has no limit and req.init() runs without the watchdog: `Trickle` is one more byte of a
header line every few seconds, for as long as the client likes, and `pulse` tells one select() from the next.
Carriage returns are skipped by the code and left out. The transformation of multipart bodies by `readMime()`
is not modelled, nor what it does with one that is incomplete.

**ScriptCache.** One page and its four caches (`kind` picks one). A content of the file is its version.
`Hit`/`Miss` are the lookup, with the `v8.freeScript()` of the old script (`Evict`), `Read` the readFile,
`Compile`/`CompileFails` the rest. An edit may give the file a later time, the same one (within a second), or
an earlier one (`mv`, `cp -p`, a restored backup); each call of the lookup may find the file gone, where
`fs.fileModified()` is false (fs.cpp:473-480). `CompileFails` leaves the entry with its old time and the script
that `Miss` freed, as in the code (child.js:195-200, 261-284): the next lookup that finds no later time runs
it, and the next one that does frees it again. `frees` counts how often each was freed; `newest`, `hidden`,
`last`, `sure` and `failed` are ghosts that say what times the file had and which compiles failed.

**FileIO.** `dir` and `content` are names and inodes, so that a file that was unlinked or replaced stays
readable by who has it open. One action per system call: `OpenRead`, `OpenWrite` (which truncates, before
any lock), `LockShared`/`LockExclusive`, `ReadBlock` per turn of readFile()'s loop, `AskSize` and `Slurp` of
readFile64(), `WriteOut`, `Unlock` with the close. writeFile64() goes from open to write without a lock, as
in the code. `leaked` is the descriptors that a failed readFile64() leaves open with their lock
(fs.cpp:757-759), `clash` the inodes that two calls used at once without excluding each other, which the
properties have to except: a second writer truncates a file that the first one has locked. `Die` with
"badread" is readFile() appending -1 bytes to a string.

**Mail.** `at` is the place in `send()`: in writeFile(), in process.exec(), before unlink(). `Spool` gives
each mail its file: one for all mails of plain text, whose `boundary` is never assigned, one each for the
others. sendmail opens the file by name, reads without a lock and outlives its caller. `crossed` is the
mails that shared their file with another in progress.

**SqlSession.** `pc` "call" is a handler between calls, "query" a call between the ping of `HANDLE()` and
the answer. The two reconnects differ: `PingReconnects` is libmysqlclient's, which refuses in a transaction;
`HandleReconnects` is mysql.cpp's, which does not, and whose new handle lacks MYSQL_OPT_RECONNECT. The model
of the server is the least that this needs: a lost session rolls back, START TRANSACTION commits what is
open, an update outside of a transaction commits itself. Handlers are given by the calls they make and by
whether they have the `try` of the example (MySQL.js:25-37). An exception that is not caught ends the
request (child.js:493-499) and leaves the transaction open, as `endRequest()` does.

**Require.** `stack` is the nested calls of require(); what a module requires, throws and catches is free.
`Locate` tries each entry of `require.path` as it stands, from the working directory, and after
`require.fsPath` (`Places`). `CannotLoad` is a file that is found and cannot be loaded, a shared library that
does not link or CoffeeScript that does not compile: it throws before anything is noted. Exports that are
falsy are in the cache for nothing (require.js:100), so that the module runs again (`Returns`). `Starts` is
the call up to the module's code; `Returns` and `Leaves` are its two ends, and only the first frees the
script, restores the directory and puts the exports in the cache.

## 3. Runs

| Run | Checks | Shows |
|---|---|---|
| LogFileAtomic | TypeOK, RefinesAtomicLog, LinesReachDisk | no faults: the log implements AtomicLog (whole lines, once, the file a prefix) and the flusher alone brings lines to the file |
| LogFileFaults | MutualExclusion, BufferInBounds, NoLostLine, FlushReachesDisk, CallsReturn | kills at any step, destroy() and a failed write(2): lock and buffer hold, calls return, and no returned line is lost unless a write failed |
| LockServerPool | TypeOK, PoolAccounted, AcceptExclusion, RootOnlyIfRefused, ConnectionsAccepted, PoolRestored | "flock", with failed forks, crashes (in accept() too), accept errors, and a setgid() or setuid() that the kernel refuses: what a child has of root was refused, never lost to the order of the calls |
| HttpChildResponses | TypeOK, OwnBytes, Framed, RefinesConnection, KeepAliveHonoured, RequestEnds | everything in `Allow`, headers that are cut, handlers that go on after a file, both ways to send one: the child implements Connection; a request ends unless its client stops reading or it loops with the watchdog cleared |
| RequestStreamParses | TypeOK, OwnConnection, ParsedAsSent, ReadingEnds | bytes in any portions, two connections: requests are cut as sent until a body stays incomplete, bytes of another client come in only past what arrived of such a body, and reading ends unless a client trickles |
| ScriptCacheEdits | TypeOK, NoFreedRun, FreesAccounted, CompiledUpToDate | a page of any kind that is edited, restored with an earlier time, gone for a moment, breaks and is mended: a freed script runs only where the lookup found an earlier time than the file once had, or no file; each script is freed once and once more per failed compile; pages but templates that keep the latest time are as new as the request |
| MailSpool | MailTypeOK, WritesAlone, OneVersion, WriteStays, MailIntact, CallsReturn | a plain and a MIME mail beside files of the application, with a full disk, failing reads and kills: the lock of writeFile() excludes, nobody sees a mixture, a mail is sent whole unless another had its file |
| SqlSession | AllOrNothing, CommitKeeps, RollbackUndoes | three requests in one session, connections and answers lost twice, statements refused, processes dying: without a reconnect in it, a transaction is whole and as its caller was told |
| Require | TypeOK, OwnDirectory, FailuresAccounted | every way four files in two directories can require each other, fail to load, compile or run, catch, and leave falsy exports |

Runs that find what the code does against its own documentation (`findings` in `PROJECT.json`):

| Run | Violates | Because |
|---|---|---|
| LogFileReplacedLost | NoLostLine | two replacements, forked after the master opened the log, share its lock and log at once, while the master logs nothing after the line that opened it (`Quiet`, main.js:299) |
| MailPlain | MailSent | plain mails are all written to `/tmp/undefined` |
| SqlCommitLost | CommitCommits | a call reconnects in a transaction and goes on, and commit() returns |

Changes of one constant show more, without a run of their own. In LogFile, `Replacements = {c, d}` also breaks
MutualExclusion; a replacement killed in the locked section leaves the lock with its siblings
(`Replacements = {c, d}`, `Killable = {c}`: LinesReachDisk fails); a destroy() that kills the flusher between
two writes of one flush has the master write the same bytes again (`MayDestroy = TRUE`: RefinesAtomicLog
fails); NoLostLine without `errors = 0` fails, since the -1 of a failed write(2) is counted as bytes written
and the buffer is dropped all the same.
In LockServer, `Algorithm = "semaphore"`, the default, breaks AcceptExclusion: `control` is undefined, flock(0)
locks a description that all children share, and several are in accept() at once, where `main.js:206` has
"the children flock() around accept()".
In LockServer a failed fork is not tried again, so the pool stays below the `numChildren` of `config.js:8`
until another child ends: PoolRestored therefore speaks of what the master takes its table to be.
In HttpChild, RequestEnds without its two exceptions fails: res.sendFile() and res.stop() clear the watchdog
before the response is written (`response.js:84`, `195`), so that a client that does not read keeps the child
for ever, where `config.js:39` promises that "the alarm handler will exit()". A request whose handler throws
leaves the loop past `endRequest()`, which `child.js:431` calls "called at end of each request".

The exceptions in HttpChild's properties are what the code does. Framed and RefinesConnection except "spoiled"
responses: a header with one character that is not ASCII (a cookie, a Location, the protocol of the request,
which is echoed) loses the end of its empty line, and the connection is kept all the same; and what a handler
writes after `res.sendFile()` follows the announced length, although `response.js:196` wants it unsent, which
Jst does by itself for a page that sends a file and then calls `res.stop()` (Jst.js:386-405: the exception is
caught, and `evalError()` writes a page). What the properties still say is that nothing else breaks the
framing: no failure of the child, of a file or of a write. OwnBytes excepts "over", the bytes past the end of a
string.

In LockServer, a child that was refused setuid() serves as root, against `config.js:34`, "username to run
child processes as"; RootOnlyIfRefused says that nothing else leaves it a part of root. In RequestStream,
ParsedAsSent without `~short` fails: after an incomplete body, the rest of it is read as the next request.
OwnConnection without its last line fails as well: the end of a short body is what an earlier body, of any
client of the child, left on the stack. ReadingEnds without its hypothesis fails by `Trickle`: one child is
held for as long as its client likes. In ScriptCache, NoFreedRun without `seen < last` fails: a page that was
replaced by a version that does not compile, and then restored with its old time, runs the script that was
freed in between, as does one that is gone when its time is asked for. Two requests of a page that does not
compile free the same script twice, which FreesAccounted counts. CompiledUpToDate without `sure` fails: a
second edit within the second is not seen, nor one with an earlier time. For a template its promise,
`UpToDate`, fails: its time is asked for after it was read (`child.js:148`), and a version saved in between is
not seen until the next one, where `README.md:52` has "automatically reloaded". In Mail, the exceptions
`crossed`, `short` and `clash` are each needed: writeFile() truncates before it locks, and its result is not
looked at. That a reader under the lock finds the file emptied by an open() is no violation of OneVersion,
which takes what it has for a beginning of the version, and writeFile64(), which takes no lock, is in `clash`.
In SqlSession, AllOrNothing over all requests fails with `cut`, RollbackUndoes without `unsure`: the answer to
a commit() was lost, and the rollback() that follows undoes nothing. A transaction that a request leaves open
swallows the updates of the next one (Server.js:97); AllOrNothing is about the documented transaction, which
begins by ending what was left open, and says nothing of those.

**Bounds.** LogFile: a master, a flusher, one or two children (with replacements: two), two or three lines of
1 to 3 bytes in a buffer of 4: lines that fit, that fill the buffer to the byte, and that force a flush; every
split of a write(2). `MaxErrors` bounds failed writes. LogFileReplacedLost has two first children and two
replacements, the least in which two share a lock without the master. A hazard of the lock needs two processes
besides the flusher, so a third child adds interleavings and no case. LockServer: two children and a spare
pid, so that pids are reused; `MaxForkFailures`, `MaxCrashes`, `MaxAcceptErrors` bound faults; every subset of
the two calls may be refused. HttpChild: two connections (what one leaves behind reaches the next), three
requests a child (first, kept, and the one past the limit of two), files of no byte and of one, `MaxOps` = 2
calls per handler (before and after a file). RequestStream: a client with three requests, the second with a
body that holds a null byte, and one whose body looks like the end of headers; a buffer of 4 splits and joins
them at every place. ScriptCache: four versions, two of them broken, and five requests: a page that is cached,
breaks twice, and is mended, or restored with any of the times it had. Mail: two processes, since every hazard
is of a call against one other, three calls (two mails and a file, or a mail between two), data of one block
and of two, so that there is a middle. SqlSession: the documented transaction with two updates (the least that
has a part), a handler that leaves its transaction open, and an update alone; three requests put each between
two others, two lost connections allow a loss after a reconnect. Require: two directories with a name in
common, one below the other's `modules`, a path that leads to both, a cycle over them, a shared library and
CoffeeScript, three calls per module and four pages, so that pages follow a failure.

**Fairness.** A process that is running keeps running (weak fairness of its steps). `flock()` is strongly
fair: a waiter is not passed over for ever, since the flusher, the only caller that never stops asking, sleeps
a second between calls. The flusher keeps calling flush and the master keeps forking. In HttpChild a request
arrives or req.init() gives up after its five seconds, a handler ends its calls unless it loops, a write ends
when the client reads, and an alarm that stays set goes off. In RequestStream the child's steps are weakly
fair; a select() during which no byte comes times out, which is weak fairness of `TimeOut` for each value of
`pulse`, since a byte that comes starts another; no client has to send. In Mail a process goes on in its call
and in send(), and sendmail reads to the end; a lock is asked for by three calls at most, so that weak
fairness is enough. SqlSession and Require have safety properties only and state no fairness. No fault is ever
owed: nothing is assumed of crashes, failing writes, clients that connect or stall. `CHECK_DEADLOCK FALSE`
where the system stops: all requests of the bound served, or all lines logged.

## 4. Proofs

All proofs hold for every value of the constants; `tlapm` checks them to the last leaf.

| Theorem | Hypothesis | Argument |
|---|---|---|
| LogFileProofs.TypeInvariant | – | TypeOK is inductive; `SliceType` types the bytes written |
| LogFileProofs.LockSafety | no replacements | `LockInv`: descriptions are private to a process, and whoever is in the locked section holds the lock by its own |
| LogFileProofs.BufferSafety | no replacements | `RoomInv`: at "copy" the line fits; nobody else moves `length` in between, by LockInv |
| LogFileProofs.NoLineLost, FlushSaves | no replacements | `LinesInv`: a returned line is in the file or in the buffer (`Stands`), and `Progress` says of each pc what makes that true after the step that moves it: what a flush has written so far is the beginning of the buffer, which is intact until "reset", a copied line lies at `at[p]` until "bump". RoomInv keeps copies off the bytes before `length` |
| LogFileProofs.Refinement | no replacements, `Undisturbed` | the log is `Content`: the file and what no flush has written of the buffer. `WriteOut` moves bytes within it, `Reset` and `Copy` change bytes outside of it, `Bump` appends a whole line; that the line is new is `OnceInv` |
| LockServerProofs.TypeInvariant | – | inductive with what each `cpc` implies of `sock` and `served` |
| LockServerProofs.PoolSafety | – | the count of children changes by one in `Spawn` and `Wait` (`SpawnCount`, `ReapCount`) |
| LockServerProofs.AcceptSafety | algorithm "flock" | whoever is in accept() holds the lock by its own description |
| LockServerProofs.RootSafety | – | `DropsWhatIsGranted`: after setgid and then setuid, what is left of root was refused; in the other order setuid would take from setgid what it needs |
| HttpChildProofs.TypeInvariant | – | with `LimitInv` (a kept connection is below the limit) and `CurrentInv` (the request served is the last on the wire and owns the buffer) |
| HttpChildProofs.ResponseSafety | – ("over" excepted) | OwnBytes from `CurrentInv`: only res.init starts a response, and it empties the buffer |
| HttpChildProofs.IdleSafety | – | IdleUnarmed (the alarm is off while the child waits for a connection or a request) is inductive by itself |
| HttpChildProofs.FramedSafety, KeepAliveSafety | – | `FramedInv`: earlier responses are complete or spoiled; the current one is untouched before its headers, and afterwards spoiled, or complete with an empty buffer. What is sent with the headers makes it complete or cut (`SentWhole`), what is added after them makes it late (`Adds`), and no step takes an oddity back (`SpoiledStays`) |
| HttpChildProofs.ConnectionRefinement, AnswersInOrder | – | `ConnInv`: the invariants above with `OrderInv`, by which no response on the wire is one of a request to come, so that taking up a request adds no answer (`HowMany`). A step within a request keeps the answers (`GoesOn`), every end but the flush is `Fail` (`IsOver`), the flush is `Reply` because FramedInv makes what it sends whole or spoiled (`FlushReplies`), and by IdleUnarmed no alarm ends a waiting child. The order of the answers is proved of Connection alone (`ConnOrder`) |
| RequestStreamProofs.TypeInvariant | – | inductive; `LengthType` needs that the last Content-Length header exists (`Least`, `Last`) |
| RequestStreamProofs.OwnConnectionSafety | – | `OwnInv`: all that is on its way to a request was sent on this connection, and at "accept" there is no stream; what a body has from elsewhere stands past the `got` bytes that arrived, and only a short one has it |
| RequestStreamProofs.RequestsParsedAsSent | `Numbered`, `Framed` | `UnreadInv`: the buffer, what arrived and what is still to be sent stand in that order where the client put them, so that a byte read is the one after the last (`TakesNext`). `Whole`: the request being read begins where the requests handled end (`Divides`), `newlines` counts the newlines at the end of a head in which no empty line is yet (`InHeaders`), and from the body on the length of the request is known (`HeadersEnd`) |
| ScriptCacheProofs.TypeInvariant | – | inductive |
| ScriptCacheProofs.FreedSafety | – | `FreedInv`: an entry with a freed script is older than the latest time the file had, so that only a lookup that finds an earlier one hits it |
| ScriptCacheProofs.FreesSafety | – | inductive with typing: `Miss` frees the entry's script once more, a compile takes it out of the cache, and a failure is noted with it |
| ScriptCacheProofs.UpToDateSafety | – (`sure`) | `TimesInv`: no entry and no lookup is later than the latest time, and unless several contents had that time, what was made with it is what the file holds |
| MailProofs.FileTyping, MailTyping | – | inductive; the lock a call has follows from its `pc` and `op` |
| MailProofs.FileExclusion, MailExclusion | – | WritesAlone is inductive with typing: LockExclusive looks at every lock, LockShared at the exclusive ones |
| MailProofs.FileVersions, FileWritesStay, MailFileVersions, MailWritesStay | – | `VersionInv`: outside of `clash`, who is to write a file was the last to open it and finds it empty, a reader has the beginning of what is in the file, unless that was emptied, and a content is one version. It needs WritesAlone: between `LockShared` and `Unlock` nobody fills the file. The lemma is proved for one `FileAction`, so that it serves FileIO and Mail |
| MailProofs.MailsWhole | – | `MailInv`: no inode has two names (`OneName`), a spool file is there only while a mail that has it is sent (`Claimed`), so that a mail not `crossed` is alone with its file (`Single`, `Distinct`) and nobody else has it open (`OwnFile`); then it is empty until the write, holds the mail once writeFile() returned true (`Spooled`), and what sendmail has read is a beginning of it (`Passed`) |
| SqlSessionProofs.Typing | – | inductive |
| SqlSessionProofs.Atomicity, CommitsAll, RollsBack | – | `IInv`: rows of a documented transaction are pending only inside it (`PendingOwn`), so that no later request commits them; before its end, if it was not cut, none is durable and all it did so far is pending or lost (`Midway`); in its catch none is durable (`Undoing`), and a rollback() that returned was its last call (`RollbackEnds`) |
| RequireProofs.Typing | – | with `Unrun`: a module that is not in the cache was not run since it last left falsy exports |
| RequireProofs.RightDirectory | – | `Chain`: while nothing failed, `dirStack` holds the directory of each module's requirer |
| RequireProofs.ExactFailures | – | no module is on the stack twice (`Distinct`); a failed one stays in the cache, so that it is not loaded again and counted once |

The hypotheses, and the exceptions inside the properties, are the ones that the runs and section 3 show to be
needed.
`Replacements = {}`: a child forked after the master opened the log has no lock of its own. `Undisturbed`: a
process killed, or a write(2) that fails, in the middle of a flush leaves bytes that are written twice or not
at all, which no atomic log does; NoLineLost and FlushSaves hold through kills. `Numbered` says that the
client's requests are told apart by their number in the order sent, `Framed` that each is headers up to the
first empty line and a body of the length they tell; anything else has no "i-th request". `MCRequestStream`
has TLC check both of its streams (`ClientsOK`). What is proved of SqlSession holds for any set of handlers,
of Require for any files, directories and cycles, of Mail for any mails, sizes and faults.

Each strengthening was checked by TLC as an invariant of the run of its module before it was proved.
Every safety property that a passing run checks is a theorem. Only model-checked: the liveness properties
(LinesReachDisk, CallsReturn, ConnectionsAccepted, PoolRestored, RequestEnds, ReadingEnds), which are out of
the prover's reach. The sequences are reasoned about by positions, never by induction: `AsSent` is cut out of
the stream by the first and the last byte of a request, and `Occurs` by the position of a line.

## 5. Plan

Done: AtomicLog, LogFile, LockServer, Connection, HttpChild, RequestStream, ScriptCache, FileIO, Mail, SqlSession,
Require. Next, in this order:

1. Proofs of more action properties: the buffer of a response changes only for its own request, the table
   of the master only in `Spawn` and `Wait`.
2. `RingList`, `Buffer`, `Jst`: algorithms against reference definitions.

## 6. Not modelled, and why

Contents of headers, pages and log lines (no property is about them); time, except that a timeout may
fire; the memory of v8. A log line of 32768 bytes or more overflows the buffer: `ConstantsOK` excludes it,
`PROJECT.json` lists it as a hazard. That the death of the flusher is only reported is a fact of
`lockServer()` (`LockServer.Wait`), after which `LinesReachDisk` needs writes to push lines out.

Most lines of the repository's JavaScript and C++ are not its own logic: CoffeeScript, jQuery Mobile, less,
phpjs, UglifyJS, Showdown and other vendored code, clients of web services, and bindings that pass arguments
to a C library. The models cover a small share of the lines for that reason. Of the modelled parts, left out
are `selectDb()`, `close()` and the queries with results of mysql.cpp (they share `HANDLE()`), a server that
rolls back on a deadlock, `include()` (it keeps no state), names that begin with `builtin/`, the anchoring of
the expression for shared libraries (require.js:85: `Dlls` is what it matches), and strings with null
characters, which writeFile() cuts at the first (fs.cpp:804).
