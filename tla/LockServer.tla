----------------------------- MODULE LockServer ------------------------------
(***************************************************************************)
(* The pre-forking server: lockServer() of src/httpd/main.js starts and    *)
(* supervises the children, each child takes connections one at a time     *)
(* around accept() in HttpChild.run() of src/httpd/child.js.  What a child *)
(* does with a connection is the subject of HttpChild; here it is Serve.   *)
(*                                                                         *)
(* The kernel's process table is `kind' and `alive': a process that ended  *)
(* but was not waited for is in kind and not in alive, and its pid is not  *)
(* reused before then.  The accept lock is a flock(); `control' decides    *)
(* which open file description the children lock.  Only the algorithm      *)
(* "flock" opens the lock file in every child; with the default            *)
(* "semaphore" control is undefined, so that flock() is called on          *)
(* descriptor 0, whose description every process inherited.  main.js sets  *)
(* "semaphore" before child.js chooses accept(), so that "flock" can only  *)
(* come from a configuration file named on the command line, after it.     *)
(***************************************************************************)
EXTENDS Naturals, FiniteSets

CONSTANTS
  Pids,             \* the process ids the kernel hands out
  Flusher,          \* the pid of the log's flusher, forked before the children
  Conns,            \* the connections clients make, each once
  NumChildren,      \* Config.numChildren
  RequestsPerChild, \* Config.requestsPerChild, with one request per connection
  Algorithm,        \* Config.serverAlgorithm: "semaphore" or "flock"
  Refusable,        \* the calls that the kernel may refuse even to root
  MaxForkFailures,  \* bound: how many fork() calls fail
  MaxCrashes,       \* bound: how many processes end other than by exit()
  MaxAcceptErrors,  \* bound: how many accept() calls fail
  None              \* no process, no connection

ASSUME ConstantsOK ==
  /\ IsFiniteSet(Pids) /\ Flusher \in Pids
  /\ NumChildren \in Nat /\ RequestsPerChild \in Nat \ {0}
  /\ Refusable \subseteq {"setgid", "setuid"}
  /\ MaxForkFailures \in Nat /\ MaxCrashes \in Nat /\ MaxAcceptErrors \in Nat
  /\ Algorithm \in {"semaphore", "flock"}
  /\ None \notin Pids \cup Conns
  /\ "stdin" \notin Pids \cup {None}

VARIABLES
  asRoot,     \* the server was started by root
  mpc,        \* the master: "start", "fork", "wait", "respawn" or "exited"
  forks,      \* the loop variable i of the first generation
  children,   \* the keys of the master's `children'
  kind,       \* per pid: "none", "flusher" or "child"
  alive,      \* the pids that have not ended
  cpc,        \* per pid, where a child is
  cred,       \* per pid, its [uid, gid], each "root" or "user"
  refused,    \* ghost: per pid, the calls of setChildUser() refused to it as root
  holder,     \* the description that holds the accept lock, or None
  conn,       \* per connection: "none", "pending", "open", "closed", "lost"
  sock,       \* per pid, the connection it has accepted, or None
  served,     \* per pid, its requestsHandled
  failures, crashes, acceptErrors   \* counts of what the bounds bound

master == <<asRoot, mpc, forks, children, failures>>
procs == <<kind, alive, cred, refused>>
counts == <<crashes, acceptErrors>>
vars == <<asRoot, mpc, forks, children, kind, alive, cpc, cred, refused,
          holder, conn, sock, served, failures, crashes, acceptErrors>>

IsChild(p) == kind[p] = "child" /\ p \in alive
FreePids == {p \in Pids : kind[p] = "none"}
Zombies == {p \in Pids : kind[p] # "none" /\ p \notin alive}

\* Mutant of Ofd: the lock file is not opened per child.
Ofd_Inherited(p) == "stdin"

\* The open file description that flock(control) locks in process p.
Ofd(p) == IF Algorithm = "flock" THEN p ELSE "stdin"

-----------------------------------------------------------------------------
Root == [uid |-> "root", gid |-> "root"]
User == [uid |-> "user", gid |-> "user"]

Init ==
  /\ asRoot \in BOOLEAN
  /\ mpc = "start"
  /\ forks = 0
  /\ children = {}
  /\ kind = [p \in Pids |-> "none"]
  /\ alive = {}
  /\ cpc = [p \in Pids |-> "none"]
  /\ cred = [p \in Pids |-> Root]
  /\ refused = [p \in Pids |-> {}]
  /\ holder = None
  /\ conn = [k \in Conns |-> "none"]
  /\ sock = [p \in Pids |-> None]
  /\ served = [p \in Pids |-> 0]
  /\ failures = 0
  /\ crashes = 0
  /\ acceptErrors = 0

\* The checks of lockServer() pass: the port is listened on and the log is
\* created, with its flusher.
Start ==
  /\ mpc = "start"
  /\ mpc' = "fork"
  /\ kind' = [kind EXCEPT ![Flusher] = "flusher"]
  /\ alive' = {Flusher}
  /\ UNCHANGED <<asRoot, forks, children, failures, cpc, cred, refused, holder,
                 conn, sock, served, counts>>

\* A check fails: a privileged port without root, a user or group that does
\* not exist, a log that cannot be created.
StartFails ==
  /\ mpc = "start"
  /\ mpc' = "exited"
  /\ UNCHANGED <<asRoot, forks, children, failures, procs, cpc, holder, conn,
                 sock, served, counts>>

\* fork() in the master: p is a copy of it, and the master notes its pid.
Spawn(p) ==
  /\ p \in FreePids
  /\ children' = children \cup {p}
  /\ kind' = [kind EXCEPT ![p] = "child"]
  /\ alive' = alive \cup {p}
  /\ cpc' = [cpc EXCEPT ![p] = "boot"]
  /\ cred' = [cred EXCEPT ![p] = IF asRoot THEN Root ELSE User]
  /\ refused' = [refused EXCEPT ![p] = {}]
  /\ sock' = [sock EXCEPT ![p] = None]
  /\ served' = [served EXCEPT ![p] = 0]
  /\ UNCHANGED failures

\* fork() returns -1: the master prints the error and goes on.
SpawnFails ==
  /\ failures < MaxForkFailures
  /\ failures' = failures + 1
  /\ UNCHANGED <<children, procs, cpc, sock, served>>

ForkFirst ==
  /\ mpc = "fork" /\ forks < NumChildren
  /\ forks' = forks + 1
  /\ SpawnFails \/ \E p \in Pids : Spawn(p)
  /\ UNCHANGED <<asRoot, mpc, holder, conn, counts>>

AllForked ==
  /\ mpc = "fork" /\ forks = NumChildren
  /\ mpc' = "wait"
  /\ UNCHANGED <<asRoot, forks, children, failures, procs, cpc, holder, conn,
                 sock, served, counts>>

\* Mutant of Wait: the entry of the dead child is left in the table.
Wait_KeepsEntry(p) ==
  /\ mpc = "wait"
  /\ p \in Zombies
  /\ kind' = [kind EXCEPT ![p] = "none"]
  /\ mpc' = IF p \in children THEN "respawn" ELSE "wait"
  /\ UNCHANGED <<asRoot, forks, children, failures, alive, cpc, cred,
                 refused, holder, conn, sock, served, counts>>

\* Mutant of Wait: a dead child is not replaced.
Wait_NoRespawn(p) ==
  /\ mpc = "wait"
  /\ p \in Zombies
  /\ kind' = [kind EXCEPT ![p] = "none"]
  /\ children' = children \ {p}
  /\ UNCHANGED <<asRoot, mpc, forks, failures, alive, cpc, cred, refused,
                 holder, conn, sock, served, counts>>

\* process.wait() returns p.  A process that is not an HttpChild is only
\* reported.  (With no process left to wait for the loop spins; it changes
\* nothing then.)
Wait(p) ==
  /\ mpc = "wait"
  /\ p \in Zombies
  /\ kind' = [kind EXCEPT ![p] = "none"]
  /\ children' = children \ {p}
  /\ mpc' = IF p \in children THEN "respawn" ELSE "wait"
  /\ UNCHANGED <<asRoot, forks, failures, alive, cpc, cred, refused, holder,
                 conn, sock, served, counts>>

Respawn ==
  /\ mpc = "respawn"
  /\ mpc' = "wait"
  /\ SpawnFails \/ \E p \in Pids : Spawn(p)
  /\ UNCHANGED <<asRoot, forks, holder, conn, counts>>

-----------------------------------------------------------------------------
\* setgid() and setuid(): the kernel grants them to root only, and not always to
\* root (no process left to that user, an id that is not mapped); `no' are the
\* calls that it refuses this time.
SetGid(c, no) ==
  IF c.uid = "root" /\ "setgid" \notin no THEN [c EXCEPT !.gid = "user"] ELSE c
SetUid(c, no) ==
  IF c.uid = "root" /\ "setuid" \notin no THEN [c EXCEPT !.uid = "user"] ELSE c

\* Mutant of SetChildUser: the order of the two calls swapped.
SetChildUser_Swapped(c, no) == SetGid(SetUid(c, no), no)

\* setChildUser(): "the order here is important!"  It ignores both results.
SetChildUser(c, no) == SetUid(SetGid(c, no), no)

\* A child that main.js forked as root calls setChildUser() and goes on, whatever
\* the kernel said.
Boot(p) ==
  /\ IsChild(p) /\ cpc[p] = "boot"
  /\ \E no \in SUBSET Refusable :
       /\ ~asRoot => no = {}
       /\ cred' = [cred EXCEPT ![p] = IF asRoot THEN SetChildUser(@, no) ELSE @]
       /\ refused' = [refused EXCEPT ![p] = no]
  /\ cpc' = [cpc EXCEPT ![p] = "loop"]
  /\ UNCHANGED <<master, kind, alive, holder, conn, sock, served, counts>>

\* Mutant of LockAccept: the limit of requests is not tested.
LockAccept_NoLimit(p) ==
  /\ IsChild(p) /\ cpc[p] = "loop"
  /\ holder \in {None, Ofd(p)}
  /\ holder' = Ofd(p)
  /\ cpc' = [cpc EXCEPT ![p] = "accept"]
  /\ UNCHANGED <<master, procs, conn, sock, served, counts>>

\* lock(control) around accept(), unless the child has served its requests.
LockAccept(p) ==
  /\ IsChild(p) /\ cpc[p] = "loop" /\ served[p] < RequestsPerChild
  /\ holder \in {None, Ofd(p)}
  /\ holder' = Ofd(p)
  /\ cpc' = [cpc EXCEPT ![p] = "accept"]
  /\ UNCHANGED <<master, procs, conn, sock, served, counts>>

\* net.accept() returns a connection of the listen queue.
Accept(p, k) ==
  /\ IsChild(p) /\ cpc[p] = "accept"
  /\ conn[k] = "pending"
  /\ conn' = [conn EXCEPT ![k] = "open"]
  /\ sock' = [sock EXCEPT ![p] = k]
  /\ cpc' = [cpc EXCEPT ![p] = "unlock"]
  /\ UNCHANGED <<master, procs, holder, served, counts>>

\* net.accept() returns -1: the loop starts over, without a connection.
AcceptError(p) ==
  /\ IsChild(p) /\ cpc[p] = "accept"
  /\ acceptErrors < MaxAcceptErrors
  /\ acceptErrors' = acceptErrors + 1
  /\ cpc' = [cpc EXCEPT ![p] = "unlock"]
  /\ UNCHANGED <<master, procs, holder, conn, sock, served, crashes>>

UnlockAccept(p) ==
  /\ IsChild(p) /\ cpc[p] = "unlock"
  /\ holder' = IF holder = Ofd(p) THEN None ELSE holder
  /\ cpc' = [cpc EXCEPT ![p] = IF sock[p] = None THEN "loop" ELSE "serve"]
  /\ UNCHANGED <<master, procs, conn, sock, served, counts>>

\* The requests of the connection, and net.close(sock).
Serve(p) ==
  /\ IsChild(p) /\ cpc[p] = "serve"
  /\ conn' = [conn EXCEPT ![sock[p]] = "closed"]
  /\ sock' = [sock EXCEPT ![p] = None]
  /\ served' = [served EXCEPT ![p] = @ + 1]
  /\ cpc' = [cpc EXCEPT ![p] = "loop"]
  /\ UNCHANGED <<master, procs, holder, counts>>

\* Process p ends, and all that it had goes with it.
End(p) ==
  /\ alive' = alive \ {p}
  /\ cpc' = [cpc EXCEPT ![p] = "none"]
  /\ cred' = [cred EXCEPT ![p] = Root]
  /\ refused' = [refused EXCEPT ![p] = {}]
  /\ served' = [served EXCEPT ![p] = 0]
  /\ UNCHANGED <<master, kind>>

\* process.exit(0) once requestsHandled reaches the limit.
ExitChild(p) ==
  /\ IsChild(p) /\ cpc[p] = "loop" /\ served[p] >= RequestsPerChild
  /\ End(p)
  /\ UNCHANGED <<holder, conn, sock, counts>>

\* Mutant of Crash: the lock outlives its holder, as a semaphore's count would.
Crash_KeepsLock(p) ==
  /\ p \in alive /\ crashes < MaxCrashes
  /\ crashes' = crashes + 1
  /\ End(p)
  /\ conn' = [k \in Conns |-> IF k = sock[p] THEN "lost" ELSE conn[k]]
  /\ sock' = [sock EXCEPT ![p] = None]
  /\ UNCHANGED <<holder, acceptErrors>>

\* A process ends at any other point: an exit() in errorHandler() or in the
\* watchdog's handler, or a signal.  The kernel closes its connection, and
\* releases the lock if no other process has its description.
Crash(p) ==
  /\ p \in alive /\ crashes < MaxCrashes
  /\ crashes' = crashes + 1
  /\ End(p)
  /\ conn' = [k \in Conns |-> IF k = sock[p] THEN "lost" ELSE conn[k]]
  /\ sock' = [sock EXCEPT ![p] = None]
  /\ holder' = IF holder = p THEN None ELSE holder
  /\ UNCHANGED acceptErrors

\* A client connects.
Connect(k) ==
  /\ mpc \notin {"start", "exited"}
  /\ conn[k] = "none"
  /\ conn' = [conn EXCEPT ![k] = "pending"]
  /\ UNCHANGED <<master, procs, cpc, holder, sock, served, counts>>

MasterStep == Start \/ ForkFirst \/ AllForked \/ Respawn \/ \E p \in Pids : Wait(p)

ChildStep(p) ==
  \/ Boot(p) \/ LockAccept(p) \/ (\E k \in Conns : Accept(p, k))
  \/ UnlockAccept(p) \/ Serve(p) \/ ExitChild(p)

Next ==
  \/ MasterStep \/ StartFails
  \/ \E p \in Pids : ChildStep(p) \/ AcceptError(p) \/ Crash(p)
  \/ \E k \in Conns : Connect(k)

Spec == Init /\ [][Next]_vars

\* The master and every child that can run does run; a request ends, if need be
\* by the watchdog.  Nothing makes clients connect or processes fail.
Fairness == WF_vars(MasterStep) /\ \A p \in Pids : WF_vars(ChildStep(p))

FairSpec == Spec /\ Fairness

-----------------------------------------------------------------------------
\* Every variable has its type.
TypeOK ==
  /\ asRoot \in BOOLEAN
  /\ mpc \in {"start", "fork", "wait", "respawn", "exited"}
  /\ forks \in 0..NumChildren
  /\ children \subseteq Pids
  /\ kind \in [Pids -> {"none", "flusher", "child"}]
  /\ alive \subseteq Pids
  /\ cpc \in [Pids -> {"none", "boot", "loop", "accept", "unlock", "serve"}]
  /\ cred \in [Pids -> [uid : {"root", "user"}, gid : {"root", "user"}]]
  /\ refused \in [Pids -> SUBSET Refusable]
  /\ holder \in Pids \cup {None, "stdin"}
  /\ conn \in [Conns -> {"none", "pending", "open", "closed", "lost"}]
  /\ sock \in [Pids -> Conns \cup {None}]
  /\ served \in [Pids -> 0..RequestsPerChild]
  /\ failures \in 0..MaxForkFailures
  /\ crashes \in 0..MaxCrashes
  /\ acceptErrors \in 0..MaxAcceptErrors

\* The master's table is the kernel's: it holds exactly the children that have
\* not been waited for, so that no death goes unnoticed, and a child is missing
\* from it only for a fork() that failed.
PoolAccounted ==
  /\ children = {p \in Pids : kind[p] = "child"}
  /\ Cardinality(children) + failures
       = IF mpc = "respawn" THEN forks - 1 ELSE forks

\* No two children are inside accept() at once (main.js:206).
AcceptExclusion ==
  \A p, q \in Pids :
    IsChild(p) /\ IsChild(q) /\ cpc[p] = "accept" /\ cpc[q] = "accept" => p = q

\* A child that takes connections has root's group only if the kernel refused it
\* setgid(), and root's user only if it refused setuid(): the order of the calls
\* never costs one of them (main.js:228-232).  A child that was refused one does
\* take connections with it, against "username to run child processes as"
\* (config.js:34).
RootOnlyIfRefused ==
  \A p \in Pids : IsChild(p) /\ cpc[p] # "boot" =>
    /\ cred[p].gid = "root" => "setgid" \in refused[p]
    /\ cred[p].uid = "root" => "setuid" \in refused[p]

\* A connection in the listen queue is accepted, whatever children died while
\* holding the lock.
ConnectionsAccepted ==
  \A k \in Conns : conn[k] = "pending" ~> conn[k] # "pending"

Running == {p \in Pids : IsChild(p)}

\* The master keeps bringing the pool back to the children it could fork; a child
\* whose fork() failed is missing for ever, against "start and maintain 50
\* HttpChild processes" (config.js:8).
PoolRestored ==
  mpc = "wait" ~> Cardinality(Running) + failures = NumChildren
=============================================================================
