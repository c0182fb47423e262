--------------------------- MODULE LockServerProofs ---------------------------
(***************************************************************************)
(* Theorems about LockServer for any pids, connections, pool size and      *)
(* bounds.                                                                 *)
(***************************************************************************)
EXTENDS LockServer, FiniteSetTheorems, TLAPS

USE DEF master, procs, counts

\* A child that is past the test of its loop has requests left to serve: with
\* this the bound on requestsHandled is inductive.
ServedInv ==
  \A p \in Pids : cpc[p] \in {"accept", "unlock", "serve"} =>
    served[p] < RequestsPerChild

\* The type invariant: in particular requestsHandled never passes its limit.
THEOREM TypeInvariant == Spec => []TypeOK
<1> USE ConstantsOK
<1>1. Init => TypeOK /\ ServedInv
  BY DEF Init, TypeOK, Root, ServedInv
<1>2. TypeOK /\ ServedInv /\ [Next]_vars => (TypeOK /\ ServedInv)'
  <2> SUFFICES ASSUME TypeOK, ServedInv, [Next]_vars PROVE (TypeOK /\ ServedInv)'
    OBVIOUS
  <2> USE DEF TypeOK, ServedInv
  <2>1. CASE Start
    BY <2>1 DEF Start
  <2>2. CASE StartFails
    BY <2>2 DEF StartFails
  <2>3. CASE ForkFirst
    <3>1. CASE SpawnFails
      BY <2>3, <3>1 DEF ForkFirst, SpawnFails
    <3>2. ASSUME NEW p \in Pids, Spawn(p) PROVE (TypeOK /\ ServedInv)'
      BY <2>3, <3>2 DEF ForkFirst, Spawn, Root, User
    <3> QED
      BY <2>3, <3>1, <3>2 DEF ForkFirst
  <2>4. CASE AllForked
    BY <2>4 DEF AllForked
  <2>5. ASSUME NEW p \in Pids, Wait(p) PROVE (TypeOK /\ ServedInv)'
    BY <2>5 DEF Wait
  <2>6. CASE Respawn
    <3>1. CASE SpawnFails
      BY <2>6, <3>1 DEF Respawn, SpawnFails
    <3>2. ASSUME NEW p \in Pids, Spawn(p) PROVE (TypeOK /\ ServedInv)'
      BY <2>6, <3>2 DEF Respawn, Spawn, Root, User
    <3> QED
      BY <2>6, <3>1, <3>2 DEF Respawn
  <2>7. ASSUME NEW p \in Pids, Boot(p) PROVE (TypeOK /\ ServedInv)'
    BY <2>7 DEF Boot, SetChildUser, SetGid, SetUid
  <2>8. ASSUME NEW p \in Pids, LockAccept(p) PROVE (TypeOK /\ ServedInv)'
    BY <2>8 DEF LockAccept, Ofd
  <2>9. ASSUME NEW p \in Pids, NEW k \in Conns, Accept(p, k) PROVE (TypeOK /\ ServedInv)'
    BY <2>9 DEF Accept
  <2>10. ASSUME NEW p \in Pids, AcceptError(p) PROVE (TypeOK /\ ServedInv)'
    BY <2>10 DEF AcceptError
  <2>11. ASSUME NEW p \in Pids, UnlockAccept(p) PROVE (TypeOK /\ ServedInv)'
    BY <2>11 DEF UnlockAccept
  <2>12. ASSUME NEW p \in Pids, Serve(p) PROVE (TypeOK /\ ServedInv)'
    <3>1. served[p] + 1 \in 0..RequestsPerChild
      BY <2>12 DEF Serve
    <3>2. served' = [served EXCEPT ![p] = served[p] + 1]
      BY <2>12 DEF Serve
    <3>3. served' \in [Pids -> 0..RequestsPerChild]
      BY <3>1, <3>2
    <3>4. \A q \in Pids : q # p => served'[q] = served[q] /\ cpc'[q] = cpc[q]
      BY <2>12, <3>2 DEF Serve
    <3>5. ServedInv'
      BY <2>12, <3>4 DEF Serve
    <3>6. conn' \in [Conns -> {"none", "pending", "open", "closed", "lost"}]
      BY <2>12 DEF Serve
    <3> QED
      BY <2>12, <3>3, <3>5, <3>6 DEF Serve
  <2>13. ASSUME NEW p \in Pids, ExitChild(p) PROVE (TypeOK /\ ServedInv)'
    BY <2>13 DEF ExitChild, End, Root
  <2>14. ASSUME NEW p \in Pids, Crash(p) PROVE (TypeOK /\ ServedInv)'
    BY <2>14 DEF Crash, End, Root
  <2>15. ASSUME NEW k \in Conns, Connect(k) PROVE (TypeOK /\ ServedInv)'
    BY <2>15 DEF Connect
  <2>16. CASE UNCHANGED vars
    BY <2>16 DEF vars
  <2> QED
    BY <2>1, <2>2, <2>3, <2>4, <2>5, <2>6, <2>7, <2>8, <2>9, <2>10, <2>11,
       <2>12, <2>13, <2>14, <2>15, <2>16 DEF Next, MasterStep, ChildStep
<1> QED
  BY <1>1, <1>2, PTL DEF Spec

-----------------------------------------------------------------------------
\* Besides what PoolAccounted says: before the start there is no process, and
\* an ended process keeps its entry in the kernel's table until wait().
PoolInv ==
  /\ PoolAccounted
  /\ mpc = "start" => forks = 0 /\ \A p \in Pids : kind[p] = "none"
  /\ mpc = "respawn" => forks > 0

\* Adding a free pid to a finite set of others, and taking a member away.
LEMMA SpawnCount ==
  ASSUME TypeOK, NEW p \in Pids, p \notin children
  PROVE  Cardinality(children \cup {p}) = Cardinality(children) + 1
<1>1. IsFiniteSet(children)
  BY ConstantsOK, FS_Subset DEF TypeOK
<1> QED
  BY <1>1, FS_AddElement

LEMMA ReapCount ==
  ASSUME TypeOK, NEW p \in children
  PROVE  Cardinality(children \ {p}) = Cardinality(children) - 1
<1>1. IsFiniteSet(children)
  BY ConstantsOK, FS_Subset DEF TypeOK
<1> QED
  BY <1>1, FS_RemoveElement

LEMMA PoolCard ==
  ASSUME TypeOK
  PROVE  /\ Cardinality(children) \in Nat
         /\ Cardinality(children) = 0 <=> children = {}
<1>1. IsFiniteSet(children)
  BY ConstantsOK, FS_Subset DEF TypeOK
<1> QED
  BY <1>1, FS_CardinalityType, FS_EmptySet

\* The master's table of children always agrees with the kernel's, and is short
\* of numChildren only by the fork() calls that failed.
THEOREM PoolSafety == Spec => []PoolAccounted
<1> USE ConstantsOK
<1>1. Init => PoolInv
  BY FS_EmptySet DEF Init, PoolInv, PoolAccounted
<1>2. TypeOK /\ PoolInv /\ [Next]_vars => PoolInv'
  <2> SUFFICES ASSUME TypeOK, PoolInv, [Next]_vars PROVE PoolInv'
    OBVIOUS
  <2>0. /\ Cardinality(children) \in Nat
        /\ forks \in Nat /\ failures \in Nat
        /\ kind \in [Pids -> {"none", "flusher", "child"}]
        /\ children \subseteq Pids
    BY PoolCard DEF TypeOK
  <2> USE DEF PoolInv, PoolAccounted
  <2>A. ASSUME NEW p \in Pids, Spawn(p)
        PROVE  /\ children' = {q \in Pids : kind'[q] = "child"}
               /\ Cardinality(children') = Cardinality(children) + 1
               /\ failures' = failures
    <3>1. p \notin children
      BY <2>A, <2>0 DEF Spawn, FreePids
    <3>2. Cardinality(children') = Cardinality(children) + 1
      BY <2>A, <3>1, SpawnCount DEF Spawn
    <3> QED
      BY <2>A, <2>0, <3>2 DEF Spawn
  <2>B. ASSUME SpawnFails
        PROVE  /\ children' = {q \in Pids : kind'[q] = "child"}
               /\ Cardinality(children') = Cardinality(children)
               /\ failures' = failures + 1
    BY <2>B, <2>0 DEF SpawnFails
  <2>1. CASE Start
    BY <2>1, <2>0 DEF Start
  <2>2. CASE StartFails
    BY <2>2, <2>0 DEF StartFails
  <2>3. CASE ForkFirst
    <3>1. CASE SpawnFails
      BY <2>3, <2>0, <2>B, <3>1 DEF ForkFirst
    <3>2. ASSUME NEW p \in Pids, Spawn(p) PROVE PoolInv'
      BY <2>3, <2>0, <2>A, <3>2 DEF ForkFirst
    <3> QED
      BY <2>3, <3>1, <3>2 DEF ForkFirst
  <2>4. CASE AllForked
    BY <2>4, <2>0 DEF AllForked
  <2>5. ASSUME NEW p \in Pids, Wait(p) PROVE PoolInv'
    <3>1. children' = {q \in Pids : kind'[q] = "child"}
      BY <2>5, <2>0 DEF Wait
    <3>2. CASE p \in children
      <4>1. Cardinality(children') = Cardinality(children) - 1
        BY <2>5, <3>2, ReapCount DEF Wait
      <4>2. forks > 0
        <5>1. Cardinality(children) # 0
          BY <3>2, PoolCard
        <5> QED
          BY <5>1, <2>5, <2>0 DEF Wait
      <4> QED
        BY <2>5, <2>0, <3>1, <3>2, <4>1, <4>2 DEF Wait
    <3>3. CASE p \notin children
      <4>1. children' = children
        BY <2>5, <3>3 DEF Wait
      <4> QED
        BY <2>5, <2>0, <3>1, <3>3, <4>1 DEF Wait
    <3> QED
      BY <3>2, <3>3
  <2>6. CASE Respawn
    <3>1. mpc = "respawn" /\ mpc' = "wait" /\ forks' = forks
      BY <2>6 DEF Respawn
    <3>2. Cardinality(children) + failures = forks - 1
      BY <3>1
    <3>3. /\ children' = {q \in Pids : kind'[q] = "child"}
          /\ Cardinality(children') + failures' = forks
      <4>1. CASE SpawnFails
        BY <2>0, <2>B, <3>2, <4>1
      <4>2. ASSUME NEW p \in Pids, Spawn(p)
            PROVE  /\ children' = {q \in Pids : kind'[q] = "child"}
                   /\ Cardinality(children') + failures' = forks
        BY <2>0, <2>A, <3>2, <4>2
      <4> QED
        BY <2>6, <4>1, <4>2 DEF Respawn
    <3> QED
      BY <3>1, <3>3
  <2>7. CASE UNCHANGED <<mpc, forks, children, failures, kind>>
    BY <2>7, <2>0
  <2> QED
    BY <2>1, <2>2, <2>3, <2>4, <2>5, <2>6, <2>7 DEF Next, MasterStep, ChildStep,
       Boot, LockAccept, Accept, AcceptError, UnlockAccept, Serve, ExitChild,
       Crash, End, Connect, vars
<1>3. PoolInv => PoolAccounted
  BY DEF PoolInv
<1> QED
  BY <1>1, <1>2, <1>3, TypeInvariant, PTL DEF Spec

-----------------------------------------------------------------------------
\* The holder of the accept lock: with the lock file opened in every child, a
\* child from lock() to unlock() is the one that holds it.
AcceptInv ==
  \A p \in Pids :
    IsChild(p) /\ cpc[p] \in {"accept", "unlock"} => holder = p

\* With the algorithm "flock", children accept one at a time, whatever
\* processes end while they hold the lock.
THEOREM AcceptSafety ==
  ASSUME Algorithm = "flock"
  PROVE  Spec => []AcceptExclusion
<1> USE ConstantsOK DEF IsChild
<1>1. Init => AcceptInv
  BY DEF Init, AcceptInv
<1>2. TypeOK /\ AcceptInv /\ [Next]_vars => AcceptInv'
  <2> SUFFICES ASSUME TypeOK, AcceptInv, [Next]_vars PROVE AcceptInv'
    OBVIOUS
  <2> USE DEF AcceptInv
  <2>0. /\ cpc \in [Pids -> {"none", "boot", "loop", "accept", "unlock", "serve"}]
        /\ kind \in [Pids -> {"none", "flusher", "child"}]
    BY DEF TypeOK
  <2>A. ASSUME NEW p \in Pids, Spawn(p), holder' = holder PROVE AcceptInv'
    BY <2>0, <2>A DEF Spawn, FreePids
  <2>1. CASE Start
    BY <2>0, <2>1 DEF Start
  <2>2. CASE StartFails
    BY <2>2 DEF StartFails
  <2>3. CASE ForkFirst
    BY <2>3, <2>A DEF ForkFirst, SpawnFails
  <2>4. CASE AllForked
    BY <2>4 DEF AllForked
  <2>5. ASSUME NEW p \in Pids, Wait(p) PROVE AcceptInv'
    BY <2>0, <2>5 DEF Wait, Zombies
  <2>6. CASE Respawn
    BY <2>6, <2>A DEF Respawn, SpawnFails
  <2>7. ASSUME NEW p \in Pids, Boot(p) PROVE AcceptInv'
    BY <2>0, <2>7 DEF Boot
  <2>8. ASSUME NEW p \in Pids, LockAccept(p) PROVE AcceptInv'
    BY <2>0, <2>8 DEF LockAccept, Ofd
  <2>9. ASSUME NEW p \in Pids, NEW k \in Conns, Accept(p, k) PROVE AcceptInv'
    BY <2>0, <2>9 DEF Accept
  <2>10. ASSUME NEW p \in Pids, AcceptError(p) PROVE AcceptInv'
    BY <2>0, <2>10 DEF AcceptError
  <2>11. ASSUME NEW p \in Pids, UnlockAccept(p) PROVE AcceptInv'
    BY <2>0, <2>11 DEF UnlockAccept, Ofd
  <2>12. ASSUME NEW p \in Pids, Serve(p) PROVE AcceptInv'
    BY <2>0, <2>12 DEF Serve
  <2>13. ASSUME NEW p \in Pids, ExitChild(p) PROVE AcceptInv'
    BY <2>0, <2>13 DEF ExitChild, End, Root
  <2>14. ASSUME NEW p \in Pids, Crash(p) PROVE AcceptInv'
    BY <2>0, <2>14 DEF Crash, End, Root
  <2>15. ASSUME NEW k \in Conns, Connect(k) PROVE AcceptInv'
    BY <2>15 DEF Connect
  <2>16. CASE UNCHANGED vars
    BY <2>16 DEF vars
  <2> QED
    BY <2>1, <2>2, <2>3, <2>4, <2>5, <2>6, <2>7, <2>8, <2>9, <2>10, <2>11,
       <2>12, <2>13, <2>14, <2>15, <2>16 DEF Next, MasterStep, ChildStep
<1>3. AcceptInv => AcceptExclusion
  BY DEF AcceptInv, AcceptExclusion
<1> QED
  BY <1>1, <1>2, <1>3, TypeInvariant, PTL DEF Spec

-----------------------------------------------------------------------------
\* A child of a server that root did not start has the user's ids from the
\* fork, any other has from setChildUser() on those it was not refused.
CredInv ==
  \A p \in Pids : IsChild(p) =>
    IF cpc[p] = "boot"
    THEN cred[p] = IF asRoot THEN Root ELSE User
    ELSE /\ cred[p].gid = "root" => "setgid" \in refused[p]
         /\ cred[p].uid = "root" => "setuid" \in refused[p]

\* What setChildUser() leaves to a process of root.
LEMMA DropsWhatIsGranted ==
  ASSUME NEW no
  PROVE  /\ SetChildUser(Root, no).gid = "root" => "setgid" \in no
         /\ SetChildUser(Root, no).uid = "root" => "setuid" \in no
  BY DEF SetChildUser, SetUid, SetGid, Root

\* A child takes connections with root's group only if it was refused setgid(),
\* and with root's user only if it was refused setuid().
THEOREM RootSafety == Spec => []RootOnlyIfRefused
<1> USE DEF IsChild
<1>1. Init => CredInv
  BY DEF Init, CredInv
<1>2. TypeOK /\ CredInv /\ [Next]_vars => CredInv'
  <2> SUFFICES ASSUME TypeOK, CredInv, [Next]_vars PROVE CredInv'
    OBVIOUS
  <2> USE DEF CredInv
  <2>0. /\ cpc \in [Pids -> {"none", "boot", "loop", "accept", "unlock", "serve"}]
        /\ kind \in [Pids -> {"none", "flusher", "child"}]
        /\ \E S : cred \in [Pids -> S]
        /\ \E S : refused \in [Pids -> S]
    BY DEF TypeOK
  <2>A. ASSUME NEW p \in Pids, Spawn(p), asRoot' = asRoot PROVE CredInv'
    BY <2>0, <2>A DEF Spawn
  <2>1. CASE Start
    BY <2>0, <2>1 DEF Start
  <2>2. CASE StartFails
    BY <2>2 DEF StartFails
  <2>3. CASE ForkFirst
    BY <2>3, <2>A DEF ForkFirst, SpawnFails
  <2>4. CASE AllForked
    BY <2>4 DEF AllForked
  <2>5. ASSUME NEW p \in Pids, Wait(p) PROVE CredInv'
    BY <2>0, <2>5 DEF Wait
  <2>6. CASE Respawn
    BY <2>6, <2>A DEF Respawn, SpawnFails
  <2>7. ASSUME NEW p \in Pids, Boot(p) PROVE CredInv'
    <3>1. PICK no \in SUBSET Refusable :
            /\ cred' = [cred EXCEPT ![p] = IF asRoot THEN SetChildUser(@, no) ELSE @]
            /\ refused' = [refused EXCEPT ![p] = no]
      BY <2>7 DEF Boot
    <3>2. /\ cred[p] = IF asRoot THEN Root ELSE User
          /\ cpc' = [cpc EXCEPT ![p] = "loop"]
          /\ UNCHANGED <<asRoot, kind, alive>>
      BY <2>7 DEF Boot
    <3>3. /\ cred'[p].gid = "root" => "setgid" \in refused'[p]
          /\ cred'[p].uid = "root" => "setuid" \in refused'[p]
      BY <2>0, <3>1, <3>2, DropsWhatIsGranted DEF User
    <3>4. \A q \in Pids \ {p} : /\ cred'[q] = cred[q] /\ refused'[q] = refused[q]
                               /\ cpc'[q] = cpc[q]
      BY <2>0, <3>1, <3>2
    <3> QED
      BY <2>0, <3>2, <3>3, <3>4
  <2>8. ASSUME NEW p \in Pids, LockAccept(p) PROVE CredInv'
    BY <2>0, <2>8 DEF LockAccept
  <2>9. ASSUME NEW p \in Pids, NEW k \in Conns, Accept(p, k) PROVE CredInv'
    BY <2>0, <2>9 DEF Accept
  <2>10. ASSUME NEW p \in Pids, AcceptError(p) PROVE CredInv'
    BY <2>0, <2>10 DEF AcceptError
  <2>11. ASSUME NEW p \in Pids, UnlockAccept(p) PROVE CredInv'
    BY <2>0, <2>11 DEF UnlockAccept
  <2>12. ASSUME NEW p \in Pids, Serve(p) PROVE CredInv'
    BY <2>0, <2>12 DEF Serve
  <2>13. ASSUME NEW p \in Pids, ExitChild(p) PROVE CredInv'
    BY <2>0, <2>13 DEF ExitChild, End, Root
  <2>14. ASSUME NEW p \in Pids, Crash(p) PROVE CredInv'
    BY <2>0, <2>14 DEF Crash, End, Root
  <2>15. ASSUME NEW k \in Conns, Connect(k) PROVE CredInv'
    BY <2>15 DEF Connect
  <2>16. CASE UNCHANGED vars
    BY <2>16 DEF vars
  <2> QED
    BY <2>1, <2>2, <2>3, <2>4, <2>5, <2>6, <2>7, <2>8, <2>9, <2>10, <2>11,
       <2>12, <2>13, <2>14, <2>15, <2>16 DEF Next, MasterStep, ChildStep
<1>3. CredInv => RootOnlyIfRefused
  BY DEF CredInv, RootOnlyIfRefused
<1> QED
  BY <1>1, <1>2, <1>3, TypeInvariant, PTL DEF Spec
=============================================================================
