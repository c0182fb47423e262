----------------------------- MODULE RequireProofs -----------------------------
(***************************************************************************)
(* Proofs about Require, for every arrangement of files, names and         *)
(* directories and however many calls.                                     *)
(***************************************************************************)
EXTENDS Require, FiniteSetTheorems, SequenceTheorems, TLAPS

Frame == [file : Files, calls : 0..MaxCalls]

\* No module is on the stack twice.
Distinct == \A i, j \in 1..Len(stack) : stack[i].file = stack[j].file => i = j

\* What is not in the cache was not run.
Unrun == \A f \in Files : cache[f] = "none" => runs[f] = 0

\* While nothing has failed, the stack of directories holds the directory of each
\* module's requirer.
Chain ==
  threw = {} => \A i \in 1..Len(stack) :
                  dirStack[i] = IF i = 1 THEN Cwd ELSE Dir[stack[i - 1].file]

IInv == TypeOK /\ FailuresAccounted /\ OwnDirectory /\ Distinct /\ Unrun /\ Chain

LEMMA AppendFacts ==
  ASSUME NEW S, NEW s \in Seq(S), NEW x \in S
  PROVE  /\ Append(s, x) \in Seq(S) /\ Len(Append(s, x)) = Len(s) + 1
         /\ \A i \in 1..Len(s) : Append(s, x)[i] = s[i]
         /\ Append(s, x)[Len(s) + 1] = x
  OBVIOUS

LEMMA PopFacts ==
  ASSUME NEW S, NEW s \in Seq(S), Len(s) > 0
  PROVE  /\ Pop(s) \in Seq(S) /\ Len(Pop(s)) = Len(s) - 1
         /\ \A i \in 1..(Len(s) - 1) : Pop(s)[i] = s[i]
<1> DEFINE n == Len(s) - 1
<1>1. n \in Nat /\ n \in Int /\ 1 \in Int
  OBVIOUS
<1>2. \A i \in 1..n : s[i] \in S
  OBVIOUS
<1>3. Pop(s) = SubSeq(s, 1, n)
  BY DEF Pop
<1> HIDE DEF n
<1>4. /\ SubSeq(s, 1, n) \in Seq(S)
      /\ Len(SubSeq(s, 1, n)) = IF 1 <= n THEN n - 1 + 1 ELSE 0
      /\ \A i \in 1..(n - 1 + 1) : SubSeq(s, 1, n)[i] = s[1 + i - 1]
  BY <1>1, <1>2, SubSeqProperties
<1>5. Len(SubSeq(s, 1, n)) = n
  BY <1>1, <1>4
<1>6. \A i \in 1..n : SubSeq(s, 1, n)[i] = s[i]
  <2> SUFFICES ASSUME NEW i \in 1..n PROVE SubSeq(s, 1, n)[i] = s[i]
    OBVIOUS
  <2>1. i \in 1..(n - 1 + 1) /\ 1 + i - 1 = i
    BY <1>1
  <2> QED BY <1>4, <2>1
<1> QED BY <1>3, <1>4, <1>5, <1>6 DEF n

\* Counting a call leaves the files of the stack as they are.
LEMMA CalledFacts ==
  ASSUME TypeOK, MayCall
  PROVE  /\ Called(stack) \in Seq(Frame) /\ Len(Called(stack)) = Len(stack)
         /\ \A i \in 1..Len(stack) : Called(stack)[i].file = stack[i].file
<1>1. stack \in Seq(Frame)
  BY DEF TypeOK, Frame
<1>2. CASE stack = <<>>
  BY <1>1, <1>2 DEF Called
<1>3. CASE stack # <<>>
  <2>1. Len(stack) \in 1..Len(stack)
    BY <1>1, <1>3
  <2>5. Top \in Frame /\ Top.calls < MaxCalls
    BY <1>1, <1>3, <2>1 DEF Top, MayCall
  <2>6. MaxCalls \in Nat /\ Top.calls \in 0..MaxCalls
    BY <2>5, ConstantsOK DEF Frame
  <2>2. Top \in Frame /\ Top.calls + 1 \in 0..MaxCalls
    BY <2>5, <2>6
  <2>3. [Top EXCEPT !.calls = @ + 1] \in Frame /\ [Top EXCEPT !.calls = @ + 1].file = Top.file
    BY <2>2 DEF Frame
  <2>4. Called(stack) = [stack EXCEPT ![Len(stack)] = [Top EXCEPT !.calls = @ + 1]]
    BY <1>3, <2>1 DEF Called, Top
  <2> QED BY <1>1, <2>1, <2>3, <2>4 DEF Top
<1> QED BY <1>2, <1>3

\* A call during which no module starts or ends.
LEMMA CallKeeps ==
  ASSUME TypeOK, Distinct, MayCall, stack' = Called(stack)
  PROVE  /\ stack' \in Seq(Frame) /\ Len(stack') = Len(stack)
         /\ \A i \in 1..Len(stack) : stack'[i].file = stack[i].file
         /\ stack' = <<>> <=> stack = <<>>
         /\ stack # <<>> => Top'.file = Top.file
         /\ OnStack' = OnStack /\ Distinct'
<1>1. /\ stack' \in Seq(Frame) /\ Len(stack') = Len(stack) /\ Len(stack) \in Nat
      /\ \A i \in 1..Len(stack) : stack'[i].file = stack[i].file
      /\ stack \in Seq(Frame)
  BY CalledFacts DEF TypeOK, Frame
<1>2. stack' = <<>> <=> stack = <<>>
  BY <1>1
<1>3. stack # <<>> => Top'.file = Top.file
  <2>1. stack # <<>> => Len(stack) \in 1..Len(stack)
    BY <1>1
  <2> QED BY <1>1, <2>1 DEF Top
<1>4. OnStack' = OnStack
  BY <1>1 DEF OnStack
<1>5. Distinct'
  BY <1>1 DEF Distinct
<1> QED BY <1>1, <1>2, <1>3, <1>4, <1>5

\* Calls that load nothing, and the exceptions they throw.
LEMMA LookupStep ==
  ASSUME IInv, NEW name \in Names, NEW f,
         \/ NotFound(name)
         \/ f \in Files /\ (Cached(name, f) \/ CannotLoad(name, f) \/ LoadDll(name, f))
  PROVE  IInv'
<1>0. TypeOK /\ FailuresAccounted /\ OwnDirectory /\ Distinct /\ Unrun /\ Chain
  BY DEF IInv
<1>1. /\ MayCall /\ stack' = Called(stack)
      /\ UNCHANGED <<fsPath, dirStack, scripts, runs, threw>>
  BY DEF NotFound, CannotLoad, Cached, LoadDll
<1>2. /\ stack' \in Seq(Frame) /\ Len(stack') = Len(stack)
      /\ \A i \in 1..Len(stack) : stack'[i].file = stack[i].file
      /\ stack' = <<>> <=> stack = <<>>
      /\ stack # <<>> => Top'.file = Top.file
      /\ OnStack' = OnStack /\ Distinct'
  BY <1>0, <1>1, CallKeeps
<1>3. cache' = cache \/ (cache' = [cache EXCEPT ![f] = "exports"] /\ cache[f] = "none")
  BY DEF NotFound, CannotLoad, Cached, LoadDll
<1>4. /\ cache' \in [Files -> {"none", "empty", "exports"}]
      /\ \A g \in Files : cache'[g] = cache[g]
                            \/ (g = f /\ cache[g] = "none" /\ cache'[g] = "exports")
  BY <1>0, <1>3 DEF TypeOK
<1>5. unwinding' \in BOOLEAN /\ (unwinding' => stack' # <<>>)
  <2>1. unwinding' = (stack # <<>>) \/ (unwinding' = unwinding /\ ~unwinding)
    BY DEF NotFound, CannotLoad, Cached, LoadDll, MayCall
  <2>2. unwinding' \in BOOLEAN
    BY <1>0, <2>1 DEF TypeOK
  <2> QED BY <1>2, <2>1, <2>2
<1>6. pages' \in 0..MaxPages
  BY <1>0, <1>1, ConstantsOK DEF NotFound, CannotLoad, Cached, LoadDll, CountPage, MayCall, TypeOK
<1>7. TypeOK'
  BY <1>0, <1>1, <1>2, <1>4, <1>5, <1>6 DEF TypeOK, Frame
<1>8. FailuresAccounted'
  <2>1. \A g \in Files : cache'[g] = "empty" <=> cache[g] = "empty"
    BY <1>4
  <2>2. \A g \in Files : runs[g] > 0 => (cache'[g] # "exports" <=> cache[g] # "exports")
    BY <1>0, <1>4 DEF Unrun
  <2>3. scripts' = {g \in Files : runs'[g] > 0 /\ cache'[g] # "exports"}
    BY <1>0, <1>1, <2>2 DEF FailuresAccounted
  <2> QED BY <1>0, <1>1, <1>2, <2>1, <2>3 DEF FailuresAccounted
<1>9. OwnDirectory'
  BY <1>0, <1>1, <1>2 DEF OwnDirectory
<1>10. Unrun'
  BY <1>0, <1>1, <1>4 DEF Unrun
<1>11. Chain'
  <2> SUFFICES ASSUME threw = {}, NEW i \in 1..Len(stack)
               PROVE  dirStack[i] = IF i = 1 THEN Cwd ELSE Dir[stack'[i - 1].file]
    BY <1>1, <1>2 DEF Chain
  <2>1. i # 1 => i - 1 \in 1..Len(stack)
    OBVIOUS
  <2> QED BY <1>0, <1>2, <2>1 DEF Chain
<1> QED BY <1>2, <1>7, <1>8, <1>9, <1>10, <1>11 DEF IInv

\* A call that loads a file that was not loaded, from a new place for its
\* directory.
LEMMA LoadFacts ==
  ASSUME IInv, NEW name \in Names, NEW f \in Files, Load(name, f)
  PROVE  /\ cache[f] = "none" /\ f \notin OnStack /\ f \notin threw
         /\ dirStack' \in Seq(Dirs) /\ Len(dirStack') = Len(dirStack) + 1
         /\ \A i \in 1..Len(dirStack) : dirStack'[i] = dirStack[i]
         /\ dirStack'[Len(dirStack) + 1] = fsPath
         /\ fsPath' = Dir[f] /\ fsPath' \in Dirs
         /\ pages' \in 0..MaxPages
<1>1. cache[f] = "none" /\ f \notin OnStack /\ f \notin threw
  BY DEF IInv, FailuresAccounted, Load
<1>2. /\ dirStack' \in Seq(Dirs) /\ Len(dirStack') = Len(dirStack) + 1
      /\ \A i \in 1..Len(dirStack) : dirStack'[i] = dirStack[i]
      /\ dirStack'[Len(dirStack) + 1] = fsPath
  BY AppendFacts DEF Load, IInv, TypeOK
<1>3. fsPath' = Dir[f] /\ fsPath' \in Dirs
  BY ConstantsOK DEF Load
<1>4. pages' \in 0..MaxPages
  <2>1. pages \in 0..MaxPages /\ MaxPages \in Nat
    BY ConstantsOK DEF IInv, TypeOK
  <2> QED BY <2>1 DEF Load, CountPage, MayCall
<1> QED BY <1>1, <1>2, <1>3, <1>4

\* A module is put on the stack.
LEMMA StartStep ==
  ASSUME IInv, NEW name \in Names, NEW f \in Files, Starts(name, f)
  PROVE  IInv'
<1>0. TypeOK /\ FailuresAccounted /\ OwnDirectory /\ Distinct /\ Unrun /\ Chain
  BY DEF IInv
<1> DEFINE n == Len(stack)
<1>1. /\ cache[f] = "none" /\ f \notin OnStack /\ f \notin threw
      /\ dirStack' \in Seq(Dirs) /\ Len(dirStack') = Len(dirStack) + 1
      /\ \A i \in 1..Len(dirStack) : dirStack'[i] = dirStack[i]
      /\ dirStack'[Len(dirStack) + 1] = fsPath
      /\ fsPath' = Dir[f] /\ fsPath' \in Dirs
      /\ pages' \in 0..MaxPages
  BY LoadFacts DEF Starts
<1>2. /\ MayCall /\ stack' = Append(Called(stack), [file |-> f, calls |-> 0])
      /\ cache' = [cache EXCEPT ![f] = "empty"]
      /\ scripts' = scripts \cup {f} /\ runs' = [runs EXCEPT ![f] = @ + 1]
      /\ unwinding' = unwinding /\ threw' = threw
  BY DEF Starts, Load, Placeholder
<1>3. /\ Called(stack) \in Seq(Frame) /\ Len(Called(stack)) = n /\ n \in Nat
      /\ \A i \in 1..n : Called(stack)[i].file = stack[i].file
  BY <1>0, <1>2, CalledFacts
<1>4. [file |-> f, calls |-> 0] \in Frame
  BY ConstantsOK DEF Frame
<1>5. /\ stack' \in Seq(Frame) /\ Len(stack') = n + 1
      /\ \A i \in 1..n : stack'[i].file = stack[i].file
      /\ stack'[n + 1].file = f
  BY <1>2, <1>3, <1>4, AppendFacts
<1> HIDE DEF n
<1>6. OnStack' = OnStack \cup {f}
  <2>1. DOMAIN stack = 1..n /\ DOMAIN stack' = 1..(n + 1)
    BY <1>0, <1>5 DEF TypeOK, n
  <2>2. \A i \in 1..(n + 1) : i \in 1..n \/ i = n + 1
    BY <1>3
  <2>3. n + 1 \in 1..(n + 1) /\ \A i \in 1..n : i \in 1..(n + 1)
    BY <1>3
  <2> QED BY <1>5, <2>1, <2>2, <2>3 DEF OnStack
<1>7. Distinct'
  <2>1. \A i \in 1..n : stack[i].file # f
    BY <1>0, <1>1 DEF OnStack, TypeOK, n
  <2> QED BY <1>0, <1>3, <1>5, <2>1 DEF Distinct, n
<1>8. stack' # <<>> /\ Top'.file = f
  BY <1>3, <1>5 DEF Top
<1>9. /\ cache' \in [Files -> {"none", "empty", "exports"}] /\ cache'[f] = "empty"
      /\ \A g \in Files : g # f => cache'[g] = cache[g]
  BY <1>0, <1>2 DEF TypeOK
<1>10. /\ runs' \in [Files -> 0..1] /\ runs[f] = 0 /\ runs'[f] = 1
       /\ \A g \in Files : g # f => runs'[g] = runs[g]
  BY <1>0, <1>1, <1>2 DEF TypeOK, Unrun
<1>11. TypeOK'
  <2>1. stack' \in Seq([file : Files, calls : 0..MaxCalls])
    BY <1>5 DEF Frame
  <2>2. scripts' \subseteq Files /\ threw' \subseteq Files
    BY <1>0, <1>2 DEF TypeOK
  <2>3. unwinding' \in BOOLEAN
    BY <1>0, <1>2 DEF TypeOK
  <2> QED BY <1>1, <1>8, <1>9, <1>10, <2>1, <2>2, <2>3 DEF TypeOK
<1>12. FailuresAccounted'
  <2>1. Cardinality(threw) \in Nat
    BY <1>0, ConstantsOK, FS_Subset, FS_CardinalityType DEF TypeOK
  <2>2. Len(dirStack') = Len(stack') + Cardinality(threw')
    BY <1>0, <1>1, <1>2, <1>3, <1>5, <2>1 DEF FailuresAccounted, n
  <2>3. \A g \in Files : cache'[g] = "empty" <=> g \in OnStack' \cup threw'
    BY <1>0, <1>2, <1>6, <1>9 DEF FailuresAccounted
  <2>4. scripts' = {g \in Files : runs'[g] > 0 /\ cache'[g] # "exports"}
    BY <1>0, <1>2, <1>9, <1>10 DEF FailuresAccounted
  <2> QED BY <1>0, <1>1, <1>2, <1>6, <2>2, <2>3, <2>4 DEF FailuresAccounted
<1>13. OwnDirectory'
  BY <1>1, <1>8 DEF OwnDirectory
<1>14. Unrun'
  BY <1>0, <1>9, <1>10 DEF Unrun
<1>15. Chain'
  <2> SUFFICES ASSUME threw = {}, NEW i \in 1..(n + 1)
               PROVE  dirStack'[i] = IF i = 1 THEN Cwd ELSE Dir[stack'[i - 1].file]
    BY <1>2, <1>5 DEF Chain
  <2>1. Len(dirStack) = n
    BY <1>0, <1>3, FS_EmptySet DEF FailuresAccounted, n
  <2>2. CASE i \in 1..n
    <3>1. dirStack'[i] = dirStack[i]
      BY <1>1, <2>1, <2>2
    <3>2. i # 1 => i - 1 \in 1..n
      BY <1>3, <2>2
    <3> QED BY <1>0, <1>5, <2>2, <3>1, <3>2 DEF Chain, n
  <2>3. CASE i = n + 1
    <3>1. dirStack'[i] = fsPath
      BY <1>1, <2>1, <2>3
    <3>2. fsPath = IF n = 0 THEN Cwd ELSE Dir[stack[n].file]
      BY <1>0 DEF OwnDirectory, TypeOK, Top, n
    <3>3. n # 0 => n \in 1..n /\ i - 1 = n
      BY <1>3, <2>3
    <3>4. n = 0 <=> i = 1
      BY <1>3, <2>3
    <3> QED BY <1>5, <3>1, <3>2, <3>3, <3>4
  <2> QED BY <1>3, <2>2, <2>3
<1> QED BY <1>7, <1>11, <1>12, <1>13, <1>14, <1>15 DEF IInv

\* A failed module more.
LEMMA OneMore ==
  ASSUME TypeOK, NEW f \in Files, f \notin threw, threw' = threw \cup {f}
  PROVE  /\ threw' \subseteq Files /\ threw' # {}
         /\ Cardinality(threw') = Cardinality(threw) + 1 /\ Cardinality(threw) \in Nat
<1>1. IsFiniteSet(threw) /\ threw \subseteq Files
  BY ConstantsOK, FS_Subset DEF TypeOK
<1> QED BY <1>1, FS_AddElement, FS_CardinalityType

\* The module is not put on the stack, for its code does not compile.
LEMMA FailStep ==
  ASSUME IInv, NEW name \in Names, NEW f \in Files, DoesNotCompile(name, f)
  PROVE  IInv'
<1>0. TypeOK /\ FailuresAccounted /\ OwnDirectory /\ Distinct /\ Unrun /\ Chain
  BY DEF IInv
<1>1. /\ cache[f] = "none" /\ f \notin OnStack /\ f \notin threw
      /\ dirStack' \in Seq(Dirs) /\ Len(dirStack') = Len(dirStack) + 1
      /\ fsPath' = Dir[f] /\ fsPath' \in Dirs
      /\ pages' \in 0..MaxPages
  BY LoadFacts DEF DoesNotCompile
<1>2. /\ MayCall /\ stack' = Called(stack)
      /\ cache' = [cache EXCEPT ![f] = "empty"]
      /\ scripts' = scripts /\ runs' = runs
      /\ unwinding' = (stack # <<>>) /\ threw' = threw \cup {f}
  BY DEF DoesNotCompile, Load, Placeholder
<1>3. /\ stack' \in Seq(Frame) /\ Len(stack') = Len(stack)
      /\ stack' = <<>> <=> stack = <<>>
      /\ OnStack' = OnStack /\ Distinct'
  BY <1>0, <1>2, CallKeeps
<1>4. /\ threw' \subseteq Files /\ threw' # {}
      /\ Cardinality(threw') = Cardinality(threw) + 1 /\ Cardinality(threw) \in Nat
  BY <1>0, <1>1, <1>2, OneMore
<1>5. /\ cache' \in [Files -> {"none", "empty", "exports"}] /\ cache'[f] = "empty"
      /\ \A g \in Files : g # f => cache'[g] = cache[g]
  BY <1>0, <1>2 DEF TypeOK
<1>6. TypeOK'
  <2>1. stack' \in Seq([file : Files, calls : 0..MaxCalls])
    BY <1>3 DEF Frame
  <2>2. unwinding' \in BOOLEAN
    BY <1>2
  <2>3. unwinding' => stack' # <<>>
    BY <1>2, <1>3
  <2>4. scripts' \subseteq Files /\ runs' \in [Files -> 0..1]
    BY <1>0, <1>2 DEF TypeOK
  <2> QED BY <1>1, <1>4, <1>5, <2>1, <2>2, <2>3, <2>4 DEF TypeOK
<1>7. FailuresAccounted'
  <2>1. Len(stack) \in Nat
    BY <1>0 DEF TypeOK
  <2>2. Len(dirStack') = Len(stack') + Cardinality(threw')
    BY <1>0, <1>1, <1>3, <1>4, <2>1 DEF FailuresAccounted
  <2>3. \A g \in Files : cache'[g] = "empty" <=> g \in OnStack' \cup threw'
    BY <1>0, <1>2, <1>3, <1>5 DEF FailuresAccounted
  <2>4. scripts' = {g \in Files : runs'[g] > 0 /\ cache'[g] # "exports"}
    BY <1>0, <1>1, <1>2, <1>5 DEF FailuresAccounted
  <2> QED BY <1>0, <1>1, <1>2, <1>3, <2>2, <2>3, <2>4 DEF FailuresAccounted
<1>8. OwnDirectory' /\ Chain'
  BY <1>4 DEF OwnDirectory, Chain
<1>9. Unrun'
  BY <1>0, <1>2, <1>5 DEF Unrun
<1> QED BY <1>3, <1>6, <1>7, <1>8, <1>9 DEF IInv

-----------------------------------------------------------------------------
\* What a module that leaves the stack leaves on it.
LEMMA PopKeeps ==
  ASSUME IInv, stack # <<>>, stack' = Pop(stack)
  PROVE  /\ Len(stack) \in Nat \ {0} /\ Len(stack') = Len(stack) - 1
         /\ stack' \in Seq(Frame)
         /\ \A i \in 1..(Len(stack) - 1) : stack'[i] = stack[i]
         /\ Top.file \in Files /\ Top.file \in OnStack
         /\ OnStack' = OnStack \ {Top.file} /\ Distinct'
<1> DEFINE n == Len(stack)
<1>1. stack \in Seq(Frame) /\ n \in Nat \ {0} /\ DOMAIN stack = 1..n
  BY DEF IInv, TypeOK, Frame
<1>2. /\ stack' \in Seq(Frame) /\ Len(stack') = n - 1
      /\ \A i \in 1..(n - 1) : stack'[i] = stack[i]
  <2>1. stack \in Seq(Frame) /\ Len(stack) > 0
    BY <1>1
  <2> QED BY <2>1, PopFacts
<1>3. Top = stack[n]
  BY DEF Top
<1>5. Top \in Frame
  <2>1. n \in 1..n
    BY <1>1
  <2> QED BY <1>1, <1>3, <2>1
<1> HIDE DEF n
<1>4. n \in 1..n /\ \A i \in 1..n : i \in 1..(n - 1) \/ i = n
  BY <1>1
<1>6. \A i, j \in 1..n : stack[i].file = stack[j].file => i = j
  BY DEF IInv, Distinct, n
<1>7. \A i \in 1..(n - 1) : i \in 1..n /\ i # n
  BY <1>1
<1>8. DOMAIN stack' = 1..(n - 1)
  BY <1>2
<1>9. OnStack' = OnStack \ {Top.file}
  BY <1>1, <1>2, <1>3, <1>4, <1>6, <1>7, <1>8 DEF OnStack
<1>10. Distinct'
  BY <1>2, <1>6, <1>7 DEF Distinct
<1> QED BY <1>1, <1>2, <1>3, <1>4, <1>5, <1>9, <1>10 DEF n, OnStack, Frame

\* A module ends.
LEMMA ReturnStep ==
  ASSUME IInv, Returns
  PROVE  IInv'
<1>0. TypeOK /\ FailuresAccounted /\ OwnDirectory /\ Distinct /\ Unrun /\ Chain
  BY DEF IInv
<1> DEFINE n == Len(stack)
           f == Top.file
<1>1. /\ stack # <<>> /\ stack' = Pop(stack)
      /\ scripts' = scripts \ {f}
      /\ fsPath' = dirStack[Len(dirStack)] /\ dirStack' = Pop(dirStack)
      /\ UNCHANGED <<unwinding, threw, pages>> /\ ~unwinding
  BY DEF Returns, Restore
<1>13. \/ cache' = [cache EXCEPT ![f] = "exports"] /\ runs' = runs
       \/ cache' = [cache EXCEPT ![f] = "none"] /\ runs' = [runs EXCEPT ![f] = 0]
  BY DEF Returns
<1>2. /\ n \in Nat \ {0} /\ Len(stack') = n - 1
      /\ stack' \in Seq(Frame)
      /\ \A i \in 1..(n - 1) : stack'[i] = stack[i]
      /\ f \in Files /\ f \in OnStack
      /\ OnStack' = OnStack \ {f} /\ Distinct'
  BY <1>1, PopKeeps
<1> HIDE DEF n, f
<1>3. Cardinality(threw) \in Nat
  BY <1>0, ConstantsOK, FS_Subset, FS_CardinalityType DEF TypeOK
<1>4. dirStack \in Seq(Dirs) /\ Len(dirStack) = n + Cardinality(threw) /\ Len(dirStack) > 0
  BY <1>0, <1>2, <1>3 DEF TypeOK, FailuresAccounted, n
<1>5. /\ dirStack' \in Seq(Dirs) /\ Len(dirStack') = Len(dirStack) - 1
      /\ \A i \in 1..(Len(dirStack) - 1) : dirStack'[i] = dirStack[i]
      /\ fsPath' \in Dirs
  BY <1>1, <1>4, PopFacts
<1>6. /\ cache' \in [Files -> {"none", "empty", "exports"}]
      /\ runs' \in [Files -> 0..1]
      /\ cache'[f] = "exports" \/ (cache'[f] = "none" /\ runs'[f] = 0)
      /\ \A g \in Files : g # f => cache'[g] = cache[g] /\ runs'[g] = runs[g]
  <2>1. cache \in [Files -> {"none", "empty", "exports"}] /\ runs \in [Files -> 0..1]
    BY <1>0 DEF TypeOK
  <2>2. CASE cache' = [cache EXCEPT ![f] = "exports"] /\ runs' = runs
    <3>1. cache' \in [Files -> {"none", "empty", "exports"}] /\ cache'[f] = "exports"
      BY <1>2, <2>1, <2>2
    <3>2. \A g \in Files : g # f => cache'[g] = cache[g]
      BY <1>2, <2>1, <2>2
    <3> QED BY <2>1, <2>2, <3>1, <3>2
  <2>3. CASE cache' = [cache EXCEPT ![f] = "none"] /\ runs' = [runs EXCEPT ![f] = 0]
    <3>1. cache' \in [Files -> {"none", "empty", "exports"}] /\ cache'[f] = "none"
      BY <1>2, <2>1, <2>3
    <3>2. runs' \in [Files -> 0..1] /\ runs'[f] = 0
      BY <1>2, <2>1, <2>3
    <3>3. \A g \in Files : g # f => cache'[g] = cache[g] /\ runs'[g] = runs[g]
      BY <1>2, <2>1, <2>3
    <3> QED BY <3>1, <3>2, <3>3
  <2> QED BY <1>13, <2>2, <2>3
<1>7. TypeOK'
  <2>1. stack' \in Seq([file : Files, calls : 0..MaxCalls])
    BY <1>2 DEF Frame
  <2>2. /\ scripts' \subseteq Files /\ threw' \subseteq Files
        /\ pages' \in 0..MaxPages
    BY <1>0, <1>1 DEF TypeOK
  <2>3. unwinding' \in BOOLEAN
    BY <1>0, <1>1 DEF TypeOK
  <2> QED BY <1>1, <1>5, <1>6, <2>1, <2>2, <2>3 DEF TypeOK
<1>8. FailuresAccounted'
  <2>1. Len(dirStack') = Len(stack') + Cardinality(threw')
    BY <1>1, <1>2, <1>3, <1>4, <1>5
  <2>2. \A g \in Files : cache'[g] = "empty" <=> g \in OnStack' \cup threw'
    BY <1>0, <1>1, <1>2, <1>6 DEF FailuresAccounted
  <2>3. scripts' = {g \in Files : runs'[g] > 0 /\ cache'[g] # "exports"}
    BY <1>0, <1>1, <1>6 DEF FailuresAccounted
  <2> QED BY <1>0, <1>1, <1>2, <2>1, <2>2, <2>3 DEF FailuresAccounted
<1>9. threw = {} => Len(dirStack) = n
  BY <1>2, <1>4, FS_EmptySet
<1>10. OwnDirectory'
  <2> SUFFICES ASSUME threw = {} PROVE fsPath' = IF stack' = <<>> THEN Cwd ELSE Dir[Top'.file]
    BY <1>1 DEF OwnDirectory
  <2>1. n \in 1..n /\ (n # 1 => n - 1 \in 1..(n - 1))
    BY <1>2
  <2>2. fsPath' = IF n = 1 THEN Cwd ELSE Dir[stack[n - 1].file]
    BY <1>0, <1>1, <1>9, <2>1 DEF Chain, n
  <2>3. stack' = <<>> <=> n = 1
    BY <1>2
  <2>4. n # 1 => Top'.file = stack[n - 1].file
    BY <1>2, <2>1 DEF Top
  <2> QED BY <2>2, <2>3, <2>4
<1>11. Unrun'
  BY <1>0, <1>1, <1>6 DEF Unrun
<1>12. Chain'
  <2> SUFFICES ASSUME threw = {}, NEW i \in 1..(n - 1)
               PROVE  dirStack'[i] = IF i = 1 THEN Cwd ELSE Dir[stack'[i - 1].file]
    BY <1>1, <1>2 DEF Chain
  <2>1. i \in 1..n /\ (i # 1 => i - 1 \in 1..(n - 1))
    BY <1>2
  <2>2. dirStack'[i] = dirStack[i]
    BY <1>5, <1>9
  <2> QED BY <1>0, <1>2, <2>1, <2>2 DEF Chain, n
<1> QED BY <1>2, <1>7, <1>8, <1>10, <1>11, <1>12 DEF IInv

\* An exception leaves a module.
LEMMA LeaveStep ==
  ASSUME IInv, Leaves
  PROVE  IInv'
<1>0. TypeOK /\ FailuresAccounted /\ OwnDirectory /\ Distinct /\ Unrun /\ Chain
  BY DEF IInv
<1>1. /\ stack # <<>> /\ stack' = Pop(stack)
      /\ threw' = threw \cup {Top.file} /\ unwinding' = (Len(stack) > 1)
      /\ UNCHANGED <<fsPath, dirStack, cache, scripts, runs, pages>>
  BY DEF Leaves
<1>2. /\ Len(stack) \in Nat \ {0} /\ Len(stack') = Len(stack) - 1
      /\ stack' \in Seq(Frame)
      /\ Top.file \in Files /\ Top.file \in OnStack
      /\ OnStack' = OnStack \ {Top.file} /\ Distinct'
  BY <1>1, PopKeeps
<1>3. /\ threw' \subseteq Files /\ threw' # {}
      /\ Cardinality(threw') = Cardinality(threw) + 1 /\ Cardinality(threw) \in Nat
  BY <1>0, <1>1, <1>2, OneMore DEF FailuresAccounted
<1>4. TypeOK'
  <2>1. stack' \in Seq([file : Files, calls : 0..MaxCalls])
    BY <1>2 DEF Frame
  <2>2. unwinding' \in BOOLEAN
    BY <1>1
  <2>3. unwinding' => stack' # <<>>
    <3>1. Len(stack) > 1 => stack' # <<>>
      BY <1>2
    <3> QED BY <1>1, <3>1
  <2> QED BY <1>0, <1>1, <1>3, <2>1, <2>2, <2>3 DEF TypeOK
<1>5. FailuresAccounted'
  <2>1. Len(dirStack') = Len(stack') + Cardinality(threw')
    BY <1>0, <1>1, <1>2, <1>3 DEF FailuresAccounted
  <2> QED BY <1>0, <1>1, <1>2, <2>1 DEF FailuresAccounted
<1>6. OwnDirectory' /\ Chain'
  BY <1>3 DEF OwnDirectory, Chain
<1>7. Unrun'
  BY <1>0, <1>1 DEF Unrun
<1> QED BY <1>2, <1>4, <1>5, <1>6, <1>7 DEF IInv

-----------------------------------------------------------------------------
LEMMA InitInv == Init => IInv
<1> SUFFICES ASSUME Init PROVE IInv
  OBVIOUS
<1>1. /\ stack = <<>> /\ Len(stack) = 0 /\ dirStack = <<>> /\ Len(dirStack) = 0
      /\ unwinding = FALSE /\ fsPath = Cwd /\ scripts = {} /\ threw = {} /\ pages = 0
  BY DEF Init
<1>2. cache = [f \in Files |-> "none"] /\ runs = [f \in Files |-> 0]
  BY DEF Init
<1>3. stack \in Seq([file : Files, calls : 0..MaxCalls]) /\ dirStack \in Seq(Dirs)
  BY <1>1
<1>4. pages \in 0..MaxPages
  BY <1>1, ConstantsOK
<1>5. unwinding \in BOOLEAN
  BY <1>1
<1>6. TypeOK
  BY <1>1, <1>2, <1>3, <1>4, <1>5, ConstantsOK DEF TypeOK
<1>7. OnStack = {}
  BY <1>1 DEF OnStack
<1>8. FailuresAccounted
  BY <1>1, <1>2, <1>7, FS_EmptySet DEF FailuresAccounted
<1> QED BY <1>1, <1>2, <1>6, <1>8 DEF IInv, OwnDirectory, Distinct, Unrun, Chain

\* IInv holds at first and every step keeps it.
LEMMA Inductive == Spec => []IInv
<1>1. IInv /\ [Next]_vars => IInv'
  <2> SUFFICES ASSUME IInv, [Next]_vars PROVE IInv'
    OBVIOUS
  <2>1. ASSUME NEW name \in Names, NotFound(name) PROVE IInv'
    BY <2>1, LookupStep
  <2>2. ASSUME NEW name \in Names, NEW f \in Files, Cached(name, f) \/ CannotLoad(name, f) \/ LoadDll(name, f)
        PROVE  IInv'
    BY <2>2, LookupStep
  <2>3. ASSUME NEW name \in Names, NEW f \in Files, Starts(name, f) PROVE IInv'
    BY <2>3, StartStep
  <2>4. ASSUME NEW name \in Names, NEW f \in Files, DoesNotCompile(name, f) PROVE IInv'
    BY <2>4, FailStep
  <2>5. CASE Returns
    BY <2>5, ReturnStep
  <2>6. CASE Throws \/ Unwind
    BY <2>6, LeaveStep DEF Throws, Unwind
  <2>7. CASE Catches
    <3>1. unwinding' \in BOOLEAN
      BY <2>7 DEF Catches
    <3> QED BY <2>7, <3>1 DEF Catches, IInv, TypeOK, FailuresAccounted, OwnDirectory,
                              Distinct, Unrun, Chain, OnStack, Top
  <2>8. CASE UNCHANGED vars
    BY <2>8 DEF vars, IInv, TypeOK, FailuresAccounted, OwnDirectory, Distinct, Unrun,
                Chain, OnStack, Top
  <2> QED BY <2>1, <2>2, <2>3, <2>4, <2>5, <2>6, <2>7, <2>8 DEF Next
<1> QED BY <1>1, InitInv, PTL DEF Spec

\* Every variable keeps its type, and no module's code is run twice: the cache
\* ends every cycle of modules that require each other (require.js:112).
THEOREM Typing == Spec => []TypeOK
<1>1. IInv => TypeOK
  BY DEF IInv
<1> QED BY <1>1, Inductive, PTL

\* While nothing has failed, code that runs finds its own directory in fsPath,
\* whatever it has required (require.js:108-111 and 131).
THEOREM RightDirectory == Spec => []OwnDirectory
<1>1. IInv => OwnDirectory
  BY DEF IInv
<1> QED BY <1>1, Inductive, PTL

\* Each module that failed leaves one directory, one empty object and at most one
\* script, and nothing else does (require.js:108-127).
THEOREM ExactFailures == Spec => []FailuresAccounted
<1>1. IInv => FailuresAccounted
  BY DEF IInv
<1> QED BY <1>1, Inductive, PTL
=============================================================================
