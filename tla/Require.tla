------------------------------- MODULE Require --------------------------------
(***************************************************************************)
(* The module loader: require() of src/builtin/require.js, called by the   *)
(* pages that the server runs and, while they load, by the modules.        *)
(*                                                                         *)
(* JavaScript runs one thing at a time: `stack' is the modules being loaded, *)
(* each required by the one before it.  What a module requires is not fixed: *)
(* every module, and every page, requires what it likes, throws when it    *)
(* likes, and catches an exception of a module it requires or does not.    *)
(* The server catches what a page throws (src/httpd/child.js:493) and goes *)
(* on with the next page, and the loader keeps its state.                  *)
(***************************************************************************)
EXTENDS Naturals, Sequences, FiniteSets

CONSTANTS
  Files,      \* the files that hold modules
  Dlls,       \* those that are shared libraries
  Coffee,     \* those that are compiled from CoffeeScript before they run
  Names,      \* what require() is called with
  Plain,      \* the names that do not begin with / or ./ or ../
  Dirs,       \* the directories
  Entries,    \* what the directories of require.path are written as
  Under,      \* Under[d][e] is the directory that entry e leads to from d
  At,         \* At[d][n] is the file that name n leads to from directory d
  Dir,        \* Dir[f] is the directory of file f
  Cwd,        \* the working directory
  Path,       \* require.path
  MaxCalls,   \* bound: the calls of require() by one module
  MaxPages,   \* bound: the calls of require() by pages
  None        \* no file

ASSUME ConstantsOK ==
  /\ Dlls \subseteq Files /\ Coffee \subseteq Files /\ Plain \subseteq Names
  /\ Cwd \in Dirs /\ Path \in Seq(Entries) /\ Under \in [Dirs -> [Entries -> Dirs]]
  /\ Dir \in [Files -> Dirs]
  /\ At \in [Dirs -> [Names -> Files \cup {None}]]
  /\ MaxCalls \in Nat /\ MaxPages \in Nat
  /\ None \notin Files /\ IsFiniteSet(Files)

VARIABLES
  stack,     \* the modules being loaded: [file, calls], and its calls so far
  unwinding, \* an exception is on its way up the stack
  fsPath,    \* require.fsPath
  dirStack,  \* require.dirStack
  cache,     \* require.cache: "none" (or what is falsy), "empty" (the {} put
             \* there first), "exports"
  scripts,   \* the files whose compiled script was not freed
  runs,      \* how often each module's code was run since it last left falsy exports
  threw,     \* the modules whose loading ended in an exception
  pages      \* the calls of require() by pages

vars == <<stack, unwinding, fsPath, dirStack, cache, scripts, runs, threw, pages>>

Init ==
  /\ stack = <<>> /\ unwinding = FALSE
  /\ fsPath = Cwd /\ dirStack = <<>>
  /\ cache = [f \in Files |-> "none"]
  /\ scripts = {} /\ runs = [f \in Files |-> 0] /\ threw = {} /\ pages = 0

Top == stack[Len(stack)]
Pop(s) == SubSeq(s, 1, Len(s) - 1)
OnStack == {stack[i].file : i \in DOMAIN stack}

\* Where a name is looked for, in order: tryFile() tries every path as it stands,
\* which is from the working directory, and then after require.fsPath.
Places(name) ==
  IF name \in Plain
  THEN [k \in 1..(2 * Len(Path)) |->
         IF k % 2 = 1 THEN Under[Cwd][Path[(k + 1) \div 2]]
                      ELSE Under[fsPath][Path[k \div 2]]]
  ELSE <<Cwd, fsPath>>

\* locateFile(): f is the file that name leads to, None if it throws.
Locate(name, f) ==
  \/ \E i \in DOMAIN Places(name) :
       /\ f = At[Places(name)[i]][name] /\ f # None
       /\ \A j \in 1..(i - 1) : At[Places(name)[j]][name] = None
  \/ f = None /\ \A i \in DOMAIN Places(name) : At[Places(name)[i]][name] = None

-----------------------------------------------------------------------------
\* The code that runs, of a page or of the last module on the stack, calls
\* require().
MayCall ==
  /\ ~unwinding
  /\ IF stack = <<>> THEN pages < MaxPages ELSE Top.calls < MaxCalls

Called(s) == IF s = <<>> THEN s ELSE [s EXCEPT ![Len(s)].calls = @ + 1]
CountPage == pages' = IF stack = <<>> THEN pages + 1 ELSE pages

\* There is no such file.
NotFound(name) ==
  /\ MayCall /\ Locate(name, None)
  /\ unwinding' = (stack # <<>>)
  /\ stack' = Called(stack) /\ CountPage
  /\ UNCHANGED <<fsPath, dirStack, cache, scripts, runs, threw>>

\* The file is there, but it cannot be linked, or read and translated to
\* JavaScript: this throws before anything is noted.
CannotLoad(name, f) ==
  /\ MayCall /\ Locate(name, f)
  /\ cache[f] = "none" /\ f \in Dlls \cup Coffee
  /\ unwinding' = (stack # <<>>)
  /\ stack' = Called(stack) /\ CountPage
  /\ UNCHANGED <<fsPath, dirStack, cache, scripts, runs, threw>>

\* The module is in the cache, loaded or not, with a value that is not falsy.
Cached(name, f) ==
  /\ MayCall /\ Locate(name, f)
  /\ cache[f] # "none"
  /\ stack' = Called(stack) /\ CountPage
  /\ UNCHANGED <<unwinding, fsPath, dirStack, cache, scripts, runs, threw>>

\* A shared library is loaded, and no directory changes.
LoadDll(name, f) ==
  /\ MayCall /\ Locate(name, f)
  /\ cache[f] = "none" /\ f \in Dlls
  /\ cache' = [cache EXCEPT ![f] = "exports"]
  /\ stack' = Called(stack) /\ CountPage
  /\ UNCHANGED <<unwinding, fsPath, dirStack, scripts, runs, threw>>

\* A call that loads file f, up to the compilation of its code.
Load(name, f) ==
  /\ MayCall /\ Locate(name, f)
  /\ cache[f] = "none" /\ f \notin Dlls
  /\ dirStack' = Append(dirStack, fsPath)
  /\ fsPath' = Dir[f]
  /\ CountPage

\* Mutant of Placeholder: nothing is put in the cache before the module runs.
Placeholder_Not(f) == cache

\* What is in the cache while the module is loaded.
Placeholder(f) == [cache EXCEPT ![f] = "empty"]

\* The code compiles and runs.
Starts(name, f) ==
  /\ Load(name, f)
  /\ cache' = Placeholder(f)
  /\ stack' = Append(Called(stack), [file |-> f, calls |-> 0])
  /\ scripts' = scripts \cup {f}
  /\ runs' = [runs EXCEPT ![f] = @ + 1]
  /\ UNCHANGED <<unwinding, threw>>

\* The code does not compile.
DoesNotCompile(name, f) ==
  /\ Load(name, f)
  /\ cache' = Placeholder(f)
  /\ stack' = Called(stack)
  /\ unwinding' = (stack # <<>>)
  /\ threw' = threw \cup {f}
  /\ UNCHANGED <<scripts, runs>>

-----------------------------------------------------------------------------
\* Mutant of Restore: fsPath is taken from the stack and left on it.
Restore_NoPop == fsPath' = dirStack[Len(dirStack)] /\ UNCHANGED dirStack

\* require.fsPath = require.dirStack.pop()
Restore == fsPath' = dirStack[Len(dirStack)] /\ dirStack' = Pop(dirStack)

\* Mutant of Returns: the script is not freed.
Returns_NotFreed ==
  /\ stack # <<>> /\ ~unwinding
  /\ cache' = [cache EXCEPT ![Top.file] = "exports"]
  /\ Restore
  /\ stack' = Pop(stack)
  /\ UNCHANGED <<unwinding, scripts, runs, threw, pages>>

\* The code of the module ends, and its exports go to the cache and to the code
\* that required it.  Exports that are falsy (code that returns 0 or null) are in
\* the cache for nothing: the next require() finds the module not loaded.
Returns ==
  /\ stack # <<>> /\ ~unwinding
  /\ \/ /\ cache' = [cache EXCEPT ![Top.file] = "exports"]
        /\ UNCHANGED runs
     \/ /\ cache' = [cache EXCEPT ![Top.file] = "none"]
        /\ runs' = [runs EXCEPT ![Top.file] = 0]
  /\ scripts' = scripts \ {Top.file}
  /\ Restore
  /\ stack' = Pop(stack)
  /\ UNCHANGED <<unwinding, threw, pages>>

\* An exception leaves the last module on the stack, and the call of require()
\* that loads it, which restores nothing and frees nothing.  The server catches
\* it if no module does.
Leaves ==
  /\ stack # <<>>
  /\ threw' = threw \cup {Top.file}
  /\ stack' = Pop(stack)
  /\ unwinding' = (Len(stack) > 1)
  /\ UNCHANGED <<fsPath, dirStack, cache, scripts, runs, pages>>

\* The code of the module throws.
Throws == ~unwinding /\ Leaves

\* It does not catch what a module that it required threw.
Unwind == unwinding /\ Leaves

\* It does.
Catches ==
  /\ unwinding
  /\ unwinding' = FALSE
  /\ UNCHANGED <<stack, fsPath, dirStack, cache, scripts, runs, threw, pages>>

Next ==
  \/ \E name \in Names :
       \/ NotFound(name)
       \/ \E f \in Files :
            \/ Cached(name, f) \/ CannotLoad(name, f) \/ LoadDll(name, f)
            \/ Starts(name, f) \/ DoesNotCompile(name, f)
  \/ Returns \/ Throws \/ Unwind \/ Catches

Spec == Init /\ [][Next]_vars

-----------------------------------------------------------------------------
\* Every variable has its type, and no module is run twice, in a cycle either,
\* unless its exports were falsy.
TypeOK ==
  /\ stack \in Seq([file : Files, calls : 0..MaxCalls])
  /\ unwinding \in BOOLEAN
  /\ fsPath \in Dirs /\ dirStack \in Seq(Dirs)
  /\ cache \in [Files -> {"none", "empty", "exports"}]
  /\ scripts \subseteq Files /\ threw \subseteq Files
  /\ runs \in [Files -> 0..1]
  /\ pages \in 0..MaxPages
  /\ unwinding => stack # <<>>

\* While nothing has failed, a module runs with its own directory in fsPath, also
\* after all that it required, in other directories or in a cycle, was loaded;
\* and so does a page with the working directory.
OwnDirectory ==
  threw = {} => fsPath = IF stack = <<>> THEN Cwd ELSE Dir[Top.file]

\* What an exception leaves behind is exact: of each module that failed, and of
\* no other, one directory on the stack of directories, an empty object in the
\* cache, which everyone who requires the module gets from then on, and the
\* script, if it had compiled.
FailuresAccounted ==
  /\ Len(dirStack) = Len(stack) + Cardinality(threw)
  /\ OnStack \cap threw = {}
  /\ \A f \in Files : cache[f] = "empty" <=> f \in OnStack \cup threw
  /\ scripts = {f \in Files : runs[f] > 0 /\ cache[f] # "exports"}
=============================================================================
