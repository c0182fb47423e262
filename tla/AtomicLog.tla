------------------------------ MODULE AtomicLog ------------------------------
(***************************************************************************)
(* What src/src/logfile.cpp promises: processes append whole lines to one  *)
(* log, each exactly once, and the file on disk is always a prefix of that *)
(* log.  There are no processes, locks or buffers here.                    *)
(***************************************************************************)
EXTENDS Naturals, Sequences

CONSTANTS
  Lines,    \* the lines that may be logged, each at most once
  LineLen   \* LineLen[l] is the number of bytes of line l

VARIABLES
  log,      \* the bytes logged so far, flushed or not
  disk,     \* the bytes in the file
  logged    \* the lines in the log

vars == <<log, disk, logged>>

\* The bytes of line l: byte i is the pair <<l, i>>.
Bytes(l) == [i \in 1..LineLen[l] |-> <<l, i>>]

Init ==
  /\ log = <<>>
  /\ disk = <<>>
  /\ logged = {}

AppendLine(l) ==
  /\ l \notin logged
  /\ log' = log \o Bytes(l)
  /\ logged' = logged \cup {l}
  /\ UNCHANGED disk

\* Some more of the log reaches the file.
Persist ==
  /\ \E n \in Len(disk)..Len(log) : disk' = SubSeq(log, 1, n)
  /\ UNCHANGED <<log, logged>>

Next == Persist \/ \E l \in Lines : AppendLine(l)

Spec == Init /\ [][Next]_vars
=============================================================================
