--------------------------------- MODULE Mail ---------------------------------
(***************************************************************************)
(* Mail.send() of src/modules/Mail.js: the mail is written to a file in    *)
(* /tmp by fs.writeFile(), sendmail is run on the file by a shell, and the *)
(* file is unlinked.  The name of the file ends in the MIME boundary, which *)
(* is unique; a mail of plain text has none, so that the file of every such *)
(* mail is /tmp/undefined.                                                 *)
(*                                                                         *)
(* The processes also use files of their own, by the calls of FileIO.      *)
(***************************************************************************)
EXTENDS FileIO

CONSTANTS
  Mails,   \* the mails, each sent at most once
  Spool    \* Spool[m] is the name of the file of mail m

ASSUME MailConstantsOK ==
  /\ Mails \subseteq Data
  /\ Spool \in [Mails -> Names]

VARIABLES
  at,       \* where each process is in send(): "none" if it is not
  mail,     \* the mail it sends
  stdin,    \* the inode that its sendmail reads
  text,     \* what its sendmail has read
  sent,     \* for each mail, what sendmail read for it
  done,     \* the mails whose send() returned
  short,    \* the mails that writeFile() did not write
  crossed   \* the mails sent while another with the same file was

mailVars == <<at, mail, stdin, text, sent, done, short, crossed>>
allVars == <<vars, mailVars>>

SpoolFiles == {Spool[m] : m \in Mails}

MailInit ==
  /\ Init
  /\ at = [p \in Procs |-> "none"]
  /\ mail = [p \in Procs |-> None]
  /\ stdin = [p \in Procs |-> 0]
  /\ text = [p \in Procs |-> <<>>]
  /\ sent = [m \in Mails |-> <<>>]
  /\ done = {} /\ short = {} /\ crossed = {}

Busy(q, m) == at[q] # "none" /\ Spool[mail[q]] = Spool[m]

\* send() up to fs.writeFile().
Send(p, m) ==
  /\ at[p] = "none" /\ \A q \in Procs : mail[q] # m
  /\ m \notin done
  /\ calls < MaxCalls
  /\ calls' = calls + 1
  /\ \/ OpenWrite(p, "writeFile", Spool[m], m)
     \/ OpenFails(p, "writeFile")
  /\ at' = [at EXCEPT ![p] = "write"]
  /\ mail' = [mail EXCEPT ![p] = m]
  /\ crossed' = crossed \cup
       (IF \E q \in Procs : Busy(q, m)
          THEN {m} \cup {mail[q] : q \in {r \in Procs : Busy(r, m)}} ELSE {})
  /\ UNCHANGED <<stdin, text, sent, done, short>>

\* writeFile() has returned, whatever it returned, and process.exec() has a
\* shell open the file for sendmail.
Exec(p) ==
  /\ at[p] = "write" /\ pc[p] = "idle"
  /\ short' = IF result[p] = "true" THEN short ELSE short \cup {mail[p]}
  /\ stdin' = [stdin EXCEPT ![p] = IF dir[Spool[mail[p]]] = None
                                     THEN 0 ELSE dir[Spool[mail[p]]]]
  /\ text' = [text EXCEPT ![p] = <<>>]
  /\ at' = [at EXCEPT ![p] = IF dir[Spool[mail[p]]] = None
                               THEN "unlink" ELSE "exec"]
  /\ UNCHANGED <<vars, mail, sent, done, crossed>>

\* sendmail reads, without a lock; it goes on if the process that runs it dies.
SendmailReads(p) ==
  /\ at[p] = "exec"
  /\ Len(text[p]) < Len(content[stdin[p]])
  /\ text' = [text EXCEPT ![p] = Append(@, content[stdin[p]][Len(@) + 1])]
  /\ UNCHANGED <<vars, at, mail, stdin, sent, done, short, crossed>>

\* sendmail is at the end of the file and sends what it has.
SendmailSends(p) ==
  /\ at[p] = "exec"
  /\ Len(text[p]) >= Len(content[stdin[p]])
  /\ sent' = [sent EXCEPT ![mail[p]] = text[p]]
  /\ stdin' = [stdin EXCEPT ![p] = 0]
  /\ text' = [text EXCEPT ![p] = <<>>]
  /\ at' = [at EXCEPT ![p] = "unlink"]
  /\ UNCHANGED <<vars, mail, done, short, crossed>>

\* Mutant of Remove: the file is unlinked while sendmail has yet to open it.
Remove_Early(p) ==
  /\ at[p] \in {"write", "unlink"}
  /\ Unlink(p, Spool[mail[p]])
  /\ at' = [at EXCEPT ![p] = IF at[p] = "write" THEN "write" ELSE "none"]
  /\ done' = IF at[p] = "write" THEN done ELSE done \cup {mail[p]}
  /\ UNCHANGED <<calls, mail, stdin, text, sent, short, crossed>>

\* fs.unlink(), and send() returns.
Remove(p) ==
  /\ at[p] = "unlink"
  /\ Unlink(p, Spool[mail[p]])
  /\ at' = [at EXCEPT ![p] = "none"]
  /\ mail' = [mail EXCEPT ![p] = None]
  /\ done' = done \cup {mail[p]}
  /\ UNCHANGED <<calls, stdin, text, sent, short, crossed>>

MailStep(p) == Exec(p) \/ SendmailReads(p) \/ SendmailSends(p) \/ Remove(p)

\* A step of FileIO: of the call of send(), of a call the application makes on a
\* file of its own, or the end of a process.
FileStep(p) ==
  /\ \/ at[p] = "none" /\ Call(p, Names \ SpoolFiles, Data \ Mails)
     \/ Step(p)
     \/ Die(p)
  /\ UNCHANGED mailVars

MailNext ==
  \E p \in Procs : FileStep(p) \/ MailStep(p) \/ \E m \in Mails : Send(p, m)

MailSpec == MailInit /\ [][MailNext]_allVars

\* A process that runs keeps running, and gets a lock that stays free; so does
\* its sendmail.
MailFairness ==
  \A p \in Procs :
    WF_allVars(Step(p) /\ UNCHANGED mailVars) /\ WF_allVars(MailStep(p))

MailFairSpec == MailSpec /\ MailFairness

-----------------------------------------------------------------------------
\* Every variable has its type.
MailTypeOK ==
  /\ TypeOK
  /\ at \in [Procs -> {"none", "write", "exec", "unlink"}]
  /\ mail \in [Procs -> Mails \cup {None}]
  /\ stdin \in [Procs -> DOMAIN content \cup {0}]
  /\ text \in [Procs -> Seq(Blocks)]
  /\ sent \in [Mails -> Seq(Blocks)]
  /\ done \subseteq Mails /\ short \subseteq Mails /\ crossed \subseteq Mails
  /\ \A p \in Procs :
       /\ at[p] # "none" => mail[p] \in Mails
       /\ at[p] = "exec" => stdin[p] # 0

\* What a mail was sent as is all of it and nothing else, if its file was written
\* and no other mail had the same file meanwhile.
MailIntact ==
  \A m \in done \ (short \cup crossed) : sent[m] = Bytes(m)

\* Sending a mail sends that mail (Mail.js:290), if its file was written.
MailSent == \A m \in done \ short : sent[m] = Bytes(m)
=============================================================================
