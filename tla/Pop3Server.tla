----------------------------- MODULE Pop3Server -----------------------------
(***************************************************************************)
(* Sessions with their mail: PASS reads the user's directory into          *)
(* mail_info, DELE and RSET work on that copy, QUIT removes the files that *)
(* are marked, and every other end of a connection forgets the copy.  The  *)
(* process may also end in the middle of that removal.                     *)
(*                                                                         *)
(* A message is its file name.  STAT, LIST and NOOP change no state and    *)
(* are left out: what STAT prints are current_count and total_octets, what *)
(* LIST prints are the messages not marked.                                *)
(***************************************************************************)
EXTENDS Sessions, Sequences, FiniteSetsExt, Functions

CONSTANTS
  File,       \* names of files in the users' directories
  Octets,     \* their sizes
  MaxMails    \* MAX_MAILS

ASSUME FileAssumption == IsFiniteSet(File) /\ Octets \in [File -> Nat]
ASSUME MailsAssumption == MaxMails \in Nat

VARIABLES
  directory,  \* the files of <maildir>/<name>/; none if it does not exist
  mail_info,  \* client_data->mail_info
  reply       \* the status of the last answer about mail

mailVars == <<directory, mail_info, reply>>
allVars == <<vars, mailVars>>

NoMail == [is_dir_valid |-> FALSE, mails |-> <<>>, deleted |-> {},
           current_count |-> 0, total_octets |-> 0]

TotalOctets(ms, I) == MapThenSumSet(LAMBDA i : Octets[ms[i]], I)

(* What readdir() may list of directory D: its files in some order, no     *)
(* more than MAX_MAILS of them.                                            *)
Listings(D) ==
  LET n == Min({Cardinality(D), MaxMails}) IN Injection(1 .. n, D)

(* A directory that is missing, or a file that another program removes     *)
(* between readdir() and stat(), makes PASS go on with no mail at all.     *)
initialize_mails(D) ==
  {[is_dir_valid |-> TRUE, mails |-> ms, deleted |-> {},
    current_count |-> Len(ms), total_octets |-> TotalOctets(ms, DOMAIN ms)]
      : ms \in Listings(D)}
  \cup {NoMail}

Deleted(c) == {mail_info[c].mails[i] : i \in mail_info[c].deleted}

(* Mutant: a message that is marked already is valid.                      *)
ValidThoughDeleted(c, n) == mail_info[c].is_dir_valid /\ n \in DOMAIN mail_info[c].mails

VALID_MAIL(c, n) ==
  /\ mail_info[c].is_dir_valid
  /\ n \in DOMAIN mail_info[c].mails
  /\ n \notin mail_info[c].deleted

-----------------------------------------------------------------------------
MailInit ==
  /\ Init
  /\ directory \in [Name -> SUBSET File]
  /\ mail_info = [c \in Conn |-> NoMail]
  /\ reply = [c \in Conn |-> "none"]

Pass(c) ==
  /\ PassAccepted(c)
  /\ \E m \in initialize_mails(directory[username[c]]) :
       mail_info' = [mail_info EXCEPT ![c] = m]
  /\ UNCHANGED <<directory, reply>>

delete_mail(c, n) ==
  /\ state[c] = "TRANSACTION"
  /\ IF VALID_MAIL(c, n)
     THEN /\ mail_info' = [mail_info EXCEPT
               ![c].deleted = @ \cup {n},
               ![c].current_count = @ - 1,
               ![c].total_octets = @ - Octets[mail_info[c].mails[n]]]
          /\ reply' = [reply EXCEPT ![c] = "+OK"]
     ELSE /\ reply' = [reply EXCEPT ![c] = "-ERR"]
          /\ UNCHANGED mail_info
  /\ UNCHANGED <<vars, directory>>

(* Mutant: the octets are not added back.                                  *)
RestoreCountOnly(c) ==
  /\ state[c] = "TRANSACTION"
  /\ mail_info' = [mail_info EXCEPT
       ![c].deleted = {}, ![c].current_count = @ + Cardinality(mail_info[c].deleted)]
  /\ reply' = [reply EXCEPT ![c] = "+OK"]
  /\ UNCHANGED <<vars, directory>>

(* The loop adds back, one by one, what the marks had taken off.           *)
restore_mail(c) ==
  /\ state[c] = "TRANSACTION"
  /\ LET m == mail_info[c] IN
       mail_info' = [mail_info EXCEPT
         ![c].deleted = {},
         ![c].current_count = @ + Cardinality(m.deleted),
         ![c].total_octets = @ + TotalOctets(m.mails, m.deleted)]
  /\ reply' = [reply EXCEPT ![c] = "+OK"]
  /\ UNCHANGED <<vars, directory>>

(* The first line of the answer is sent before the file is opened, so a    *)
(* file that is gone gets both answers.                                    *)
retrieve_mail(c, n) ==
  /\ state[c] = "TRANSACTION"
  /\ reply' = [reply EXCEPT ![c] =
       IF ~VALID_MAIL(c, n) THEN "-ERR"
       ELSE IF mail_info[c].mails[n] \in directory[username[c]] THEN "+OK"
       ELSE "+OK -ERR"]
  /\ UNCHANGED <<vars, directory, mail_info>>

(* Mutant: the result of a removal is not looked at.                       *)
SaysOK(c, kept) == "+OK"

(* The loop of QUIT in TRANSACTION over the marked messages.  It goes on   *)
(* after a removal that fails; kept are the files the system refuses to    *)
(* remove.                                                                 *)
left_by_quit(c, kept) == directory[username[c]] \ (Deleted(c) \ kept)

quit_reply(c, kept) ==
  IF Deleted(c) \subseteq directory[username[c]] /\ kept = {} THEN "+OK" ELSE "-ERR"

QuitUpdate(c, kept) ==
  /\ state[c] = "TRANSACTION" /\ mail_info[c].is_dir_valid
  /\ kept \subseteq Deleted(c) \cap directory[username[c]]
  /\ Quit(c)
  /\ directory' = [directory EXCEPT ![username[c]] = left_by_quit(c, kept)]
  /\ reply' = [reply EXCEPT ![c] = quit_reply(c, kept)]
  /\ UNCHANGED mail_info

QuitPlain(c) ==
  /\ ~(state[c] = "TRANSACTION" /\ mail_info[c].is_dir_valid)
  /\ Quit(c)
  /\ reply' = [reply EXCEPT ![c] = "+OK"]
  /\ UNCHANGED <<directory, mail_info>>

(* Mutant: the marks are carried out whatever the end of the connection.   *)
FreeRemovesMarked(c) ==
  /\ mail_info' = [mail_info EXCEPT ![c] = NoMail]
  /\ reply' = [reply EXCEPT ![c] = "none"]
  /\ directory' = [u \in Name |-> IF u = username[c] THEN directory[u] \ Deleted(c)
                                                     ELSE directory[u]]

free_mail_info(c) ==
  /\ mail_info' = [mail_info EXCEPT ![c] = NoMail]
  /\ reply' = [reply EXCEPT ![c] = "none"]
  /\ UNCHANGED directory

(* The process ends and is started again: the directories are what stays.  *)
ForgetMail ==
  /\ Restart
  /\ mail_info' = [c \in Conn |-> NoMail]
  /\ reply' = [c \in Conn |-> "none"]

Crash == ForgetMail /\ UNCHANGED directory

(* Mutant: the loop does not look at the marks.                            *)
LoopIgnoresMarks(c, i, kept) ==
  directory[username[c]] \ ({mail_info[c].mails[j] : j \in 1 .. i} \ kept)

(* The loop of QUIT has looked at the first i messages. *)
left_by_loop(c, i, kept) ==
  directory[username[c]]
    \ ({mail_info[c].mails[j] : j \in mail_info[c].deleted \cap (1 .. i)} \ kept)

(* The process ends before that loop does; nobody gets an answer. *)
CrashInQuit(c, i, kept) ==
  /\ state[c] = "TRANSACTION" /\ mail_info[c].is_dir_valid
  /\ i \in DOMAIN mail_info[c].mails
  /\ kept \subseteq Deleted(c) \cap directory[username[c]]
  /\ ForgetMail
  /\ directory' = [directory EXCEPT ![username[c]] = left_by_loop(c, i, kept)]

(* Environment: mail arrives; another program removes a file.              *)
Deliver(u, f) ==
  /\ directory' = [directory EXCEPT ![u] = @ \cup {f}]
  /\ UNCHANGED <<vars, mail_info, reply>>

Remove(u, f) ==
  /\ f \in directory[u]
  /\ directory' = [directory EXCEPT ![u] = @ \ {f}]
  /\ UNCHANGED <<vars, mail_info, reply>>

AuthStep(c) ==
  /\ \/ Accept(c)
     \/ \E n \in Name : User(c, n)
     \/ \E matches \in BOOLEAN : PassRejected(c, matches)
     \/ OtherCommand(c)
     \/ Hangup(c)
  /\ UNCHANGED mailVars

EndOfConnection(c) ==
  /\ Disconnect(c) \/ Finish(c)
  /\ free_mail_info(c)

ServerStep(c) ==
  \/ AuthStep(c)
  \/ Pass(c)
  \/ \E n \in 0 .. MaxMails + 1 : delete_mail(c, n) \/ retrieve_mail(c, n)
  \/ restore_mail(c)
  \/ \E kept \in SUBSET File : QuitUpdate(c, kept)
  \/ QuitPlain(c)
  \/ EndOfConnection(c)
  \/ \E i \in 1 .. MaxMails, kept \in SUBSET File : CrashInQuit(c, i, kept)

MailNext ==
  \/ \E c \in Conn : ServerStep(c)
  \/ \E n \in Name : AddUser(n) /\ UNCHANGED mailVars
  \/ Crash
  \/ \E u \in Name, f \in File : Deliver(u, f) \/ Remove(u, f)

MailSpec == MailInit /\ [][MailNext]_allVars

-----------------------------------------------------------------------------
(* Properties *)

(* Types: a session has no more messages than mails.h:42 has room for,     *)
(* only messages of the session are marked, and the counters, which are    *)
(* unsigned (mails.h:39-53), never go below zero.                          *)
MailTypeOK ==
  /\ directory \in [Name -> SUBSET File]
  /\ \A c \in Conn :
       /\ mail_info[c].mails \in Seq(File) /\ Len(mail_info[c].mails) <= MaxMails
       /\ mail_info[c].deleted \subseteq DOMAIN mail_info[c].mails
       /\ mail_info[c].current_count \in Nat
       /\ mail_info[c].total_octets \in Nat
  /\ reply \in [Conn -> {"none", "+OK", "-ERR", "+OK -ERR"}]

(* STAT and LIST agree: the counters that DELE and RSET keep up to date    *)
(* are the number and the size of the messages that are not marked.        *)
CountsMatchMarks ==
  \A c \in Conn :
    LET m == mail_info[c]
        left == (DOMAIN m.mails) \ m.deleted
    IN /\ m.current_count = Cardinality(left)
       /\ m.total_octets = TotalOctets(m.mails, left)

Lost(u) == directory[u] \ directory'[u]

RemovesAsQuit ==
  <<vars, mail_info, reply>>' # <<vars, mail_info, reply>> /\ directory' # directory =>
    \E c \in Conn :
      /\ state[c] = "TRANSACTION"
      /\ state'[c] = "CLIENT_FINISHED" \/ pool' = {}
      /\ \A u \in Name :
           Lost(u) \subseteq IF u = username[c] THEN Deleted(c) ELSE {}

(* The server removes files only while a session quits from TRANSACTION,   *)
(* its own user's only, and only those it marked.  A connection that       *)
(* breaks removes nothing, and a process that ends removes at most what    *)
(* one session marked.  A step that leaves the server as it was is another *)
(* program's.                                                              *)
OnlyQuitRemoves == [][RemovesAsQuit]_allVars

SaysWhatItDid ==
  \A c \in Conn :
    /\ state[c] = "TRANSACTION" /\ state'[c] = "CLIENT_FINISHED"
    /\ reply'[c] = "+OK"
    => Deleted(c) = {} \/ Deleted(c) \cap directory'[username[c]] = {}

(* QUIT does not say +OK while a message the client deleted is still       *)
(* there, even if other programs interfere with the directory.             *)
QuitTellsTheTruth == [][SaysWhatItDid]_allVars

KeepsMailOfOthers ==
  \A c, d \in Conn :
    /\ state[c] = "TRANSACTION" /\ state'[c] = "TRANSACTION"
    /\ state[d] # state'[d]
    => Range(mail_info[c].mails) \cap directory[username[c]]
         \subseteq directory'[username[c]]

(* No session takes away a message that another may still name: what a     *)
(* session was shown stays there for its RETR and its QUIT until the       *)
(* session itself, or another program, removes it.                         *)
SessionMailStays == [][KeepsMailOfOthers]_allVars

(* What MailAccess knows of a session: whose maildrop it has open, the     *)
(* messages it was shown, and those of them it marked.                     *)
opened == [c \in Conn |-> IF state[c] = "TRANSACTION" THEN username[c] ELSE NoName]
shown == [c \in Conn |-> IF state[c] = "TRANSACTION" THEN Range(mail_info[c].mails) ELSE {}]
wanted == [c \in Conn |-> IF state[c] = "TRANSACTION" THEN Deleted(c) ELSE {}]

Access == INSTANCE MailAccess WITH
  maildrop <- directory, open <- opened, seen <- shown, marked <- wanted

(* The server keeps the promise of MailAccess.                             *)
ImplementsMailAccess == Access!Spec
=============================================================================
