----------------------------- MODULE Connection -----------------------------
(***************************************************************************)
(* One client connection, from recv() to send(): the read and the write    *)
(* handler of pop3.c, the two buffers between them and the socket, the     *)
(* commands whose answer does not fit at once (LIST, RETR) and the file    *)
(* that RETR reads through the same select loop.                           *)
(*                                                                         *)
(* Bytes are grouped.  A command is two fragments, so that TCP may cut it  *)
(* anywhere or glue it to its neighbours; an answer is a sequence of units *)
(* <<k, i>>, the i-th of the k-th command (of the greeting, if k is 0).    *)
(* An answer of a single line is two units, so that a buffer or a send()   *)
(* may cut it; the lines of a longer answer are one each.  The sizes of    *)
(* the buffers count fragments and units.                                  *)
(***************************************************************************)
EXTENDS Naturals, Sequences, SequencesExt

CONSTANTS
  Worlds,        \* the surroundings a connection may find itself in, see World
  ReadSize,      \* BUFFER_SIZE, in fragments
  RetrieveSize,  \* RETRIEVE_BUFFER_SIZE, in units
  ListLen,       \* lines of a LIST answer
  MailLen        \* units of a mail file

ASSUME ConnectionAssumption ==
  /\ {ReadSize, RetrieveSize, ListLen, MailLen} \subseteq Nat /\ ReadSize > 0
  /\ \A w \in Worlds :
       /\ w.script \in Seq({"NOOP", "STAT", "LIST", "RETR", "RETRGONE", "RETRUNWATCHED", "QUIT"})
       /\ w.script # <<>>
       /\ w.writeSize \in Nat /\ w.writeSize >= 2
       /\ {w.pipelining, w.partialSend, w.fileErrors, w.clientVanishes, w.isDirValid} \subseteq BOOLEAN

VARIABLES
  world,    \* what is around this connection, for ever
  next,     \* the number of fragments the client has sent
  inbound,  \* fragments on their way to the server
  sent,     \* units that send() has taken, in order
  gone,     \* the client closed its end
  conn      \* client_data, with mail_info and what select() watches

vars == <<world, next, inbound, sent, gone, conn>>

(* World *)
script == world.script                  \* what this client sends
WriteSize == world.writeSize            \* BUFFER_SIZE, in units
Pipelining == world.pipelining          \* may a command be sent before the last answer?
PartialSend == world.partialSend        \* may send() take less than it is given?
FileErrors == world.fileErrors          \* may reading a mail file fail?
ClientVanishes == world.clientVanishes  \* may the client close the connection at any time?
is_dir_valid == world.isDirValid        \* could PASS read the maildrop?

Q == INSTANCE ByteQueue

-----------------------------------------------------------------------------
(* Commands and their answers *)

(* NOOP stands for what is answered by buffer_write_n() with one line,     *)
(* STAT for what is by snprintf(), as STAT, RSET and LIST with an argument *)
(* are.  RETRGONE is a RETR of a message whose file cannot be opened any   *)
(* more, RETRUNWATCHED of one whose file cannot be registered with the     *)
(* selector.                                                               *)
Kind == {"NOOP", "STAT", "LIST", "RETR", "RETRGONE", "RETRUNWATCHED", "QUIT"}
Retrieval == {"RETR", "RETRGONE", "RETRUNWATCHED"}

(* What the k-th command amounts to.  In a maildrop that could not be read *)
(* LIST is a line by snprintf(), and there is no message to retrieve.      *)
request(k) ==
  CASE is_dir_valid -> script[k]
    [] ~is_dir_valid /\ script[k] = "LIST" -> "STAT"
    [] ~is_dir_valid /\ script[k] \in Retrieval -> "NOOP"
    [] OTHER -> script[k]

AnswerLen(k) ==
  IF k = 0 THEN 2
  ELSE CASE request(k) = "LIST" -> ListLen + 2
         [] request(k) = "RETR" -> MailLen + 2
         [] OTHER -> 2

Units(k, i, j) == [x \in 1 .. (IF j < i THEN 0 ELSE j - i + 1) |-> <<k, x + i - 1>>]

Fragment(n) == [command |-> (n + 1) \div 2, last |-> n % 2 = 0]

-----------------------------------------------------------------------------
(* The actions of pop3_actions.c, as functions of client_data.  A buffer   *)
(* write advances the pointer by what it wrote.                            *)

Put(c, units) == [c EXCEPT !.write_buffer = Q!WriteN(@, units, WriteSize)]

WriteRoom(c) == Q!Room(c.write_buffer, WriteSize)

(* An answer of one line, by buffer_write_n().                             *)
SingleLine(c) == [Put(c, Units(c.command, 1, 2)) EXCEPT !.finished = TRUE]

(* An answer of one line, by snprintf(), which returns the length that it  *)
(* wanted: buffer_write_adv() runs past the limit and asserts if the line  *)
(* does not fit.                                                           *)
PrintedLine(c) ==
  IF WriteRoom(c) < 2 THEN [c EXCEPT !.state = "aborted"] ELSE SingleLine(c)

(* Mutant: QUIT leaves without an answer.                                  *)
QuitSaysNothing(c) == [c EXCEPT !.finished = TRUE, !.state = "CLIENT_FINISHED"]

quit(c) == [SingleLine(c) EXCEPT !.state = "CLIENT_FINISHED"]

(* list_mails() goes on after the lines it already wrote.  The first one   *)
(* is written by snprintf() too.                                           *)
list_mails(c) ==
  IF c.written = 0 /\ WriteRoom(c) = 0 THEN [c EXCEPT !.state = "aborted"]
  ELSE LET n == Min({AnswerLen(c.command) - c.written, WriteRoom(c)})
           done == c.written + n
       IN [Put(c, Units(c.command, c.written + 1, done)) EXCEPT
             !.finished = (done = AnswerLen(c.command)),
             !.written = IF done = AnswerLen(c.command) THEN 0 ELSE done]

setup_mail_retrieval(c) ==
  [c EXCEPT !.filed_fd = "open", !.file_interest = "READ", !.file_pos = 0]

(* Mutant: what was moved stays in the retrieve buffer.                    *)
TransferKeepsInput(c) ==
  Put(c, SubSeq(c.retrieve_buffer.bytes, 1, Min({Len(c.retrieve_buffer.bytes), WriteRoom(c)})))

transfer(c) ==
  LET n == Min({Len(c.retrieve_buffer.bytes), WriteRoom(c)})
  IN [Put(c, SubSeq(c.retrieve_buffer.bytes, 1, n)) EXCEPT
        !.retrieve_buffer = Q!ReadAdv(@, n)]

(* Mutant: mail_info->filed_fd is not cleared.                             *)
FinishKeepsFile(c) ==
  IF WriteRoom(c) = 0 THEN c
  ELSE [Put(c, Units(c.command, MailLen + 2, MailLen + 2)) EXCEPT
          !.finished_reading = FALSE, !.finished = TRUE]

(* The terminator is written as soon as the file was read to its end and   *)
(* there is room for it.                                                   *)
finish_mail_retrieval(c) ==
  IF WriteRoom(c) = 0 THEN c
  ELSE [Put(c, Units(c.command, MailLen + 2, MailLen + 2)) EXCEPT
          !.filed_fd = "none", !.finished_reading = FALSE, !.finished = TRUE]

(* Mutant: a file that was found without room is never read again.         *)
NeverWatchedAgain(c) == c

(* The file is read again, unless it was read to its end already.          *)
watch_file(c) == [c EXCEPT !.file_interest = IF @ = "none" THEN "none" ELSE "READ"]

(* A RETR goes on with the file that filed_fd names, or with none if the   *)
(* number was left there by one that failed.                               *)
transfer_mail(c) ==
  LET moved == IF WriteRoom(c) = 0 THEN c ELSE transfer(watch_file(c))
      c1 == [moved EXCEPT !.finished = FALSE]
  IN IF c1.finished_reading THEN finish_mail_retrieval(c1) ELSE c1

(* The first line is written before fopen() or selector_register() fails,  *)
(* and an error after it.  A file that was not registered is closed, but   *)
(* its number is kept.                                                     *)
retrieval_fails(c) ==
  [Put(c, Units(c.command, 1, 2)) EXCEPT
     !.finished = TRUE,
     !.filed_fd = IF request(c.command) = "RETRUNWATCHED" THEN "stale" ELSE @,
     !.file_pos = IF request(c.command) = "RETRUNWATCHED" THEN 0 ELSE @]

(* A RETR takes itself for one that goes on if filed_fd is set.            *)
retrieve_mail(c) ==
  IF c.filed_fd # "none" THEN transfer_mail(c)
  ELSE IF request(c.command) = "RETR"
       THEN transfer_mail(setup_mail_retrieval(Put(c, Units(c.command, 1, 1))))
  ELSE retrieval_fails(c)

(* Runs c.command, for the first time or again to go on with it.  After    *)
(* QUIT every command is invalid and is answered by a single line.         *)
run_action(c) ==
  CASE c.state = "OPEN" /\ request(c.command) = "STAT" -> PrintedLine(c)
    [] c.state = "OPEN" /\ request(c.command) = "LIST" -> list_mails(c)
    [] c.state = "OPEN" /\ request(c.command) \in Retrieval -> retrieve_mail(c)
    [] c.state = "OPEN" /\ request(c.command) = "QUIT" -> quit(c)
    [] OTHER -> SingleLine(c)

-----------------------------------------------------------------------------
(* parser_consume(): up to the end of a command, or all there is.          *)
Complete(c) == \E i \in 1 .. Len(c.read_buffer.bytes) : c.read_buffer.bytes[i].last

consume(c) ==
  LET b == c.read_buffer.bytes
      n == IF Complete(c) THEN CHOOSE i \in 1 .. Len(b) :
                                 b[i].last /\ \A j \in 1 .. i - 1 : ~b[j].last
                          ELSE Len(b)
  IN [c EXCEPT !.read_buffer = Q!ReadAdv(@, n), !.parsing = b[n].command]

pop3_action_handler(c) == run_action([c EXCEPT !.command = c.parsing])

(* pop3_close_handler(): both descriptors leave select() and are closed.   *)
Closed == [state |-> "closed", interest |-> "none",
           read_buffer |-> Q!Empty, write_buffer |-> Q!Empty,
           parsing |-> 0, command |-> 0, finished |-> TRUE, written |-> 0,
           filed_fd |-> "none", file_interest |-> "none", file_pos |-> 0,
           finished_reading |-> FALSE, retrieve_buffer |-> Q!Empty]

(* setup_new_connection() and the registration in pop3_passive_handler().  *)
Accepted == [Closed EXCEPT !.state = "OPEN", !.interest = "WRITE",
               !.write_buffer = Q!WriteN(Q!Empty, Units(0, 1, 2), WriteSize)]

Init ==
  /\ world \in Worlds
  /\ next = 0
  /\ inbound = <<>>
  /\ sent = <<>>
  /\ gone = FALSE
  /\ conn = Accepted

Open == conn.state \in {"OPEN", "CLIENT_FINISHED"}

(* A recv() that finds the buffer full returns 0, like one that finds the  *)
(* end of the stream; these and an error close the connection.             *)
pop3_read_handler ==
  /\ Open /\ conn.interest = "READ"
  /\ inbound # <<>> \/ gone
  /\ LET room == Q!Room(conn.read_buffer, ReadSize) IN
     \/ /\ gone \/ room = 0
        /\ conn' = Closed
        /\ UNCHANGED inbound
     \/ \E n \in 1 .. Min({Len(inbound), room}) :
          LET c1 == [conn EXCEPT !.read_buffer =
                       Q!WriteN(@, SubSeq(inbound, 1, n), ReadSize)]
          IN /\ inbound' = SubSeq(inbound, n + 1, Len(inbound))
             /\ conn' = IF Complete(c1)
                        THEN pop3_action_handler([consume(c1) EXCEPT !.interest = "WRITE"])
                        ELSE consume(c1)
  /\ UNCHANGED <<world, next, sent, gone>>

(* Mutant: the handler waits for the client after a pipelined command.     *)
AfterSendWaits(c) ==
  IF ~c.finished THEN run_action(c)
  ELSE IF Complete(c) THEN [pop3_action_handler(consume(c)) EXCEPT !.interest = "READ"]
  ELSE IF Q!CanRead(c.read_buffer) THEN [consume(c) EXCEPT !.interest = "READ"]
  ELSE IF ~Q!CanRead(c.write_buffer) THEN [c EXCEPT !.interest = "READ"]
  ELSE c

(* Mutant: a drained write buffer is looked at before pipelined commands.  *)
AfterSendIdlesFirst(c) ==
  IF ~c.finished THEN run_action(c)
  ELSE IF ~Q!CanRead(c.write_buffer) THEN [c EXCEPT !.interest = "READ"]
  ELSE IF Complete(c) THEN pop3_action_handler(consume(c))
  ELSE c

(* Mutant: the next command is parsed before the last one is done.         *)
AfterSendParsesFirst(c) ==
  IF Complete(c) THEN pop3_action_handler(consume(c))
  ELSE IF ~c.finished THEN run_action(c)
  ELSE IF Q!CanRead(c.read_buffer) THEN [consume(c) EXCEPT !.interest = "READ"]
  ELSE IF ~Q!CanRead(c.write_buffer) THEN [c EXCEPT !.interest = "READ"]
  ELSE c

(* What the write handler does once send() took what it took.              *)
after_send(c) ==
  IF ~c.finished THEN run_action(c)
  ELSE IF Q!CanRead(c.read_buffer)
       THEN IF Complete(c) THEN pop3_action_handler(consume(c))
                           ELSE [consume(c) EXCEPT !.interest = "READ"]
  ELSE IF ~Q!CanRead(c.write_buffer) THEN [c EXCEPT !.interest = "READ"]
  ELSE c

pop3_write_handler ==
  /\ Open /\ conn.interest = "WRITE"
  /\ \/ /\ gone                        \* send() fails
        /\ conn' = Closed
        /\ UNCHANGED sent
     \/ /\ ~gone
        /\ \E n \in 0 .. Len(conn.write_buffer.bytes) :
             LET all == Len(conn.write_buffer.bytes)
                 c == after_send([conn EXCEPT !.write_buffer = Q!ReadAdv(@, n)])
             IN /\ IF PartialSend THEN all > 0 => n > 0 ELSE n = all
                /\ sent' = sent \o SubSeq(conn.write_buffer.bytes, 1, n)
                /\ conn' = IF c.state = "CLIENT_FINISHED" THEN Closed ELSE c
  /\ UNCHANGED <<world, next, inbound, gone>>

(* A regular file is always ready.  End of file and a read error both end  *)
(* the retrieval; the file is closed by finish_mail_retrieval().           *)
mail_read_handler ==
  /\ Open /\ conn.file_interest = "READ"
  /\ LET room == Q!Room(conn.retrieve_buffer, RetrieveSize)
         n == Min({room, MailLen - conn.file_pos})
         ended == [conn EXCEPT !.finished_reading = TRUE, !.file_interest = "none"]
     IN IF room = 0
        THEN conn' = [conn EXCEPT !.file_interest = "NOOP"]
        ELSE \/ FileErrors /\ conn' = ended
             \/ conn' = IF n = 0 THEN ended
                ELSE [conn EXCEPT
                        !.file_pos = @ + n,
                        !.retrieve_buffer = Q!Append_(@,
                          Units(conn.command, conn.file_pos + 2, conn.file_pos + n + 1))]
  /\ UNCHANGED <<world, next, inbound, sent, gone>>

(* Environment: the client.  One that does not pipeline waits for the      *)
(* whole answer before the first fragment of the next command.             *)
ClientSends ==
  /\ ~gone /\ next < 2 * Len(script)
  /\ LET f == Fragment(next + 1) IN
       /\ ~Pipelining /\ ~f.last =>
            Contains(sent, <<f.command - 1, AnswerLen(f.command - 1)>>)
       /\ inbound' = Append(inbound, f)
  /\ next' = next + 1
  /\ UNCHANGED <<world, sent, gone, conn>>

ClientCloses ==
  /\ ClientVanishes /\ ~gone
  /\ gone' = TRUE
  /\ UNCHANGED <<world, next, inbound, sent, conn>>

Next ==
  \/ pop3_read_handler
  \/ pop3_write_handler
  \/ mail_read_handler
  \/ ClientSends
  \/ ClientCloses

Spec == Init /\ [][Next]_vars

(* The loop of main.c calls select() for ever and every ready descriptor   *)
(* is handled, so no handler is passed over.  The client is taken to read  *)
(* its answers (its socket is writable again and again) and to finish the  *)
(* commands it began.                                                      *)
Fairness ==
  /\ WF_vars(pop3_read_handler)
  /\ WF_vars(pop3_write_handler)
  /\ WF_vars(mail_read_handler)
  /\ WF_vars(ClientSends)

FairSpec == Spec /\ Fairness

-----------------------------------------------------------------------------
(* Properties *)

(* No answer meets a write buffer that is full for good: send() takes all  *)
(* it is given, or the buffer holds all the answers of the script.         *)
RoomForAnswers ==
  ~PartialSend \/ WriteSize >= 2 + Len(script) * (Max({ListLen, MailLen}) + 2)

(* The units that follow one another in the answers to the script.         *)
Follow(u, v) == v = IF u[2] < AnswerLen(u[1]) THEN <<u[1], u[2] + 1>> ELSE <<u[1] + 1, 1>>

InOrder(s) ==
  /\ s # <<>> => s[1] = <<0, 1>>
  /\ \A i \in 1 .. Len(s) - 1 : Follow(s[i], s[i + 1])

(* What the client has received, followed by what waits in the write       *)
(* buffer, are the answers to its commands in order: nothing is lost,      *)
(* doubled or overtaken, however the commands were cut and pipelined.      *)
AnswersInOrder ==
  RoomForAnswers /\ ~FileErrors => InOrder(sent \o conn.write_buffer.bytes)

(* The handlers wait for the client only when nothing is left to send: the *)
(* third of the cases listed at pop3.c:200.  A client that pipelines over  *)
(* sends that were partial is left waiting with half a command.            *)
IdleMeansDrained ==
  ~(Pipelining /\ PartialSend) =>
    (Open /\ conn.interest = "READ" => ~Q!CanRead(conn.write_buffer))

(* recv() is never called on a read buffer without room, which it could    *)
(* not tell from the end of the stream, and no command that is complete is *)
(* left unexecuted while the handlers wait for more input.                 *)
ReadsIntoEmptyBuffer == Open /\ conn.interest = "READ" => conn.read_buffer = Q!Empty

(* While an answer is unfinished nothing is parsed: LIST and RETR read     *)
(* their argument from the parser again each time they go on.              *)
HoldsParser ==
  Open /\ ~conn.finished /\ conn'.state # "closed" =>
    conn'.parsing = conn.parsing /\ conn'.read_buffer = conn.read_buffer

ParserHeldWhileBusy == [][HoldsParser]_vars

(* select() never watches a closed file, which would end the main loop,    *)
(* and no answer ends, well or with an error, that leaves its file open.   *)
FilesBalanced ==
  /\ conn.file_interest # "none" => conn.filed_fd = "open"
  /\ conn.filed_fd = "open" => Open /\ (conn.state = "OPEN" => ~conn.finished)


(* The first QUIT of the script, in a session whose client left nothing in *)
(* front of it that could be cut off with it: it waits for its answers, or *)
(* quits at once.                                                          *)
QuitsOrderly(k) ==
  /\ script[k] = "QUIT" /\ \A j \in 1 .. k - 1 : script[j] # "QUIT"
  /\ ~Pipelining \/ k = 1

HungUp == conn.state = "closed" /\ ~gone

(* Such a client is told goodbye before the server hangs up: its beginning *)
(* always, and all of it if send() takes what it is given.  After a send() *)
(* that took a part of it, the rest is not sent: the connection does not   *)
(* "stay in writing" (pop3.c:203) but is closed (pop3.c:234).              *)
GoodbyeSent ==
  \A k \in 1 .. Len(script) : QuitsOrderly(k) /\ HungUp =>
    /\ Contains(sent, <<k, 1>>)
    /\ ~PartialSend => Contains(sent, <<k, AnswerLen(k)>>)

(* No retrieval follows one whose file could not be registered.            *)
NoneAfterUnwatched ==
  \A j, k \in 1 .. Len(script) :
    j < k /\ request(j) = "RETRUNWATCHED" => request(k) \notin Retrieval

(* Every command is answered, to the last unit, if the client stays and    *)
(* its mail can be read.  A RETR that fails is answered, and so is what    *)
(* follows it, but for a RETR after one that left filed_fd set.            *)
AllAnswered ==
  /\ RoomForAnswers /\ ~FileErrors /\ ~ClientVanishes
  /\ ~Contains(script, "QUIT") /\ NoneAfterUnwatched
  => <>(InOrder(sent) /\ Contains(sent, <<Len(script), AnswerLen(Len(script))>>))

(* An answer that was begun comes to its end, unless the client goes away, *)
(* with a mail file that cannot be read too.  It does not if filed_fd was  *)
(* left set by a RETR that could not register its file (mail.c:498).       *)
AnswersEnd ==
  ~conn.finished /\ conn.filed_fd # "stale" ~> (conn.finished \/ conn.state = "aborted")
=============================================================================
