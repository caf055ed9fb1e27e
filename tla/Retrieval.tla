----------------------------- MODULE Retrieval ------------------------------
(***************************************************************************)
(* The bytes of a RETR answer after its first line: the file goes through  *)
(* the retrieve buffer to the write buffer, a "." is doubled on the way    *)
(* when it begins a line, and the terminator ends it.  The stuffing parser *)
(* looks back: it inserts the second "." before the byte that follows.     *)
(***************************************************************************)
EXTENDS Naturals, Sequences, SequencesExt, Command

CONSTANTS
  Files,          \* contents of the mail file, sequences over Byte
  RetrieveSize    \* RETRIEVE_BUFFER_SIZE

Byte == {"\r", "\n", ".", "x"}

(* The longest terminator must fit.                                        *)
ASSUME RetrievalAssumption ==
  Files \subseteq Seq(Byte) /\ RetrieveSize \in Nat \ {0} /\ WriteSize \in Nat /\ WriteSize >= 5

VARIABLES
  file,             \* the content of the file
  bytes_read,       \* how much of it was read
  read_failed,      \* a read() of the file failed (the code does not keep this)
  retrieve_buffer,
  finished_reading,
  parser,           \* the last three bytes <<third_prev, second_prev, prev>>
  write_buffer,
  sent              \* what send() took

vars == <<file, bytes_read, read_failed, retrieve_buffer, finished_reading, parser,
          write_buffer, sent, finished>>

Q == INSTANCE ByteQueue

init_stuffing_parser == <<"nul", "nul", "nul">>

stuffing_consume(p, b) == <<p[2], p[3], b>>

(* Mutant: any LF ends a line.                                             *)
StuffsAfterBareLF(p) == p[2] = "\n" /\ p[3] = "."

needs_stuffing(p) == p = <<"\r", "\n", ".">>

(* transfer_bytes() of input into room: one byte of output per round.  The *)
(* byte before which a "." is inserted is shown to the parser twice.       *)
transfer_bytes(input, room, p0) ==
  LET round(s, j) ==
        IF s.read = Len(input) THEN s
        ELSE LET b == input[s.read + 1]
             IN [read |-> IF needs_stuffing(s.p) THEN s.read ELSE s.read + 1,
                 out |-> Append(s.out, IF needs_stuffing(s.p) THEN "." ELSE b),
                 p |-> stuffing_consume(s.p, b)]
  IN FoldLeft(round, [read |-> 0, out |-> <<>>, p |-> p0], [j \in 1 .. room |-> j])

terminator(p) ==
  IF p[3] = "\n" /\ p[2] = "\r" THEN <<".", "\r", "\n">>
                                ELSE <<"\r", "\n", ".", "\r", "\n">>

Init ==
  /\ file \in Files
  /\ bytes_read = 0
  /\ read_failed = FALSE
  /\ retrieve_buffer = Q!Empty
  /\ finished_reading = FALSE
  /\ parser = init_stuffing_parser
  /\ write_buffer = Q!Empty
  /\ sent = <<>>
  /\ finished = FALSE

(* Mutant: the file is read also when there is no room for what it holds.  *)
ReadsIntoFullBuffer(room) == TRUE

buffer_can_write(room) == room > 0

(* read() takes what there is room for.  At the end of the file, and when  *)
(* it fails, there is nothing more to read.                                *)
mail_read_handler ==
  /\ ~finished /\ ~finished_reading
  /\ LET room == Q!Room(retrieve_buffer, RetrieveSize)
         n == Min({room, Len(file) - bytes_read})
     IN /\ buffer_can_write(room)
        /\ \/ /\ bytes_read' = bytes_read + n
              /\ retrieve_buffer' = Q!Append_(retrieve_buffer,
                                      SubSeq(file, bytes_read + 1, bytes_read + n))
              /\ finished_reading' = (n = 0)
              /\ UNCHANGED read_failed
           \/ /\ finished_reading' = TRUE
              /\ read_failed' = TRUE
              /\ UNCHANGED <<bytes_read, retrieve_buffer>>
  /\ UNCHANGED <<file, parser, write_buffer, sent, finished>>

(* retrieve_mail() going on with write buffer w: move bytes if there is    *)
(* room, then end the answer if the file was read to its end.              *)
retrieve_mail(w) ==
  LET t == transfer_bytes(retrieve_buffer.bytes, Q!Room(w, WriteSize), parser)
      w1 == Q!Append_(w, t.out)
      ends == finished_reading /\ Len(terminator(t.p)) <= Q!Room(w1, WriteSize)
  IN /\ retrieve_buffer' = Q!ReadAdv(retrieve_buffer, t.read)
     /\ parser' = t.p
     /\ write_buffer' = IF ends THEN Q!Append_(w1, terminator(t.p)) ELSE w1
     /\ finished' = ends

(* The write handler: send() takes n bytes, then the command goes on.      *)
write_handler(n) ==
  /\ sent' = sent \o SubSeq(write_buffer.bytes, 1, n)
  /\ LET w == Q!ReadAdv(write_buffer, n) IN
       IF ~finished THEN retrieve_mail(w)
       ELSE /\ Q!CanRead(write_buffer)
            /\ write_buffer' = w
            /\ UNCHANGED <<retrieve_buffer, parser, finished>>
  /\ UNCHANGED <<file, bytes_read, read_failed, finished_reading>>

Next ==
  \/ mail_read_handler
  \/ \E n \in 0 .. Len(write_buffer.bytes) : write_handler(n)

Spec == Init /\ [][Next]_vars

-----------------------------------------------------------------------------
(* What a client makes of the answer *)

(* Where a line of s starts.                                               *)
LineStart(s, i) == i = 1 \/ (i > 2 /\ s[i - 2] = "\r" /\ s[i - 1] = "\n")

(* The answer ends at the first line that is a single ".".                 *)
Ends(s) == {i \in 1 .. Len(s) - 2 :
              LineStart(s, i) /\ SubSeq(s, i, i + 2) = <<".", "\r", "\n">>}

(* Before that, a "." that begins a line is taken off.                     *)
Decoded(s) ==
  LET body == SubSeq(s, 1, Min(Ends(s)) - 1)
  IN FlattenSeq([i \in 1 .. Len(body) |->
       IF body[i] = "." /\ LineStart(body, i) THEN <<>> ELSE <<body[i]>>])

(* A message, with the end of line that its last line may lack.            *)
Message(f) ==
  IF Len(f) >= 2 /\ SubSeq(f, Len(f) - 1, Len(f)) = <<"\r", "\n">>
  THEN f ELSE f \o <<"\r", "\n">>

(* The dots that the server finds and stuffs: those after CR LF that are   *)
(* not the last byte.  A dot that begins f, or ends it alone on a line, is *)
(* sent as it is.                                                          *)
DotsAreInside(f) ==
  /\ f # <<>> => f[1] # "."
  /\ ~IsSuffix(<<"\r", "\n", ".">>, f)

(* What was read of the file.                                              *)
part == SubSeq(file, 1, bytes_read)

(* The client gets what was read of the file, all of it if no read()       *)
(* failed, whatever bytes the buffers were cut at, and finds the end of    *)
(* the answer where the server put it.                                     *)
ClientGetsFile ==
  finished /\ ~Q!CanRead(write_buffer) /\ DotsAreInside(part) =>
    /\ Ends(sent) = {Len(sent) - 2}
    /\ Decoded(sent) = Message(part)
    /\ ~read_failed => part = file

(* The terminator is never written while a byte that was read is still to  *)
(* be moved, nor, unless a read() failed, while one is still to be read:   *)
(* the client would take a part for the whole.  After a read() that failed *)
(* it does (mail.c:456).                                                   *)
NoEarlyEnd ==
  finished => ~Q!CanRead(retrieve_buffer) /\ (bytes_read = Len(file) \/ read_failed)
=============================================================================
