---------------------------- MODULE ListCommand -----------------------------
(***************************************************************************)
(* LIST without argument, whose answer may need several visits of the      *)
(* write handler.  The only thing kept between them is the number of bytes *)
(* written so far: each visit adds up the lengths of the lines again until *)
(* it reaches that number, and goes on from there.  A maildrop that could  *)
(* not be read is answered in one line, which nothing follows.             *)
(***************************************************************************)
EXTENDS Naturals, Sequences, SequencesExt, Command

CONSTANTS
  MailCount,   \* mail_info->mail_count
  Octets,      \* octets of each message
  Deletions,   \* the sets of messages that may be marked
  Rooms        \* the room visits may find in the write buffer

ASSUME ListAssumption ==
  /\ MailCount \in Nat
  /\ Octets \in [1 .. MailCount -> Nat]
  /\ Deletions \subseteq SUBSET (1 .. MailCount)
  /\ WriteSize \in Nat
  /\ Rooms \subseteq 0 .. WriteSize

VARIABLES
  is_dir_valid,   \* could PASS read the maildrop?
  deleted,        \* messages whose state is 0
  bytes_written,  \* command.bytes_written
  listed          \* the messages whose lines were written, in order

list_vars == <<is_dir_valid, deleted, bytes_written, listed, finished>>

left == (1 .. MailCount) \ deleted

num_string_size[n \in Nat] == IF n < 10 THEN 1 ELSE 1 + num_string_size[n \div 10]

LIST_LINE_LEN(i, octets) == num_string_size[i] + num_string_size[octets] + 3

total_octets == MapThenSumSet(LAMBDA m : Octets[m], left)

(* "+OK %ld messages (%ld octets)\r\n"                                     *)
FIRST_LINE_LIST_LEN ==
  num_string_size[Cardinality(left)] + num_string_size[total_octets] + 25

(* The lines of the messages up to m, as their lengths are added up when a *)
(* visit resumes: message m has index m - 1, and LIST_LINE_LEN gets that.  *)
previous_sent[m \in 0 .. MailCount] ==
  IF m = 0 THEN 0
  ELSE previous_sent[m - 1] + IF m \in deleted THEN 0 ELSE LIST_LINE_LEN(m - 1, Octets[m])

(* The same lines as they are written, with the message's number.          *)
printed[m \in 0 .. MailCount] ==
  IF m = 0 THEN 0
  ELSE printed[m - 1] + IF m \in deleted THEN 0 ELSE LIST_LINE_LEN(m, Octets[m])

(* Mutant: one message too many is passed over.                            *)
ResumesLate(written) ==
  Cardinality({m \in 1 .. MailCount : FIRST_LINE_LIST_LEN + previous_sent[m - 1] <= written})

(* How many messages a visit passes over: until their lines add up to what *)
(* was written.                                                            *)
resume(written) ==
  Cardinality({m \in 1 .. MailCount : FIRST_LINE_LIST_LEN + previous_sent[m - 1] < written})

(* Mutant: room is left for a first line and CR LF "." CR LF each time.     *)
SparesFirstLine(m, room) == LIST_LINE_LEN(m - 1, Octets[m]) + FIRST_LINE_LIST_LEN + 5 < room

(* A line is written if three bytes and more would be left over, with the  *)
(* length of the index again.                                              *)
CAN_WRITE_LIST_LINE(m, room) == LIST_LINE_LEN(m - 1, Octets[m]) + 3 < room

(* The messages after start that a visit does not reach in the given room: *)
(* it stops at the first whose line cannot be written.                     *)
unwritten(start, room) ==
  {m \in start + 1 .. MailCount : \E k \in left :
     /\ start < k /\ k <= m
     /\ ~CAN_WRITE_LIST_LINE(k, room + printed[start] - printed[k - 1])}

(* The messages after start, up to stop, that have a line.                 *)
lines(start, stop) ==
  FlattenSeq([i \in 1 .. stop - start |-> IF start + i \in left THEN <<start + i>> ELSE <<>>])

ListInit ==
  /\ is_dir_valid \in BOOLEAN
  /\ deleted \in IF is_dir_valid THEN Deletions ELSE {{}}
  /\ bytes_written = 0
  /\ listed = <<>>
  /\ finished = FALSE

(* "+OK 0 messages (0 octets)\r\n"                                         *)
NO_MAILDROP_LEN == 27

(* One visit that finds room in the write buffer.  The first line is taken *)
(* to fit, with the NUL of snprintf(); the line "." CR LF needs three      *)
(* bytes.                                                                  *)
list_lines(room) ==
  LET first == IF bytes_written = 0 THEN FIRST_LINE_LIST_LEN ELSE 0
      start == resume(bytes_written + first)
      stop == MailCount - Cardinality(unwritten(start, room - first))
      written == first + printed[stop] - printed[start]
  IN /\ is_dir_valid /\ ~finished
     /\ first < room
     /\ bytes_written' = bytes_written + written
     /\ listed' = listed \o lines(start, stop)
     /\ finished' = (stop = MailCount /\ room - written >= 3)
     /\ UNCHANGED <<is_dir_valid, deleted>>

(* The one visit to a maildrop that could not be read: no line of a        *)
(* message, and no line "." that would end the answer.                     *)
list_nothing(room) ==
  /\ ~is_dir_valid /\ ~finished
  /\ NO_MAILDROP_LEN < room
  /\ bytes_written' = bytes_written + NO_MAILDROP_LEN
  /\ finished' = TRUE
  /\ UNCHANGED <<is_dir_valid, deleted, listed>>

list_mails(room) == list_lines(room) \/ list_nothing(room)

ListNext == \E room \in Rooms : list_mails(room)

ListSpec == ListInit /\ [][ListNext]_list_vars

(* The write buffer drains, so visits with the whole buffer keep coming.   *)
FairListSpec == ListSpec /\ WF_list_vars(list_mails(WriteSize))

-----------------------------------------------------------------------------
(* Wherever the answer is cut, it lists every message that is not marked,  *)
(* once and in order: a visit goes on "as far as I got before"             *)
(* (mail.c:284).  Of a maildrop that could not be read it lists none.      *)
ListsEachOnce ==
  LET all == IF is_dir_valid THEN lines(0, MailCount) ELSE <<>>
  IN /\ Len(listed) <= Len(all) /\ listed = SubSeq(all, 1, Len(listed))
     /\ finished => listed = all

(* The answer comes to its end.                                            *)
ListEnds == <>finished
=============================================================================
