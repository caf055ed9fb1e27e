------------------------------- MODULE Parser -------------------------------
(***************************************************************************)
(* The parser of commands (parser/parser.c), fed one character at a time   *)
(* and kept across lines and packets.  A line is a command's name, its     *)
(* argument and CR LF; what the parser makes of a line is compared with    *)
(* what the line says, read at once.                                       *)
(*                                                                         *)
(* Characters are classes: "name" is the four letters of a command's name  *)
(* read in a row, which at the beginning of a line names the command and   *)
(* later is like any other letter; "part" is some of its letters; "x" is   *)
(* any other character.                                                    *)
(***************************************************************************)
EXTENDS Integers, SequencesExt

CONSTANTS
  MAX_ARG_LENGTH,   \* 40 in the code
  MAX_MSG_SIZE,     \* 512 in the code
  MaxLine,          \* bound: characters a client sends before CR LF
  Lines             \* bound: lines it sends

ASSUME SizesAssumption ==
  {MAX_ARG_LENGTH, MAX_MSG_SIZE, MaxLine, Lines} \subseteq Nat /\ MAX_ARG_LENGTH > 0

Char == {"name", "part", "x", "sp", "cr", "lf"}

(* all_command_info, one command of each kind: USER stands for RETR and    *)
(* DELE, CAPA for QUIT, NOOP, STAT and RSET.                               *)
Command == {"USER", "PASS", "LIST", "CAPA"}
min_args(type) == IF type \in {"USER", "PASS"} THEN 1 ELSE 0
max_args(type) == IF type \in {"USER", "PASS", "LIST"} THEN 1 ELSE 0
NotRecognized == "none"

VARIABLES
  parser,     \* input_parser: line_size, correctly_formed, arg_length, ...
  argument,   \* current_command.argument, up to arg_length - 1
  finished,   \* did the last character complete a line?
  line,       \* history: the characters of the line, with the type named
  named,      \* history: the command the line's name is that of
  stale,    \* history: did the line begin with is_expecting_new_arg set?
  lines       \* history: lines completed

vars == <<parser, argument, finished, line, named, stale, lines>>

Size(p, c) == IF c = "name" /\ p.line_size = 0 THEN 4 ELSE 1

-----------------------------------------------------------------------------
(* The states of the machine.  Each is what it makes of character c, as a  *)
(* record of the parser, the argument and whether the line is complete.    *)
Result(p, arg, done) == [parser |-> p, argument |-> arg, finished |-> done]

(* Mutant: the increment that follows is not counted on.                   *)
HandleParsedTooLow(p, arg, not_match) ==
  Result([p EXCEPT !.type = IF not_match THEN NotRecognized ELSE @,
                   !.line_size = -2, !.arg_length = @ - 1], arg, TRUE)

(* line_size becomes -1, that parser_feed then makes 0.                    *)
handle_parsed(p, arg, not_match) ==
  Result([p EXCEPT !.type = IF not_match THEN NotRecognized ELSE @,
                   !.line_size = -1, !.arg_length = @ - 1], arg, TRUE)

Goes(p, state) == [p EXCEPT !.state = state]

(* A name is compared with the table letter by letter; it is complete at   *)
(* its fourth letter if the line began with it.                            *)
command_recognition(p, arg, c, type) ==
  CASE c = "lf" -> handle_parsed(p, arg, TRUE)
    [] c = "name" /\ p.line_size = 0 ->
         Result([p EXCEPT !.type = type, !.arg_length = 0,
                          !.state = IF max_args(type) > 0 THEN "WITH_ARGS" ELSE "NO_ARGS"],
                IF max_args(type) > 0 THEN <<>> ELSE arg, FALSE)
    [] c = "part" /\ p.line_size = 0 -> Result(p, arg, FALSE)
    [] OTHER -> Result(Goes(p, "ERROR"), arg, FALSE)

(* A character of the argument, or the first of one too many, which is     *)
(* written nevertheless.                                                   *)
argument_char(p, arg, c) ==
  LET tooMany == p.is_expecting_new_arg /\ p.args_count >= max_args(p.type)
      first == p.is_expecting_new_arg /\ ~tooMany /\ p.arg_length = 0
      begun == [p EXCEPT
                  !.args_count = IF p.is_expecting_new_arg THEN @ + 1 ELSE @,
                  !.arg_length = IF first THEN 1 ELSE @,
                  !.is_expecting_new_arg = FALSE,
                  !.correctly_formed = 0,
                  !.state = IF tooMany THEN "ERROR" ELSE @]
  IN IF begun.arg_length = 0 THEN Result(Goes(begun, "ERROR"), arg, FALSE)
     ELSE Result([begun EXCEPT !.arg_length = @ + 1], Append(arg, c), FALSE)

with_arguments_state(p, arg, c) ==
  LET right == p.args_count >= min_args(p.type) /\ p.args_count <= max_args(p.type)
  IN CASE c = "sp" /\ (p.type # "PASS" \/ p.args_count = 0) ->
            Result([p EXCEPT !.is_expecting_new_arg = TRUE], arg, FALSE)
       [] c \in {"x", "name", "part"} \/ (c = "sp" /\ p.type = "PASS" /\ p.args_count # 0) ->
            argument_char(p, arg, c)
       [] c = "cr" ->
            Result([p EXCEPT !.correctly_formed = 1,
                             !.state = IF p.args_count = 0 /\ min_args(p.type) = 0 THEN "NO_ARGS"
                                       ELSE IF ~right THEN "ERROR" ELSE @], arg, FALSE)
       [] c = "lf" /\ p.correctly_formed = 1 ->
            handle_parsed([p EXCEPT !.correctly_formed = 2], arg, ~right)
       [] OTHER ->
            handle_parsed([Goes(p, "ERROR") EXCEPT !.correctly_formed = 0], arg, TRUE)

(* A bare LF does not end the line here.                                   *)
no_arguments_state(p, arg, c) ==
  CASE c = "cr" /\ p.correctly_formed = 0 ->
         Result([p EXCEPT !.correctly_formed = 1], arg, FALSE)
    [] c = "lf" /\ p.correctly_formed = 1 -> handle_parsed(p, arg, FALSE)
    [] c = "sp" -> Result(p, arg, FALSE)
    [] OTHER -> Result(Goes(p, "ERROR"), arg, FALSE)

(* Mutant: LF ends a bad line only after CR.                               *)
ErrorWantsCR(p, arg, c) ==
  CASE c = "cr" /\ p.correctly_formed = 0 ->
         Result([p EXCEPT !.correctly_formed = 1], arg, FALSE)
    [] c = "lf" /\ p.correctly_formed = 1 -> handle_parsed(p, arg, TRUE)
    [] OTHER -> Result([p EXCEPT !.correctly_formed = 0], arg, FALSE)

error_state(p, arg, c) ==
  CASE c = "cr" /\ p.correctly_formed = 0 ->
         Result([p EXCEPT !.correctly_formed = 1], arg, FALSE)
    [] c = "lf" -> handle_parsed(p, arg, TRUE)
    [] OTHER -> Result([p EXCEPT !.correctly_formed = 0], arg, FALSE)

(* Mutant: the arguments of the last line are still counted.               *)
NewLineKeepsArgs(p) ==
  IF p.line_size # 0 THEN p
  ELSE [p EXCEPT !.type = NotRecognized, !.state = "RECOGNITION", !.correctly_formed = 0]

(* What a new line finds: is_expecting_new_arg and arg_length are left as  *)
(* the last line left them.                                                *)
new_line(p) ==
  IF p.line_size # 0 THEN p
  ELSE [p EXCEPT !.type = NotRecognized, !.state = "RECOGNITION",
                 !.correctly_formed = 0, !.args_count = 0]

(* Mutant: only the line's size is checked.                                *)
ChecksLineOnly(r, n) ==
  [r EXCEPT !.parser.line_size = @ + n,
            !.parser.state = IF r.parser.line_size <= MAX_MSG_SIZE
                                /\ r.parser.line_size + n > MAX_MSG_SIZE
                             THEN "ERROR" ELSE @]

(* The last check: a line or an argument that is too long is an error from *)
(* here on.                                                                *)
check_size(r, n) ==
  LET p == r.parser
      long == \/ p.line_size <= MAX_MSG_SIZE /\ p.line_size + n > MAX_MSG_SIZE
              \/ p.state = "WITH_ARGS" /\ p.arg_length > MAX_ARG_LENGTH
  IN [r EXCEPT !.parser.line_size = @ + n,
               !.parser.state = IF long THEN "ERROR" ELSE @]

parser_feed(c, type) ==
  LET p == new_line(parser)
      r == CASE p.state = "RECOGNITION" -> command_recognition(p, argument, c, type)
             [] p.state = "WITH_ARGS" -> with_arguments_state(p, argument, c)
             [] p.state = "NO_ARGS" -> no_arguments_state(p, argument, c)
             [] p.state = "ERROR" -> error_state(p, argument, c)
  IN check_size(r, Size(p, c))

-----------------------------------------------------------------------------
parser_init ==
  [line_size |-> 0, correctly_formed |-> 0, arg_length |-> 0, args_count |-> 0,
   state |-> "RECOGNITION", type |-> "USER", is_expecting_new_arg |-> FALSE]

Init ==
  /\ parser = parser_init
  /\ argument = <<>>
  /\ finished = FALSE
  /\ line = <<>> /\ named = NotRecognized /\ stale = FALSE /\ lines = 0

(* Bound: what the client's line may go on with.                           *)
Sends(so_far, c) == Len(so_far) < MaxLine + (IF c \in {"cr", "lf"} THEN 2 ELSE 0)

(* parser_consume feeds the next character of the read buffer and stops    *)
(* after the one that completes a line.                                    *)
Feed(c, type) ==
  LET so_far == IF finished THEN <<>> ELSE line
      r == parser_feed(c, type)
  IN /\ lines < Lines
     /\ Sends(so_far, c)
     /\ parser' = r.parser
     /\ argument' = r.argument
     /\ finished' = r.finished
     /\ line' = Append(so_far, c)
     /\ named' = IF so_far # <<>> THEN named ELSE IF c = "name" THEN type ELSE NotRecognized
     /\ stale' = IF finished THEN parser.is_expecting_new_arg ELSE stale
     /\ lines' = IF r.finished THEN lines + 1 ELSE lines

Next == \E c \in Char : \E type \in (IF c = "name" THEN Command ELSE {NotRecognized}) : Feed(c, type)

Spec == Init /\ [][Next]_vars

-----------------------------------------------------------------------------
(* The line read at once: its command's argument is what is between the    *)
(* name and CR LF, without the spaces around it; those after the argument  *)
(* of PASS belong to it.                                                   *)
Letters(s) == {i \in 1 .. Len(s) : s[i] # "sp"}

Rest(w) == SubSeq(w, 2, Len(w) - 2)

Argument(w, type) ==
  LET r == Rest(w) IN
  IF Letters(r) = {} THEN <<>>
  ELSE SubSeq(r, Min(Letters(r)), IF type = "PASS" THEN Len(r) ELSE Max(Letters(r)))

WellFormed(w, type) ==
  /\ type # NotRecognized
  /\ IsSuffix(<<"cr", "lf">>, w)
  /\ ~Contains(Rest(w), "cr") /\ ~Contains(Rest(w), "lf")
  /\ Len(Rest(w)) + 5 <= MAX_MSG_SIZE    \* up to the CR
  /\ IF Argument(w, type) = <<>> THEN min_args(type) = 0
     ELSE /\ max_args(type) = 1 /\ Rest(w)[1] = "sp"
          /\ Len(Argument(w, type)) < MAX_ARG_LENGTH
          /\ type = "PASS" \/ ~Contains(Argument(w, type), "sp")

(* A CR that is not the one of CR LF.                                      *)
StrayCR == \E i \in 1 .. Len(line) - 2 : line[i] = "cr"

(* The test of pop3_action_handler before it looks for an action.          *)
accepted == parser.state # "ERROR" /\ parser.type # NotRecognized

(* Types: the machine is in one of its states (parser.h:29), and line_size *)
(* is -1 only within parser_feed(), which adds one to it (parser.c:88).    *)
TypeOK ==
  /\ parser.state \in {"RECOGNITION", "WITH_ARGS", "NO_ARGS", "ERROR"}
  /\ parser.type \in Command \cup {NotRecognized}
  /\ parser.line_size \in Nat /\ parser.arg_length \in Int /\ parser.args_count \in Nat
  /\ argument \in Seq(Char) /\ line \in Seq(Char)

(* A command is run exactly for the lines that are one, with the argument  *)
(* they have, whatever lines came before: "si no recibio nada el parser    *)
(* antes, inicializa el comando" (parser.c:63).  Two kinds of lines are    *)
(* left out, that the parser does misread: one that follows a line which   *)
(* ended while an argument was expected, and one with a CR inside.         *)
ReadsLinesRight ==
  finished /\ ~stale /\ ~StrayCR =>
    /\ accepted <=> WellFormed(line, named)
    /\ accepted =>
         LET said == Argument(line, named) IN
         /\ parser.type = named
         /\ parser.args_count = IF said = <<>> THEN 0 ELSE 1
         /\ said # <<>> => argument = said

(* Whatever is sent, a line that ends in CR LF is over: no command that is *)
(* pipelined after it is taken for a part of it (parser.c:95-109).         *)
CrLfEndsLine == \A i \in 1 .. Len(line) - 2 : ~(line[i] = "cr" /\ line[i + 1] = "lf")

(* The argument and the zero after it fit in the MAX_ARG_LENGTH + 1 bytes  *)
(* allocated for them (parser.c:51, 153).                                  *)
ArgumentFits == Len(argument) <= MAX_ARG_LENGTH
=============================================================================
