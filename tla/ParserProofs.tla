---------------------------- MODULE ParserProofs ----------------------------
(***************************************************************************)
(* Theorems about Parser, for lines of any length, any number of them and  *)
(* any limits.  The transitions are first described field by field, then   *)
(* with the check that follows them, as what one character makes of the    *)
(* parser (Grown, Ended, Begun).  The invariant has three parts: Place and *)
(* Counted, what every line keeps; Reading, what each state of the machine *)
(* says of the characters read, if none before the last was a CR; and, of  *)
(* a line that is complete, that it was read for what it says.             *)
(***************************************************************************)
EXTENDS Parser, Induction, SequenceTheorems, TLAPS

(* The states of the machine (parser.h).                                   *)
States == {"RECOGNITION", "WITH_ARGS", "NO_ARGS", "ERROR"}

(* What the parser is between two characters.                              *)
InputParser ==
  [line_size : Nat, correctly_formed : 0 .. 2, arg_length : Int, args_count : Nat,
   state : States, type : Command \cup {NotRecognized}, is_expecting_new_arg : BOOLEAN]

(* The last character is a CR, perhaps that of CR LF.                      *)
EndsInCr(w) == Len(w) > 0 /\ w[Len(w)] = "cr"

(* The last position of w that is not that CR.                             *)
End(w) == IF EndsInCr(w) THEN Len(w) - 1 ELSE Len(w)

(* Only spaces follow the name.                                            *)
Blank(w) == \A i \in 2 .. End(w) : w[i] = "sp"

(* There is no CR before the last character.                               *)
Plain(w) == \A i \in 1 .. Len(w) - 1 : w[i] # "cr"

(* The characters of a line: a name is four of them.                       *)
SizeOf(w, type) == IF type = NotRecognized THEN Len(w) ELSE Len(w) + 3

(* What the parser knows of the line w it is in, whatever it is: how long  *)
(* it is, the command named, and that no CR LF was passed. In NO_ARGS a    *)
(* CR is remembered, so that LF will end the line.                         *)
Place(p, w, type) ==
  /\ w # <<>>
  /\ p.line_size = SizeOf(w, type)
  /\ p.type = type
  /\ type # NotRecognized <=> w[1] = "name"
  /\ p.state = "RECOGNITION" => type = NotRecognized
  /\ type = NotRecognized => p.state \in {"RECOGNITION", "ERROR"}
  /\ EndsInCr(w) /\ p.state = "NO_ARGS" => p.correctly_formed = 1
  /\ \A i \in 1 .. Len(w) - 1 : ~(w[i] = "cr" /\ w[i + 1] = "lf")

(* In WITH_ARGS the length counted is that of the argument, and it fits;   *)
(* once too long the machine is in ERROR and writes no more.               *)
Counted(p, arg) ==
  /\ Len(arg) <= MAX_ARG_LENGTH
  /\ p.state = "WITH_ARGS" =>
       /\ p.arg_length <= MAX_ARG_LENGTH
       /\ \/ p.arg_length = 0 /\ arg = <<>>
          \/ p.arg_length = Len(arg) + 1

(* What has been read of w is enough for no continuation of it to be well  *)
(* formed.                                                                 *)
Wrong(w, type) ==
  \/ \E i \in 2 .. End(w) : w[i] = "lf"
  \/ Len(w) + 3 > MAX_MSG_SIZE
  \/ max_args(type) = 0 /\ \E i \in 2 .. End(w) : w[i] # "sp"
  \/ End(w) >= 2 /\ w[2] # "sp"
  \/ type # "PASS" /\ \E i, j, k \in 2 .. End(w) :
       i < j /\ j < k /\ w[i] # "sp" /\ w[j] = "sp" /\ w[k] # "sp"
  \/ \E i, j \in 2 .. End(w) :
       w[i] # "sp" /\ (type = "PASS" \/ w[j] # "sp") /\ j - i + 1 >= MAX_ARG_LENGTH
  \/ EndsInCr(w) /\ min_args(type) = 1 /\ Blank(w)

(* The argument of w is what lies from a to b, and it is what was          *)
(* written.                                                                *)
Span(arg, w, type, a, b) ==
  /\ a > 2 /\ w[a] # "sp" /\ \A i \in 2 .. a - 1 : w[i] = "sp"
  /\ \A i \in b + 1 .. End(w) : w[i] = "sp"
  /\ \A i \in a .. b : w[i] # "lf"
  /\ type # "PASS" => \A i \in a .. b : w[i] # "sp"
  /\ type = "PASS" => b = End(w)
  /\ Len(arg) = b - a + 1 /\ \A i \in 1 .. Len(arg) : arg[i] = w[a + i - 1]

(* The line has no argument, and its command wants none.                   *)
NoArgument(n, w, type) ==
  /\ n = 0 /\ Blank(w)
  /\ type = "CAPA" \/ (type = "LIST" /\ EndsInCr(w))

(* Only spaces were read after the name; after one, an argument is         *)
(* expected.                                                               *)
Before(l, n, e, w) ==
  /\ n = 0 /\ l = 0 /\ Blank(w) /\ ~EndsInCr(w)
  /\ e <=> Len(w) > 1

(* An argument was begun, and is expecting_new_arg exactly if a space      *)
(* followed it.                                                            *)
Within(l, n, e, arg, w, type) ==
  /\ n = 1 /\ l = Len(arg) + 1
  /\ \E a \in 2 .. End(w) : \E b \in a .. End(w) :
       Span(arg, w, type, a, b) /\ (e <=> End(w) > b)

(* What each state of the machine says of a line w that named a command.   *)
Reads(f, l, n, s, e, arg, w, type) ==
  /\ s # "ERROR" => Len(w) + 3 <= MAX_MSG_SIZE /\ (f = 1 <=> EndsInCr(w)) /\ f # 2
  /\ s = "NO_ARGS" => NoArgument(n, w, type)
  /\ s = "WITH_ARGS" => type # "CAPA" /\ (Before(l, n, e, w) \/ Within(l, n, e, arg, w, type))
  /\ s = "ERROR" => Wrong(w, type)

(* The same, of the parser.                                                *)
Reading(p, arg, w, type) ==
  type # NotRecognized =>
    Reads(p.correctly_formed, p.arg_length, p.args_count, p.state, p.is_expecting_new_arg,
          arg, w, type)

(* The CASE of parser_feed() on the state.                                 *)
Transition(p, arg, c, type) ==
  CASE p.state = "RECOGNITION" -> command_recognition(p, arg, c, type)
    [] p.state = "WITH_ARGS" -> with_arguments_state(p, arg, c)
    [] p.state = "NO_ARGS" -> no_arguments_state(p, arg, c)
    [] p.state = "ERROR" -> error_state(p, arg, c)

(* Append, character by character.                                         *)
LEMMA AppendIs ==
  ASSUME NEW S, NEW w \in Seq(S), NEW c \in S
  PROVE  /\ Append(w, c) \in Seq(S) /\ Len(Append(w, c)) = Len(w) + 1
         /\ \A i \in 1 .. Len(w) : Append(w, c)[i] = w[i]
         /\ Append(w, c)[Len(w) + 1] = c
         /\ Append(w, c) # <<>>
  OBVIOUS

(* A line ends in CR LF when its last two characters are those.            *)
LEMMA EndsInCrLf ==
  ASSUME NEW w \in Seq(Char)
  PROVE  IsSuffix(<<"cr", "lf">>, w)
           <=> Len(w) >= 2 /\ w[Len(w) - 1] = "cr" /\ w[Len(w)] = "lf"
<1> DEFINE e == Reverse(<<"cr", "lf">>)
<1> DEFINE r == Reverse(w)
<1>1. e = <<"lf", "cr">>
  <2>1. e \in Seq({"cr", "lf"}) /\ <<"lf", "cr">> \in Seq({"cr", "lf"}) /\ Len(e) = 2
    BY DEF Reverse
  <2>2. e[1] = "lf" /\ e[2] = "cr"
    BY DEF Reverse
  <2> HIDE DEF e
  <2>3. \A i \in 1 .. Len(e) : e[i] = <<"lf", "cr">>[i]
    BY <2>1, <2>2
  <2>4. QED
    BY <2>1, <2>3, SeqEqual
<1>2. r \in Seq(Char) /\ Len(r) = Len(w) /\ \A i \in 1 .. Len(w) : r[i] = w[(Len(w) - i) + 1]
  BY DEF Reverse
<1>3. IsSuffix(<<"cr", "lf">>, w) <=> Len(r) >= 2 /\ SubSeq(r, 1, 2) = e
  <2>1. IsSuffix(<<"cr", "lf">>, w) <=> IsPrefix(e, r)
    BY DEF IsSuffix
  <2>2. Len(e) = 2 /\ SubSeq(e, 1, 2) = e
    BY <1>1
  <2> HIDE DEF e, r
  <2>3. QED
    BY <1>2, <2>1, <2>2 DEF IsPrefix
<1> HIDE DEF r, e
<1>4. ASSUME Len(r) >= 2 PROVE SubSeq(r, 1, 2) = e <=> r[1] = "lf" /\ r[2] = "cr"
  <2>1. SubSeq(r, 1, 2) \in Seq(Char) /\ Len(SubSeq(r, 1, 2)) = 2
        /\ SubSeq(r, 1, 2)[1] = r[1] /\ SubSeq(r, 1, 2)[2] = r[2]
    BY <1>2, <1>4
  <2>2. e \in Seq(Char) /\ Len(e) = 2 /\ e[1] = "lf" /\ e[2] = "cr"
    BY <1>1 DEF Char
  <2> DEFINE t == SubSeq(r, 1, 2)
  <2> HIDE DEF t
  <2>3. t \in Seq(Char) /\ Len(t) = 2 /\ t[1] = r[1] /\ t[2] = r[2]
    BY <2>1 DEF t
  <2>4. r[1] = "lf" /\ r[2] = "cr" => t = e
    BY <2>2, <2>3, SeqEqual
  <2>5. QED
    BY <2>2, <2>3, <2>4 DEF t
<1>5. QED
  BY <1>2, <1>3, <1>4

(* is_expecting_new_arg.                                                   *)
Expecting == TRUE
Settled == FALSE

(* The character is read and the line goes on, or it is complete; Missed   *)
(* and Matched are the two uses of handle_parsed().                        *)
On(p, arg) == Result(p, arg, FALSE)
Over(p, arg) == Result(p, arg, TRUE)
Missed(p, arg) == handle_parsed(p, arg, TRUE)
Matched(p, arg) == handle_parsed(p, arg, FALSE)

(* The fields, one by one.                                                 *)
Fields(p, size, formed, length, count, state, type, expecting) ==
  p = [line_size |-> size, correctly_formed |-> formed, arg_length |-> length,
       args_count |-> count, state |-> state, type |-> type, is_expecting_new_arg |-> expecting]

(* A record of the parser with one field changed, field by field.          *)
LEMMA SetState ==
  ASSUME NEW z, NEW f, NEW l, NEW n, NEW s, NEW y, NEW e, NEW p,
         Fields(p, z, f, l, n, s, y, e), NEW new
  PROVE  Fields([p EXCEPT !.state = new], z, f, l, n, new, y, e)
BY DEF Fields

LEMMA SetType ==
  ASSUME NEW z, NEW f, NEW l, NEW n, NEW s, NEW y, NEW e, NEW p,
         Fields(p, z, f, l, n, s, y, e), NEW new
  PROVE  Fields([p EXCEPT !.type = new], z, f, l, n, s, new, e)
BY DEF Fields

LEMMA SetSize ==
  ASSUME NEW z, NEW f, NEW l, NEW n, NEW s, NEW y, NEW e, NEW p,
         Fields(p, z, f, l, n, s, y, e), NEW new
  PROVE  Fields([p EXCEPT !.line_size = new], new, f, l, n, s, y, e)
BY DEF Fields

LEMMA SetLength ==
  ASSUME NEW z, NEW f, NEW l, NEW n, NEW s, NEW y, NEW e, NEW p,
         Fields(p, z, f, l, n, s, y, e), NEW new
  PROVE  Fields([p EXCEPT !.arg_length = new], z, f, new, n, s, y, e)
BY DEF Fields

LEMMA SetFormed ==
  ASSUME NEW z, NEW f, NEW l, NEW n, NEW s, NEW y, NEW e, NEW p,
         Fields(p, z, f, l, n, s, y, e), NEW new
  PROVE  Fields([p EXCEPT !.correctly_formed = new], z, new, l, n, s, y, e)
BY DEF Fields

LEMMA SetExpecting ==
  ASSUME NEW z, NEW f, NEW l, NEW n, NEW s, NEW y, NEW e, NEW p,
         Fields(p, z, f, l, n, s, y, e), NEW new
  PROVE  Fields([p EXCEPT !.is_expecting_new_arg = new], z, f, l, n, s, y, new)
BY DEF Fields

LEMMA CountLength ==
  ASSUME NEW z, NEW f, NEW l, NEW n, NEW s, NEW y, NEW e, NEW p,
         Fields(p, z, f, l, n, s, y, e)
  PROVE  Fields([p EXCEPT !.arg_length = @ + 1], z, f, l + 1, n, s, y, e)
BY DEF Fields

(* What argument_char() does, by cases: whether an argument is expected,   *)
(* whether it is one too many, and whether anything was written.           *)
LEMMA ArgumentCharIs ==
  ASSUME NEW z, NEW f, NEW l, NEW n, NEW s, NEW y, NEW e \in BOOLEAN, NEW p, NEW arg, NEW c,
         Fields(p, z, f, l, n, s, y, e),
         NEW t, t = argument_char(p, arg, c)
  PROVE  /\ ~e /\ l = 0 =>
              /\ t = On(t.parser, arg)
              /\ Fields(t.parser, z, 0, l, n, "ERROR", y, Settled)
         /\ ~e /\ l # 0 =>
              /\ t = On(t.parser, Append(arg, c))
              /\ Fields(t.parser, z, 0, l + 1, n, s, y, Settled)
         /\ e /\ n >= max_args(y) /\ l = 0 =>
              /\ t = On(t.parser, arg)
              /\ Fields(t.parser, z, 0, l, n + 1, "ERROR", y, Settled)
         /\ e /\ n >= max_args(y) /\ l # 0 =>
              /\ t = On(t.parser, Append(arg, c))
              /\ Fields(t.parser, z, 0, l + 1, n + 1, "ERROR", y, Settled)
         /\ e /\ ~(n >= max_args(y)) =>
              /\ t = On(t.parser, Append(arg, c))
              /\ Fields(t.parser, z, 0, (IF l = 0 THEN 1 ELSE l) + 1, n + 1, s, y, Settled)
<1> DEFINE tooMany == p.is_expecting_new_arg /\ p.args_count >= max_args(p.type)
           first == p.is_expecting_new_arg /\ ~tooMany /\ p.arg_length = 0
           begun == [p EXCEPT
                       !.args_count = IF p.is_expecting_new_arg THEN @ + 1 ELSE @,
                       !.arg_length = IF first THEN 1 ELSE @,
                       !.is_expecting_new_arg = FALSE,
                       !.correctly_formed = 0,
                       !.state = IF tooMany THEN "ERROR" ELSE @]
           count == IF p.is_expecting_new_arg THEN p.args_count + 1 ELSE p.args_count
           length == IF first THEN 1 ELSE p.arg_length
           goes == IF tooMany THEN "ERROR" ELSE p.state
<1>1. t = IF begun.arg_length = 0 THEN On(Goes(begun, "ERROR"), arg)
          ELSE On([begun EXCEPT !.arg_length = @ + 1], Append(arg, c))
  BY DEF argument_char, On
<1>2. Fields(begun, z, 0, length, count, goes, y, Settled)
  <2>1. begun = [p EXCEPT !.args_count = count, !.arg_length = length, !.is_expecting_new_arg = FALSE,
                          !.correctly_formed = 0, !.state = goes]
    OBVIOUS
  <2> HIDE DEF begun, count, length, goes
  <2>2. QED
    BY <2>1 DEF Fields, Settled
<1>3. /\ tooMany <=> e /\ n >= max_args(y)
      /\ first <=> e /\ ~(n >= max_args(y)) /\ l = 0
      /\ count = IF e THEN n + 1 ELSE n
      /\ length = IF first THEN 1 ELSE l
      /\ goes = IF tooMany THEN "ERROR" ELSE s
  BY DEF Fields
<1> HIDE DEF begun, count, length, goes, tooMany, first
<1>4. ASSUME length = 0
      PROVE  t = On(t.parser, arg) /\ Fields(t.parser, z, 0, length, count, "ERROR", y, Settled)
  <2>1. t = On(Goes(begun, "ERROR"), arg)
    BY <1>1, <1>2, <1>4 DEF Fields
  <2>2. Fields(Goes(begun, "ERROR"), z, 0, length, count, "ERROR", y, Settled)
    BY <1>2, SetState DEF Goes
  <2>3. t.parser = Goes(begun, "ERROR")
    BY <2>1 DEF On, Over, Result
  <2>4. QED
    BY <2>1, <2>2, <2>3
<1>5. ASSUME length # 0
      PROVE  t = On(t.parser, Append(arg, c))
             /\ Fields(t.parser, z, 0, length + 1, count, goes, y, Settled)
  <2> DEFINE q == [begun EXCEPT !.arg_length = @ + 1]
  <2>1. t = On(q, Append(arg, c))
    BY <1>1, <1>2, <1>5 DEF Fields
  <2>2. Fields(q, z, 0, length + 1, count, goes, y, Settled)
    BY <1>2, CountLength
  <2> HIDE DEF q
  <2>3. t.parser = q
    BY <2>1 DEF On, Over, Result
  <2>4. QED
    BY <2>1, <2>2, <2>3
<1>6. CASE e = FALSE
  <2>1. count = n /\ length = l /\ goes = s
    BY <1>3, <1>6
  <2>2. QED
    BY <1>4, <1>5, <1>6, <2>1
<1>7. CASE e = TRUE /\ n >= max_args(y)
  <2>1. count = n + 1 /\ length = l /\ goes = "ERROR"
    BY <1>3, <1>7
  <2>2. QED
    BY <1>4, <1>5, <1>7, <2>1
<1>8. CASE e = TRUE /\ ~(n >= max_args(y))
  <2>1. count = n + 1 /\ length = (IF l = 0 THEN 1 ELSE l) /\ goes = s /\ length # 0
    BY <1>3, <1>8
  <2>2. QED
    BY <1>5, <1>8, <2>1
<1> QED
  BY <1>6, <1>7, <1>8

(* What handle_parsed() and command_recognition() change at once.          *)
LEMMA SetHandled ==
  ASSUME NEW z, NEW f, NEW l, NEW n, NEW s, NEW y, NEW e, NEW p,
         Fields(p, z, f, l, n, s, y, e), NEW new
  PROVE  Fields([p EXCEPT !.type = new, !.line_size = -1, !.arg_length = @ - 1],
                -1, f, l - 1, n, s, new, e)
<1> DEFINE q1 == [p EXCEPT !.type = new]
           q2 == [q1 EXCEPT !.line_size = -1]
           length == p.arg_length - 1
           q3 == [q2 EXCEPT !.arg_length = length]
           q == [p EXCEPT !.type = new, !.line_size = -1, !.arg_length = length]
<1>1. length = l - 1
  BY DEF Fields
<1> HIDE DEF length
<1>2. q = q3
  OBVIOUS
<1> HIDE DEF q3
<1>3. Fields(q1, z, f, l, n, s, new, e)
  BY SetType
<1>4. Fields(q2, -1, f, l, n, s, new, e)
  BY <1>3, SetSize
<1>5. Fields(q3, -1, f, length, n, s, new, e)
  BY <1>4, SetLength DEF q3
<1>6. QED
  BY <1>1, <1>2, <1>5 DEF length

LEMMA SetRecognized ==
  ASSUME NEW z, NEW f, NEW l, NEW n, NEW s, NEW y, NEW e, NEW p,
         Fields(p, z, f, l, n, s, y, e), NEW new, NEW goes
  PROVE  Fields([p EXCEPT !.type = new, !.arg_length = 0, !.state = goes],
                z, f, 0, n, goes, new, e)
<1> DEFINE q1 == [p EXCEPT !.type = new]
           q2 == [q1 EXCEPT !.arg_length = 0]
           q3 == [q2 EXCEPT !.state = goes]
<1>2. [p EXCEPT !.type = new, !.arg_length = 0, !.state = goes] = q3
  OBVIOUS
<1> HIDE DEF q3
<1>3. Fields(q1, z, f, l, n, s, new, e)
  BY SetType
<1>4. Fields(q2, z, f, 0, n, s, new, e)
  BY <1>3, SetLength
<1>5. Fields(q3, z, f, 0, n, goes, new, e)
  BY <1>4, SetState DEF q3
<1>6. QED
  BY <1>2, <1>5

(* The line was not a command.                                             *)
LEMMA MissIs ==
  ASSUME NEW z, NEW f, NEW l, NEW n, NEW s, NEW y, NEW e, NEW p, NEW arg,
         Fields(p, z, f, l, n, s, y, e),
         NEW t, t = Missed(p, arg)
  PROVE  /\ t = Over(t.parser, arg)
         /\ Fields(t.parser, -1, f, l - 1, n, s, NotRecognized, e)
<1> DEFINE new == IF TRUE THEN NotRecognized ELSE p.type
           q == [p EXCEPT !.type = new, !.line_size = -1, !.arg_length = @ - 1]
<1>1. t = Over(q, arg)
  BY Zenon DEF handle_parsed, Missed, Matched, Over
<1>2. new = NotRecognized
  BY DEF Fields
<1> HIDE DEF new
<1>3. Fields(q, -1, f, l - 1, n, s, new, e)
  BY SetHandled
<1> HIDE DEF q
<1>4. t.parser = q
  BY <1>1 DEF On, Over, Result
<1>5. QED
  BY <1>1, <1>2, <1>3, <1>4

(* The line was a command.                                                 *)
LEMMA MatchIs ==
  ASSUME NEW z, NEW f, NEW l, NEW n, NEW s, NEW y, NEW e, NEW p, NEW arg,
         Fields(p, z, f, l, n, s, y, e),
         NEW t, t = Matched(p, arg)
  PROVE  /\ t = Over(t.parser, arg)
         /\ Fields(t.parser, -1, f, l - 1, n, s, y, e)
<1> DEFINE new == IF FALSE THEN NotRecognized ELSE p.type
           q == [p EXCEPT !.type = new, !.line_size = -1, !.arg_length = @ - 1]
<1>1. t = Over(q, arg)
  BY Zenon DEF handle_parsed, Missed, Matched, Over
<1>2. new = y
  BY DEF Fields
<1> HIDE DEF new
<1>3. Fields(q, -1, f, l - 1, n, s, new, e)
  BY SetHandled
<1> HIDE DEF q
<1>4. t.parser = q
  BY <1>1 DEF On, Over, Result
<1>5. QED
  BY <1>1, <1>2, <1>3, <1>4

(* What command_recognition() does, by cases.                              *)
LEMMA RecognitionIs ==
  ASSUME NEW z, NEW f, NEW l, NEW n, NEW s, NEW y, NEW e, NEW p, NEW arg, NEW c, NEW type,
         Fields(p, z, f, l, n, s, y, e),
         NEW t, t = command_recognition(p, arg, c, type)
  PROVE  /\ c = "lf" =>
              /\ t = Over(t.parser, arg)
              /\ Fields(t.parser, -1, f, l - 1, n, s, NotRecognized, e)
         /\ c = "name" /\ z = 0 /\ max_args(type) > 0 =>
              /\ t = On(t.parser, <<>>)
              /\ Fields(t.parser, z, f, 0, n, "WITH_ARGS", type, e)
         /\ c = "name" /\ z = 0 /\ ~(max_args(type) > 0) =>
              /\ t = On(t.parser, arg)
              /\ Fields(t.parser, z, f, 0, n, "NO_ARGS", type, e)
         /\ c = "part" /\ z = 0 => t = On(p, arg)
         /\ c # "lf" /\ ~(c \in {"name", "part"} /\ z = 0) =>
              /\ t = On(t.parser, arg)
              /\ Fields(t.parser, z, f, l, n, "ERROR", y, e)
<1> DEFINE goes == IF max_args(type) > 0 THEN "WITH_ARGS" ELSE "NO_ARGS"
           q == [p EXCEPT !.type = type, !.arg_length = 0, !.state = goes]
<1>z. p.line_size = z
  BY DEF Fields
<1>1. ASSUME c = "lf" PROVE t = Over(t.parser, arg) /\ Fields(t.parser, -1, f, l - 1, n, s, NotRecognized, e)
  <2>1. t = Missed(p, arg)
    BY <1>1, Zenon DEF command_recognition, On, Over, Missed, Matched
  <2>2. QED
    BY <2>1, MissIs
<1>2. ASSUME c = "name", z = 0
      PROVE  t = On(q, IF max_args(type) > 0 THEN <<>> ELSE arg)
  <2>1. p.line_size = 0
    BY <1>z, <1>2
  <2>2. QED
    BY <1>2, <2>1, Zenon DEF command_recognition, On, Over, Missed, Matched
<1>3. ASSUME c = "name", z = 0, max_args(type) > 0
      PROVE  /\ t = On(t.parser, <<>>)
             /\ Fields(t.parser, z, f, 0, n, "WITH_ARGS", type, e)
  <2>0. goes = "WITH_ARGS"
    BY <1>3
  <2> HIDE DEF goes
  <2>1. Fields(q, z, f, 0, n, "WITH_ARGS", type, e)
    BY <2>0, SetRecognized
  <2>2. t = On(q, <<>>)
    BY <1>2, <1>3, Zenon
  <2> HIDE DEF q
  <2>3. t.parser = q
    BY <2>2 DEF On, Over, Result
  <2>4. QED
    BY <2>1, <2>2, <2>3
<1>4. ASSUME c = "name", z = 0, ~(max_args(type) > 0)
      PROVE  /\ t = On(t.parser, arg)
             /\ Fields(t.parser, z, f, 0, n, "NO_ARGS", type, e)
  <2>0. goes = "NO_ARGS"
    BY <1>4
  <2> HIDE DEF goes
  <2>1. Fields(q, z, f, 0, n, "NO_ARGS", type, e)
    BY <2>0, SetRecognized
  <2>2. t = On(q, arg)
    BY <1>2, <1>4, Zenon
  <2> HIDE DEF q
  <2>3. t.parser = q
    BY <2>2 DEF On, Over, Result
  <2>4. QED
    BY <2>1, <2>2, <2>3
<1>5. ASSUME c = "part", z = 0 PROVE t = On(p, arg)
  <2>1. p.line_size = 0
    BY <1>z, <1>5
  <2>2. QED
    BY <1>5, <2>1, Zenon DEF command_recognition, On, Over, Missed, Matched
<1>6. ASSUME c # "lf", ~(c \in {"name", "part"} /\ z = 0)
      PROVE  /\ t = On(t.parser, arg)
             /\ Fields(t.parser, z, f, l, n, "ERROR", y, e)
  <2>1. c # "lf" /\ ~(c = "name" /\ p.line_size = 0) /\ ~(c = "part" /\ p.line_size = 0)
    BY <1>6, <1>z
  <2>2. t = On(Goes(p, "ERROR"), arg)
    BY <2>1, Zenon DEF command_recognition, On, Over, Missed, Matched
  <2>3. Fields(Goes(p, "ERROR"), z, f, l, n, "ERROR", y, e)
    BY SetState DEF Goes
  <2> DEFINE g == Goes(p, "ERROR")
  <2> HIDE DEF g
  <2>5. t = On(g, arg) /\ Fields(g, z, f, l, n, "ERROR", y, e)
    BY <2>2, <2>3 DEF g
  <2>6. t.parser = g
    BY <2>5 DEF On, Over, Result
  <2>7. QED
    BY <2>5, <2>6
<1> QED
  BY <1>1, <1>3, <1>4, <1>5, <1>6

(* What no_arguments_state() does, by cases.                               *)
LEMMA NoArgumentsIs ==
  ASSUME NEW z, NEW f, NEW l, NEW n, NEW s, NEW y, NEW e, NEW p, NEW arg, NEW c,
         Fields(p, z, f, l, n, s, y, e),
         NEW t, t = no_arguments_state(p, arg, c)
  PROVE  /\ c = "cr" /\ f = 0 =>
              t = On(t.parser, arg) /\ Fields(t.parser, z, 1, l, n, s, y, e)
         /\ c = "lf" /\ f = 1 =>
              t = Over(t.parser, arg) /\ Fields(t.parser, -1, f, l - 1, n, s, y, e)
         /\ c = "sp" => t = On(p, arg)
         /\ c # "sp" /\ ~(c = "cr" /\ f = 0) /\ ~(c = "lf" /\ f = 1) =>
              t = On(t.parser, arg) /\ Fields(t.parser, z, f, l, n, "ERROR", y, e)
<1>f. p.correctly_formed = f
  BY DEF Fields
<1>1. c = "cr" /\ p.correctly_formed = 0 => t = On([p EXCEPT !.correctly_formed = 1], arg)
  BY Zenon DEF no_arguments_state, On, Over, Missed, Matched
<1>2. c = "lf" /\ p.correctly_formed = 1 => t = Matched(p, arg)
  BY Zenon DEF no_arguments_state, On, Over, Missed, Matched
<1>3. c = "sp" => t = On(p, arg)
  BY Zenon DEF no_arguments_state, On, Over, Missed, Matched
<1>4. c # "sp" /\ ~(c = "cr" /\ p.correctly_formed = 0) /\ ~(c = "lf" /\ p.correctly_formed = 1) =>
        t = On(Goes(p, "ERROR"), arg)
  BY Zenon DEF no_arguments_state, On, Over, Missed, Matched
<1>5. ASSUME c = "cr", f = 0
      PROVE  t = On(t.parser, arg) /\ Fields(t.parser, z, 1, l, n, s, y, e)
  <2> DEFINE q == [p EXCEPT !.correctly_formed = 1]
  <2>1. t = On(q, arg)
  BY <1>f, <1>1, <1>5
  <2>2. Fields(q, z, 1, l, n, s, y, e)
    BY SetFormed
  <2> HIDE DEF q
  <2>3. t.parser = q
    BY <2>1 DEF On, Over, Result
  <2>4. QED
    BY <2>1, <2>2, <2>3
<1>6. ASSUME c = "lf", f = 1
      PROVE  t = Over(t.parser, arg) /\ Fields(t.parser, -1, f, l - 1, n, s, y, e)
  BY <1>f, <1>2, <1>6, MatchIs
<1>7. ASSUME c # "sp" /\ ~(c = "cr" /\ f = 0) /\ ~(c = "lf" /\ f = 1)
      PROVE  t = On(t.parser, arg) /\ Fields(t.parser, z, f, l, n, "ERROR", y, e)
  <2> DEFINE q == Goes(p, "ERROR")
  <2>1. t = On(q, arg)
    BY <1>f, <1>4, <1>7
  <2>2. Fields(q, z, f, l, n, "ERROR", y, e)
    BY SetState DEF Goes
  <2> HIDE DEF q
  <2>3. t.parser = q
    BY <2>1 DEF On, Over, Result
  <2>4. QED
    BY <2>1, <2>2, <2>3
<1> QED
  BY <1>3, <1>5, <1>6, <1>7

(* What error_state() does, by cases.                                      *)
LEMMA ErrorIs ==
  ASSUME NEW z, NEW f, NEW l, NEW n, NEW s, NEW y, NEW e, NEW p, NEW arg, NEW c,
         Fields(p, z, f, l, n, s, y, e),
         NEW t, t = error_state(p, arg, c)
  PROVE  /\ c = "lf" =>
              /\ t = Over(t.parser, arg)
              /\ Fields(t.parser, -1, f, l - 1, n, s, NotRecognized, e)
         /\ c # "lf" =>
              /\ t = On(t.parser, arg)
              /\ Fields(t.parser, z, IF c = "cr" /\ f = 0 THEN 1 ELSE 0, l, n, s, y, e)
<1>f. p.correctly_formed = f
  BY DEF Fields
<1>1. c = "cr" /\ p.correctly_formed = 0 => t = On([p EXCEPT !.correctly_formed = 1], arg)
  BY Zenon DEF error_state, On, Over, Missed, Matched
<1>2. c = "lf" => t = Missed(p, arg)
  BY Zenon DEF error_state, On, Over, Missed, Matched
<1>3. c # "lf" /\ ~(c = "cr" /\ p.correctly_formed = 0) =>
        t = On([p EXCEPT !.correctly_formed = 0], arg)
  BY Zenon DEF error_state, On, Over, Missed, Matched
<1>4. ASSUME c = "lf"
      PROVE  t = Over(t.parser, arg) /\ Fields(t.parser, -1, f, l - 1, n, s, NotRecognized, e)
  BY <1>2, <1>4, MissIs
<1>5. ASSUME c # "lf", c = "cr" /\ f = 0
      PROVE  t = On(t.parser, arg) /\ Fields(t.parser, z, 1, l, n, s, y, e)
  <2> DEFINE q == [p EXCEPT !.correctly_formed = 1]
  <2>1. t = On(q, arg)
  BY <1>f, <1>1, <1>5
  <2>2. Fields(q, z, 1, l, n, s, y, e)
    BY SetFormed
  <2> HIDE DEF q
  <2>3. t.parser = q
    BY <2>1 DEF On, Over, Result
  <2>4. QED
    BY <2>1, <2>2, <2>3
<1>6. ASSUME c # "lf", ~(c = "cr" /\ f = 0)
      PROVE  t = On(t.parser, arg) /\ Fields(t.parser, z, 0, l, n, s, y, e)
  <2> DEFINE q == [p EXCEPT !.correctly_formed = 0]
  <2>1. t = On(q, arg)
  BY <1>f, <1>3, <1>6
  <2>2. Fields(q, z, 0, l, n, s, y, e)
    BY SetFormed
  <2> HIDE DEF q
  <2>3. t.parser = q
    BY <2>1 DEF On, Over, Result
  <2>4. QED
    BY <2>1, <2>2, <2>3
<1> QED
  BY <1>4, <1>5, <1>6

(* What with_arguments_state() does, by cases.                             *)
LEMMA WithArgumentsIs ==
  ASSUME NEW z, NEW f, NEW l, NEW n, NEW s, NEW y, NEW e, NEW p, NEW arg, NEW c,
         Fields(p, z, f, l, n, s, y, e),
         NEW t, t = with_arguments_state(p, arg, c)
  PROVE  /\ c = "sp" /\ (y # "PASS" \/ n = 0) =>
              t = On(t.parser, arg) /\ Fields(t.parser, z, f, l, n, s, y, Expecting)
         /\ c \in {"x", "name", "part"} \/ (c = "sp" /\ y = "PASS" /\ n # 0) =>
              t = argument_char(p, arg, c)
         /\ c = "cr" =>
              /\ t = On(t.parser, arg)
              /\ Fields(t.parser, z, 1, l, n,
                        IF n = 0 /\ min_args(y) = 0 THEN "NO_ARGS"
                        ELSE IF ~(n >= min_args(y) /\ n <= max_args(y)) THEN "ERROR" ELSE s, y, e)
         /\ c = "lf" /\ f = 1 =>
              /\ t = Over(t.parser, arg)
              /\ Fields(t.parser, -1, 2, l - 1, n, s,
                        IF n >= min_args(y) /\ n <= max_args(y) THEN y ELSE NotRecognized, e)
         /\ c = "lf" /\ f # 1 =>
              /\ t = Over(t.parser, arg)
              /\ Fields(t.parser, -1, 0, l - 1, n, "ERROR", NotRecognized, e)
<1> DEFINE right == p.args_count >= min_args(p.type) /\ p.args_count <= max_args(p.type)
           goes == IF p.args_count = 0 /\ min_args(p.type) = 0 THEN "NO_ARGS"
                   ELSE IF ~right THEN "ERROR" ELSE p.state
<1>f. p.correctly_formed = f /\ p.type = y /\ p.args_count = n /\ p.state = s
  BY DEF Fields
<1>r. right <=> n >= min_args(y) /\ n <= max_args(y)
  BY <1>f
<1>g. goes = IF n = 0 /\ min_args(y) = 0 THEN "NO_ARGS"
             ELSE IF ~(n >= min_args(y) /\ n <= max_args(y)) THEN "ERROR" ELSE s
  BY <1>f
<1>1. c = "sp" /\ (p.type # "PASS" \/ p.args_count = 0) =>
        t = On([p EXCEPT !.is_expecting_new_arg = TRUE], arg)
  BY Zenon DEF with_arguments_state, On
<1>2. c \in {"x", "name", "part"} \/ (c = "sp" /\ p.type = "PASS" /\ p.args_count # 0) =>
        t = argument_char(p, arg, c)
  BY ZenonT(30) DEF with_arguments_state
<1>3. c = "cr" => t = On([p EXCEPT !.correctly_formed = 1, !.state = goes], arg)
  BY ZenonT(30) DEF with_arguments_state, On
<1>4. c = "lf" /\ p.correctly_formed = 1 =>
        t = handle_parsed([p EXCEPT !.correctly_formed = 2], arg, ~right)
  BY ZenonT(30) DEF with_arguments_state
<1>5. c = "lf" /\ p.correctly_formed # 1 =>
        t = Missed([Goes(p, "ERROR") EXCEPT !.correctly_formed = 0], arg)
  BY ZenonT(30) DEF with_arguments_state, Missed
<1> HIDE DEF goes
<1>6. ASSUME c = "sp", y # "PASS" \/ n = 0
      PROVE  t = On(t.parser, arg) /\ Fields(t.parser, z, f, l, n, s, y, Expecting)
  <2> DEFINE q == [p EXCEPT !.is_expecting_new_arg = TRUE]
  <2>1. t = On(q, arg)
    BY <1>f, <1>1, <1>6
  <2>2. Fields(q, z, f, l, n, s, y, Expecting)
    BY SetExpecting DEF Expecting
  <2> HIDE DEF q
  <2>3. t.parser = q
    BY <2>1 DEF On, Result
  <2>4. QED
    BY <2>1, <2>2, <2>3
<1>7. ASSUME c = "cr"
      PROVE  t = On(t.parser, arg) /\ Fields(t.parser, z, 1, l, n, goes, y, e)
  <2> DEFINE q1 == [p EXCEPT !.correctly_formed = 1]
             q == [q1 EXCEPT !.state = goes]
  <2>0. q = [p EXCEPT !.correctly_formed = 1, !.state = goes]
    OBVIOUS
  <2> HIDE DEF q
  <2>1. t = On(q, arg)
    BY <1>3, <1>7, <2>0
  <2>2. Fields(q1, z, 1, l, n, s, y, e)
    BY SetFormed
  <2>3. Fields(q, z, 1, l, n, goes, y, e)
    BY <2>2, SetState DEF q
  <2>4. t.parser = q
    BY <2>1 DEF On, Result
  <2>5. QED
    BY <2>1, <2>3, <2>4
<1>8. ASSUME c = "lf", f = 1
      PROVE  /\ t = Over(t.parser, arg)
             /\ Fields(t.parser, -1, 2, l - 1, n, s,
                        IF n >= min_args(y) /\ n <= max_args(y) THEN y ELSE NotRecognized, e)
  <2> DEFINE q == [p EXCEPT !.correctly_formed = 2]
  <2>1. t = handle_parsed(q, arg, ~right)
    BY <1>f, <1>4, <1>8
  <2>2. Fields(q, z, 2, l, n, s, y, e)
    BY SetFormed
  <2> HIDE DEF q
  <2>3. CASE right
    <3>1. t = Matched(q, arg)
      BY <2>1, <2>3 DEF Matched
    <3>2. t = Over(t.parser, arg) /\ Fields(t.parser, -1, 2, l - 1, n, s, y, e)
      BY <2>2, <3>1, MatchIs
    <3>3. QED
      BY <1>r, <2>3, <3>2
  <2>4. CASE ~right
    <3>1. t = Missed(q, arg)
      BY <2>1, <2>4 DEF Missed
    <3>2. t = Over(t.parser, arg) /\ Fields(t.parser, -1, 2, l - 1, n, s, NotRecognized, e)
      BY <2>2, <3>1, MissIs
    <3>3. QED
      BY <1>r, <2>4, <3>2
  <2>5. QED
    BY <2>3, <2>4
<1>9. ASSUME c = "lf", f # 1
      PROVE  /\ t = Over(t.parser, arg)
             /\ Fields(t.parser, -1, 0, l - 1, n, "ERROR", NotRecognized, e)
  <2> DEFINE q1 == Goes(p, "ERROR")
             q == [q1 EXCEPT !.correctly_formed = 0]
  <2>1. t = Missed(q, arg)
    BY <1>f, <1>5, <1>9
  <2>2. Fields(q1, z, f, l, n, "ERROR", y, e)
    BY SetState DEF Goes
  <2> HIDE DEF q1
  <2>3. Fields(q, z, 0, l, n, "ERROR", y, e)
    BY <2>2, SetFormed
  <2> HIDE DEF q
  <2>4. QED
    BY <2>1, <2>3, MissIs
<1> QED
  BY <1>f, <1>2, <1>g, <1>6, <1>7, <1>8, <1>9

(* The state after the last check, of a line of z characters that grows    *)
(* by k.                                                                   *)
Checked(z, k, s, l) ==
  IF \/ z <= MAX_MSG_SIZE /\ z + k > MAX_MSG_SIZE
     \/ s = "WITH_ARGS" /\ l > MAX_ARG_LENGTH
  THEN "ERROR" ELSE s

(* The last check on a line that goes on.                                  *)
LEMMA OnChecked ==
  ASSUME NEW z \in Int, NEW f, NEW l \in Int, NEW n, NEW s, NEW y, NEW e, NEW p, NEW arg, NEW k \in Nat,
         Fields(p, z, f, l, n, s, y, e)
  PROVE  LET u == check_size(On(p, arg), k)
         IN /\ u.argument = arg /\ u.finished = FALSE
            /\ Fields(u.parser, z + k, f, l, n, Checked(z, k, s, l), y, e)
<1> DEFINE t == On(p, arg)
           u == check_size(t, k)
           q == t.parser
           long == \/ q.line_size <= MAX_MSG_SIZE /\ q.line_size + k > MAX_MSG_SIZE
                   \/ q.state = "WITH_ARGS" /\ q.arg_length > MAX_ARG_LENGTH
           goes == IF long THEN "ERROR" ELSE q.state
           size == q.line_size + k
           q1 == [p EXCEPT !.line_size = size]
           q2 == [q1 EXCEPT !.state = goes]
<1>1. t.parser = p /\ t.argument = arg /\ t.finished = FALSE
  BY DEF Result, On
<1>2. u = [t EXCEPT !.parser.line_size = @ + k, !.parser.state = goes]
  BY Zenon DEF check_size
<1>3. u.argument = arg /\ u.finished = FALSE /\ u.parser = q2
  BY <1>2 DEF Result, On
<1>4. q = p
  BY <1>1
<1>5. p.line_size = z /\ p.state = s /\ p.arg_length = l
  BY DEF Fields
<1>6. size = z + k
  BY <1>4, <1>5
<1>7. goes = Checked(z, k, s, l)
  BY <1>4, <1>5 DEF Checked
<1> HIDE DEF size, goes
<1>8. Fields(q1, size, f, l, n, s, y, e)
  BY SetSize
<1>9. Fields(q2, size, f, l, n, goes, y, e)
  BY <1>8, SetState
<1> HIDE DEF q2, t, u
<1>10. /\ u.argument = arg /\ u.finished = FALSE
      /\ Fields(u.parser, z + k, f, l, n, Checked(z, k, s, l), y, e)
  BY <1>3, <1>6, <1>7, <1>9
<1>11. QED
  BY <1>10 DEF u, t

(* The last check on a line that is complete.                              *)
LEMMA OverChecked ==
  ASSUME NEW z \in Int, NEW f, NEW l \in Int, NEW n, NEW s, NEW y, NEW e, NEW p, NEW arg, NEW k \in Nat,
         Fields(p, z, f, l, n, s, y, e)
  PROVE  LET u == check_size(Over(p, arg), k)
         IN /\ u.argument = arg /\ u.finished = TRUE
            /\ Fields(u.parser, z + k, f, l, n, Checked(z, k, s, l), y, e)
<1> DEFINE t == Over(p, arg)
           u == check_size(t, k)
           q == t.parser
           long == \/ q.line_size <= MAX_MSG_SIZE /\ q.line_size + k > MAX_MSG_SIZE
                   \/ q.state = "WITH_ARGS" /\ q.arg_length > MAX_ARG_LENGTH
           goes == IF long THEN "ERROR" ELSE q.state
           size == q.line_size + k
           q1 == [p EXCEPT !.line_size = size]
           q2 == [q1 EXCEPT !.state = goes]
<1>1. t.parser = p /\ t.argument = arg /\ t.finished = TRUE
  BY DEF Result, Over
<1>2. u = [t EXCEPT !.parser.line_size = @ + k, !.parser.state = goes]
  BY Zenon DEF check_size
<1>3. u.argument = arg /\ u.finished = TRUE /\ u.parser = q2
  BY <1>2 DEF Result, Over
<1>4. q = p
  BY <1>1
<1>5. p.line_size = z /\ p.state = s /\ p.arg_length = l
  BY DEF Fields
<1>6. size = z + k
  BY <1>4, <1>5
<1>7. goes = Checked(z, k, s, l)
  BY <1>4, <1>5 DEF Checked
<1> HIDE DEF size, goes
<1>8. Fields(q1, size, f, l, n, s, y, e)
  BY SetSize
<1>9. Fields(q2, size, f, l, n, goes, y, e)
  BY <1>8, SetState
<1> HIDE DEF q2, t, u
<1>10. /\ u.argument = arg /\ u.finished = TRUE
      /\ Fields(u.parser, z + k, f, l, n, Checked(z, k, s, l), y, e)
  BY <1>3, <1>6, <1>7, <1>9
<1>11. QED
  BY <1>10 DEF u, t

(* The line goes on:                                                       *)
Grown(u, arg, z, k, f, l, n, s, y, e) ==
  /\ u.argument = arg /\ u.finished = FALSE
  /\ Fields(u.parser, z + k, f, l, n, Checked(z, k, s, l), y, e)

(* The line is complete:                                                   *)
Ended(u, arg, f, l, n, s, y, e) ==
  /\ u.argument = arg /\ u.finished = TRUE
  /\ Fields(u.parser, 0, f, l, n, IF s = "WITH_ARGS" /\ l > MAX_ARG_LENGTH THEN "ERROR" ELSE s, y, e)

(* The same, as what becomes of the line.                                  *)
LEMMA OnGrows ==
  ASSUME NEW z \in Int, NEW f, NEW l \in Int, NEW n, NEW s, NEW y, NEW e, NEW arg, NEW k \in Nat,
         NEW t, t = On(t.parser, arg), Fields(t.parser, z, f, l, n, s, y, e),
         NEW u, u = check_size(t, k)
  PROVE  Grown(u, arg, z, k, f, l, n, s, y, e)
<1> DEFINE p == t.parser
<1>1. t = On(p, arg)
  OBVIOUS
<1>2. Fields(p, z, f, l, n, s, y, e)
  OBVIOUS
<1> HIDE DEF p
<1> DEFINE v == check_size(On(p, arg), k)
<1>v. /\ v.argument = arg /\ v.finished = FALSE
      /\ Fields(v.parser, z + k, f, l, n, Checked(z, k, s, l), y, e)
  BY <1>2, OnChecked, Zenon
<1>w. u = v
  BY <1>1
<1> HIDE DEF v
<1>3. /\ u.argument = arg /\ u.finished = FALSE
      /\ Fields(u.parser, z + k, f, l, n, Checked(z, k, s, l), y, e)
  BY <1>v, <1>w
<1>4. QED
  BY <1>3 DEF Grown

(* A complete line, before -1 + 1 is computed.                             *)
Overgrown(u, arg, z, k, f, l, n, s, y, e) ==
  /\ u.argument = arg /\ u.finished = TRUE
  /\ Fields(u.parser, z + k, f, l, n, Checked(z, k, s, l), y, e)

LEMMA OverGrows ==
  ASSUME NEW z \in Int, NEW f, NEW l \in Int, NEW n, NEW s, NEW y, NEW e, NEW arg, NEW k \in Nat,
         NEW t, t = Over(t.parser, arg), Fields(t.parser, z, f, l, n, s, y, e),
         NEW u, u = check_size(t, k)
  PROVE  Overgrown(u, arg, z, k, f, l, n, s, y, e)
<1> DEFINE p == t.parser
<1>1. t = Over(p, arg)
  OBVIOUS
<1>2. Fields(p, z, f, l, n, s, y, e)
  OBVIOUS
<1> HIDE DEF p
<1> DEFINE v == check_size(Over(p, arg), k)
<1>v. /\ v.argument = arg /\ v.finished = TRUE
      /\ Fields(v.parser, z + k, f, l, n, Checked(z, k, s, l), y, e)
  BY <1>2, OverChecked, Zenon
<1>w. u = v
  BY <1>1
<1> HIDE DEF v
<1>3. /\ u.argument = arg /\ u.finished = TRUE
      /\ Fields(u.parser, z + k, f, l, n, Checked(z, k, s, l), y, e)
  BY <1>v, <1>w
<1>4. QED
  BY <1>3 DEF Overgrown

(* A complete line leaves line_size at 0 whatever its length was.          *)
LEMMA OverEnds ==
  ASSUME NEW f, NEW l \in Int, NEW n, NEW s, NEW y, NEW e, NEW arg,
         NEW t, t = Over(t.parser, arg), Fields(t.parser, -1, f, l, n, s, y, e),
         NEW u, u = check_size(t, 1)
  PROVE  Ended(u, arg, f, l, n, s, y, e)
<1> DEFINE goes == IF s = "WITH_ARGS" /\ l > MAX_ARG_LENGTH THEN "ERROR" ELSE s
<1>1. -1 \in Int /\ 1 \in Nat
  OBVIOUS
<1>2. Overgrown(u, arg, -1, 1, f, l, n, s, y, e)
  BY <1>1, OverGrows
<1>3. -1 + 1 = 0 /\ Checked(-1, 1, s, l) = goes
  BY SizesAssumption DEF Checked
<1> HIDE DEF goes
<1>4. u.argument = arg /\ u.finished = TRUE /\ Fields(u.parser, 0, f, l, n, goes, y, e)
  BY <1>2, <1>3 DEF Overgrown
<1>5. QED
  BY <1>4 DEF Ended, goes

(* The CASE has one arm for each state.                                    *)
LEMMA TransitionIs ==
  ASSUME NEW p, NEW arg, NEW c, NEW type
  PROVE  /\ p.state = "RECOGNITION" => Transition(p, arg, c, type) = command_recognition(p, arg, c, type)
         /\ p.state = "WITH_ARGS" => Transition(p, arg, c, type) = with_arguments_state(p, arg, c)
         /\ p.state = "NO_ARGS" => Transition(p, arg, c, type) = no_arguments_state(p, arg, c)
         /\ p.state = "ERROR" => Transition(p, arg, c, type) = error_state(p, arg, c)
<1>1. p.state = "RECOGNITION" => Transition(p, arg, c, type) = command_recognition(p, arg, c, type)
  BY Zenon DEF Transition
<1>2. p.state = "WITH_ARGS" => Transition(p, arg, c, type) = with_arguments_state(p, arg, c)
  BY Zenon DEF Transition
<1>3. p.state = "NO_ARGS" => Transition(p, arg, c, type) = no_arguments_state(p, arg, c)
  BY Zenon DEF Transition
<1>4. p.state = "ERROR" => Transition(p, arg, c, type) = error_state(p, arg, c)
  BY Zenon DEF Transition
<1> QED
  BY <1>1, <1>2, <1>3, <1>4

(* In a line that has begun:                                               *)
Fed(p, arg, c, type) == check_size(Transition(p, arg, c, type), 1)

(* The next character of a line in RECOGNITION: a name is no longer one.   *)
LEMMA FedRecognition ==
  ASSUME NEW z \in Nat, NEW f, NEW l \in Int, NEW n, NEW y, NEW e, NEW p, NEW arg, NEW c, NEW type,
         Fields(p, z, f, l, n, "RECOGNITION", y, e), z > 0,
         NEW u, u = Fed(p, arg, c, type)
  PROVE  /\ c = "lf" => Ended(u, arg, f, l - 1, n, "RECOGNITION", NotRecognized, e)
         /\ c # "lf" => Grown(u, arg, z, 1, f, l, n, "ERROR", y, e)
<1> DEFINE t == Transition(p, arg, c, type)
<1>1. u = check_size(t, 1)
  BY DEF Fed
<1>2. p.state = "RECOGNITION"
  BY DEF Fields
<1>3. t = command_recognition(p, arg, c, type)
  BY <1>2, TransitionIs
<1> HIDE DEF t
<1>4. ASSUME c = "lf" PROVE Ended(u, arg, f, l - 1, n, "RECOGNITION", NotRecognized, e)
  <2>1. t = Over(t.parser, arg) /\ Fields(t.parser, -1, f, l - 1, n, "RECOGNITION", NotRecognized, e)
    BY <1>3, <1>4, RecognitionIs
  <2>2. l - 1 \in Int
    OBVIOUS
  <2>3. QED
    BY <1>1, <2>1, <2>2, OverEnds
<1>5. ASSUME c # "lf" PROVE Grown(u, arg, z, 1, f, l, n, "ERROR", y, e)
  <2>1. ~(c \in {"name", "part"} /\ z = 0)
    OBVIOUS
  <2>2. t = On(t.parser, arg) /\ Fields(t.parser, z, f, l, n, "ERROR", y, e)
    BY <1>3, <1>5, <2>1, RecognitionIs
  <2>3. QED
    BY <1>1, <2>2, OnGrows
<1>6. QED
  BY <1>4, <1>5

(* The next character of a line in NO_ARGS.                                *)
LEMMA FedNoArguments ==
  ASSUME NEW z \in Int, NEW f, NEW l \in Int, NEW n, NEW y, NEW e, NEW p, NEW arg, NEW c, NEW type,
         Fields(p, z, f, l, n, "NO_ARGS", y, e),
         NEW u, u = Fed(p, arg, c, type)
  PROVE  /\ c = "sp" => Grown(u, arg, z, 1, f, l, n, "NO_ARGS", y, e)
         /\ c = "cr" /\ f = 0 => Grown(u, arg, z, 1, 1, l, n, "NO_ARGS", y, e)
         /\ c = "lf" /\ f = 1 => Ended(u, arg, f, l - 1, n, "NO_ARGS", y, e)
         /\ c # "sp" /\ ~(c = "cr" /\ f = 0) /\ ~(c = "lf" /\ f = 1) =>
              Grown(u, arg, z, 1, f, l, n, "ERROR", y, e)
<1> DEFINE t == Transition(p, arg, c, type)
<1>1. u = check_size(t, 1)
  BY DEF Fed
<1>2. p.state = "NO_ARGS"
  BY DEF Fields
<1>3. t = no_arguments_state(p, arg, c)
  BY <1>2, TransitionIs
<1>i. l - 1 \in Int
  OBVIOUS
<1> HIDE DEF t
<1>4. ASSUME c = "sp" PROVE Grown(u, arg, z, 1, f, l, n, "NO_ARGS", y, e)
  <2>0. t = On(p, arg)
    BY <1>3, <1>4, NoArgumentsIs
  <2>1. t = On(t.parser, arg) /\ Fields(t.parser, z, f, l, n, "NO_ARGS", y, e)
    BY <2>0 DEF On, Result
  <2>2. QED
    BY <1>1, <2>1, OnGrows
<1>5. ASSUME c = "cr", f = 0 PROVE Grown(u, arg, z, 1, 1, l, n, "NO_ARGS", y, e)
  <2>1. t = On(t.parser, arg) /\ Fields(t.parser, z, 1, l, n, "NO_ARGS", y, e)
    BY <1>3, <1>5, NoArgumentsIs
  <2>2. QED
    BY <1>1, <2>1, OnGrows
<1>6. ASSUME c = "lf", f = 1 PROVE Ended(u, arg, f, l - 1, n, "NO_ARGS", y, e)
  <2>1. t = Over(t.parser, arg) /\ Fields(t.parser, -1, f, l - 1, n, "NO_ARGS", y, e)
    BY <1>3, <1>6, NoArgumentsIs
  <2>2. QED
    BY <1>1, <1>i, <2>1, OverEnds
<1>7. ASSUME c # "sp", ~(c = "cr" /\ f = 0), ~(c = "lf" /\ f = 1)
      PROVE  Grown(u, arg, z, 1, f, l, n, "ERROR", y, e)
  <2>1. t = On(t.parser, arg) /\ Fields(t.parser, z, f, l, n, "ERROR", y, e)
    BY <1>3, <1>7, NoArgumentsIs
  <2>2. QED
    BY <1>1, <2>1, OnGrows
<1>8. QED
  BY <1>4, <1>5, <1>6, <1>7

(* The next character of a line in ERROR.                                  *)
LEMMA FedError ==
  ASSUME NEW z \in Int, NEW f, NEW l \in Int, NEW n, NEW y, NEW e, NEW p, NEW arg, NEW c, NEW type,
         Fields(p, z, f, l, n, "ERROR", y, e),
         NEW u, u = Fed(p, arg, c, type)
  PROVE  /\ c = "lf" => Ended(u, arg, f, l - 1, n, "ERROR", NotRecognized, e)
         /\ c # "lf" => Grown(u, arg, z, 1, IF c = "cr" /\ f = 0 THEN 1 ELSE 0, l, n, "ERROR", y, e)
<1> DEFINE t == Transition(p, arg, c, type)
           g == IF c = "cr" /\ f = 0 THEN 1 ELSE 0
<1>1. u = check_size(t, 1)
  BY DEF Fed
<1>2. p.state = "ERROR"
  BY DEF Fields
<1>3. t = error_state(p, arg, c)
  BY <1>2, TransitionIs
<1>i. l - 1 \in Int
  OBVIOUS
<1> HIDE DEF t
<1>4. ASSUME c = "lf" PROVE Ended(u, arg, f, l - 1, n, "ERROR", NotRecognized, e)
  <2>1. t = Over(t.parser, arg) /\ Fields(t.parser, -1, f, l - 1, n, "ERROR", NotRecognized, e)
    BY <1>3, <1>4, ErrorIs
  <2>2. QED
    BY <1>1, <1>i, <2>1, OverEnds
<1>5. ASSUME c # "lf" PROVE Grown(u, arg, z, 1, g, l, n, "ERROR", y, e)
  <2>1. t = On(t.parser, arg) /\ Fields(t.parser, z, g, l, n, "ERROR", y, e)
    BY <1>3, <1>5, ErrorIs
  <2> HIDE DEF g
  <2>2. QED
    BY <1>1, <2>1, OnGrows
<1>6. QED
  BY <1>4, <1>5

(* What a character of the argument is added to.                           *)
LEMMA FedArgument ==
  ASSUME NEW z \in Int, NEW f, NEW l \in Int, NEW n, NEW y, NEW e \in BOOLEAN,
         NEW p, NEW arg, NEW c, NEW type,
         Fields(p, z, f, l, n, "WITH_ARGS", y, e),
         c \in {"x", "name", "part"} \/ (c = "sp" /\ y = "PASS" /\ n # 0),
         NEW u, u = Fed(p, arg, c, type)
  PROVE  /\ ~e /\ l = 0 => Grown(u, arg, z, 1, 0, l, n, "ERROR", y, Settled)
         /\ ~e /\ l # 0 => Grown(u, Append(arg, c), z, 1, 0, l + 1, n, "WITH_ARGS", y, Settled)
         /\ e /\ n >= max_args(y) /\ l = 0 => Grown(u, arg, z, 1, 0, l, n + 1, "ERROR", y, Settled)
         /\ e /\ n >= max_args(y) /\ l # 0 =>
              Grown(u, Append(arg, c), z, 1, 0, l + 1, n + 1, "ERROR", y, Settled)
         /\ e /\ ~(n >= max_args(y)) =>
              Grown(u, Append(arg, c), z, 1, 0, (IF l = 0 THEN 1 ELSE l) + 1, n + 1, "WITH_ARGS", y, Settled)
<1> DEFINE t == Transition(p, arg, c, type)
           more == Append(arg, c)
           l1 == l + 1
           l2 == (IF l = 0 THEN 1 ELSE l) + 1
<1>1. u = check_size(t, 1)
  BY DEF Fed
<1>2. p.state = "WITH_ARGS"
  BY DEF Fields
<1>3. t = with_arguments_state(p, arg, c)
  BY <1>2, TransitionIs
<1>4. t = argument_char(p, arg, c)
  BY <1>3, WithArgumentsIs
<1>i. l1 \in Int /\ l2 \in Int
  OBVIOUS
<1>5. /\ ~e /\ l = 0 => t = On(t.parser, arg) /\ Fields(t.parser, z, 0, l, n, "ERROR", y, Settled)
      /\ ~e /\ l # 0 => t = On(t.parser, more) /\ Fields(t.parser, z, 0, l1, n, "WITH_ARGS", y, Settled)
      /\ e /\ n >= max_args(y) /\ l = 0 =>
           t = On(t.parser, arg) /\ Fields(t.parser, z, 0, l, n + 1, "ERROR", y, Settled)
      /\ e /\ n >= max_args(y) /\ l # 0 =>
           t = On(t.parser, more) /\ Fields(t.parser, z, 0, l1, n + 1, "ERROR", y, Settled)
      /\ e /\ ~(n >= max_args(y)) =>
           t = On(t.parser, more) /\ Fields(t.parser, z, 0, l2, n + 1, "WITH_ARGS", y, Settled)
  BY <1>4, ArgumentCharIs
<1> HIDE DEF t, more, l1, l2
<1>6. /\ ~e /\ l = 0 => Grown(u, arg, z, 1, 0, l, n, "ERROR", y, Settled)
      /\ ~e /\ l # 0 => Grown(u, more, z, 1, 0, l1, n, "WITH_ARGS", y, Settled)
      /\ e /\ n >= max_args(y) /\ l = 0 => Grown(u, arg, z, 1, 0, l, n + 1, "ERROR", y, Settled)
      /\ e /\ n >= max_args(y) /\ l # 0 => Grown(u, more, z, 1, 0, l1, n + 1, "ERROR", y, Settled)
      /\ e /\ ~(n >= max_args(y)) => Grown(u, more, z, 1, 0, l2, n + 1, "WITH_ARGS", y, Settled)
  BY <1>1, <1>5, <1>i, OnGrows
<1>7. QED
  BY <1>6 DEF more, l1, l2

(* The next space or CR of a line in WITH_ARGS.                            *)
LEMMA FedWithArguments ==
  ASSUME NEW z \in Int, NEW f, NEW l \in Int, NEW n, NEW y, NEW e, NEW p, NEW arg, NEW c, NEW type,
         Fields(p, z, f, l, n, "WITH_ARGS", y, e),
         NEW u, u = Fed(p, arg, c, type)
  PROVE  /\ c = "sp" /\ (y # "PASS" \/ n = 0) => Grown(u, arg, z, 1, f, l, n, "WITH_ARGS", y, Expecting)
         /\ c = "cr" =>
              Grown(u, arg, z, 1, 1, l, n,
                    IF n = 0 /\ min_args(y) = 0 THEN "NO_ARGS"
                    ELSE IF ~(n >= min_args(y) /\ n <= max_args(y)) THEN "ERROR" ELSE "WITH_ARGS", y, e)
<1> DEFINE t == Transition(p, arg, c, type)
           goes == IF n = 0 /\ min_args(y) = 0 THEN "NO_ARGS"
                   ELSE IF ~(n >= min_args(y) /\ n <= max_args(y)) THEN "ERROR" ELSE "WITH_ARGS"
<1>1. u = check_size(t, 1)
  BY DEF Fed
<1>2. p.state = "WITH_ARGS"
  BY DEF Fields
<1>3. t = with_arguments_state(p, arg, c)
  BY <1>2, TransitionIs
<1>5. /\ c = "sp" /\ (y # "PASS" \/ n = 0) =>
           t = On(t.parser, arg) /\ Fields(t.parser, z, f, l, n, "WITH_ARGS", y, Expecting)
      /\ c = "cr" => t = On(t.parser, arg) /\ Fields(t.parser, z, 1, l, n, goes, y, e)
  BY <1>3, WithArgumentsIs
<1> HIDE DEF t, goes
<1>6. /\ c = "sp" /\ (y # "PASS" \/ n = 0) => Grown(u, arg, z, 1, f, l, n, "WITH_ARGS", y, Expecting)
      /\ c = "cr" => Grown(u, arg, z, 1, 1, l, n, goes, y, e)
  BY <1>1, <1>5, OnGrows
<1>7. QED
  BY <1>6 DEF goes

(* The LF of a line in WITH_ARGS.                                          *)
LEMMA FedWithArgumentsLast ==
  ASSUME NEW z \in Int, NEW f, NEW l \in Int, NEW n, NEW y, NEW e, NEW p, NEW arg, NEW c, NEW type,
         Fields(p, z, f, l, n, "WITH_ARGS", y, e),
         NEW l1 \in Int, l1 = l - 1,
         NEW u, u = Fed(p, arg, c, type)
  PROVE  /\ c = "lf" /\ f = 1 =>
              Ended(u, arg, 2, l1, n, "WITH_ARGS",
                    IF n >= min_args(y) /\ n <= max_args(y) THEN y ELSE NotRecognized, e)
         /\ c = "lf" /\ f # 1 => Ended(u, arg, 0, l1, n, "ERROR", NotRecognized, e)
<1> DEFINE t == Transition(p, arg, c, type)
           kind == IF n >= min_args(y) /\ n <= max_args(y) THEN y ELSE NotRecognized
<1>1. u = check_size(t, 1)
  BY DEF Fed
<1>2. p.state = "WITH_ARGS"
  BY DEF Fields
<1>3. t = with_arguments_state(p, arg, c)
  BY <1>2, TransitionIs
<1>5. /\ c = "lf" /\ f = 1 =>
           t = Over(t.parser, arg) /\ Fields(t.parser, -1, 2, l1, n, "WITH_ARGS", kind, e)
      /\ c = "lf" /\ f # 1 =>
           t = Over(t.parser, arg) /\ Fields(t.parser, -1, 0, l1, n, "ERROR", NotRecognized, e)
  BY <1>3, WithArgumentsIs
<1> HIDE DEF t, kind
<1>6. /\ c = "lf" /\ f = 1 => Ended(u, arg, 2, l1, n, "WITH_ARGS", kind, e)
      /\ c = "lf" /\ f # 1 => Ended(u, arg, 0, l1, n, "ERROR", NotRecognized, e)
  BY <1>1, <1>5, OverEnds
<1>7. QED
  BY <1>6 DEF kind

(* What new_line() makes of the parser after a complete line: it leaves    *)
(* arg_length and is_expecting_new_arg.                                    *)
LEMMA NewLine ==
  ASSUME NEW f, NEW l, NEW n, NEW s, NEW y, NEW e, NEW p, Fields(p, 0, f, l, n, s, y, e)
  PROVE  Fields(new_line(p), 0, 0, l, 0, "RECOGNITION", NotRecognized, e)
<1> DEFINE q1 == [p EXCEPT !.type = NotRecognized]
           q2 == [q1 EXCEPT !.state = "RECOGNITION"]
           q3 == [q2 EXCEPT !.correctly_formed = 0]
           q4 == [q3 EXCEPT !.args_count = 0]
<1>1. p.line_size = 0
  BY DEF Fields
<1>2. new_line(p) = q4
  BY <1>1 DEF new_line
<1>3. Fields(q1, 0, f, l, n, s, NotRecognized, e)
  BY SetType
<1>4. Fields(q2, 0, f, l, n, "RECOGNITION", NotRecognized, e)
  BY <1>3, SetState
<1>5. Fields(q3, 0, 0, l, n, "RECOGNITION", NotRecognized, e)
  BY <1>4, SetFormed
<1> HIDE DEF q3
<1>6. Fields(q4, 0, 0, l, 0, "RECOGNITION", NotRecognized, e)
  BY <1>5 DEF Fields
<1>7. QED
  BY <1>2, <1>6

(* The first character of a line.                                          *)
Begun(u, arg, k, l, s, y, e) == Grown(u, arg, 0, k, 0, l, 0, s, y, e)

(* The first character of a line, by cases.                                *)
LEMMA FedFirst ==
  ASSUME NEW f, NEW l \in Int, NEW n, NEW s, NEW y, NEW e, NEW p, NEW arg, NEW c, NEW type,
         Fields(p, 0, f, l, n, s, y, e),
         NEW u, u = check_size(Transition(new_line(p), arg, c, type), Size(new_line(p), c))
  PROVE  /\ c = "lf" => Ended(u, arg, 0, l - 1, 0, "RECOGNITION", NotRecognized, e)
         /\ c = "name" /\ max_args(type) > 0 => Begun(u, <<>>, 4, 0, "WITH_ARGS", type, e)
         /\ c = "name" /\ ~(max_args(type) > 0) => Begun(u, arg, 4, 0, "NO_ARGS", type, e)
         /\ c = "part" => Begun(u, arg, 1, l, "RECOGNITION", NotRecognized, e)
         /\ c # "lf" /\ c # "name" /\ c # "part" => Begun(u, arg, 1, l, "ERROR", NotRecognized, e)
<1> DEFINE q == new_line(p)
           t == Transition(q, arg, c, type)
           k == Size(q, c)
           l1 == l - 1
<1>1. Fields(q, 0, 0, l, 0, "RECOGNITION", NotRecognized, e)
  BY NewLine
<1> HIDE DEF q
<1>2. q.state = "RECOGNITION" /\ q.line_size = 0
  BY <1>1 DEF Fields
<1>3. t = command_recognition(q, arg, c, type)
  BY <1>2, TransitionIs
<1>4. k = IF c = "name" THEN 4 ELSE 1
  BY <1>2 DEF Size
<1>5. u = check_size(t, k)
  BY DEF q
<1>6. 4 \in Nat /\ 1 \in Nat /\ 0 \in Int /\ l1 \in Int
  OBVIOUS
<1> HIDE DEF t, k, l1
<1>7. ASSUME c = "lf" PROVE Ended(u, arg, 0, l1, 0, "RECOGNITION", NotRecognized, e)
  <2>1. t = Over(t.parser, arg) /\ Fields(t.parser, -1, 0, l1, 0, "RECOGNITION", NotRecognized, e)
    BY <1>1, <1>3, <1>7, RecognitionIs DEF l1
  <2>2. u = check_size(t, 1)
    BY <1>4, <1>5, <1>7
  <2>3. QED
    BY <1>6, <2>1, <2>2, OverEnds
<1>8. ASSUME c = "name", max_args(type) > 0 PROVE Begun(u, <<>>, 4, 0, "WITH_ARGS", type, e)
  <2>1. t = On(t.parser, <<>>) /\ Fields(t.parser, 0, 0, 0, 0, "WITH_ARGS", type, e)
    BY <1>1, <1>3, <1>8, RecognitionIs
  <2>2. u = check_size(t, 4)
    BY <1>4, <1>5, <1>8
  <2>3. QED
    BY <1>6, <2>1, <2>2, OnGrows DEF Begun
<1>9. ASSUME c = "name", ~(max_args(type) > 0) PROVE Begun(u, arg, 4, 0, "NO_ARGS", type, e)
  <2>1. t = On(t.parser, arg) /\ Fields(t.parser, 0, 0, 0, 0, "NO_ARGS", type, e)
    BY <1>1, <1>3, <1>9, RecognitionIs
  <2>2. u = check_size(t, 4)
    BY <1>4, <1>5, <1>9
  <2>3. QED
    BY <1>6, <2>1, <2>2, OnGrows DEF Begun
<1>10. ASSUME c = "part" PROVE Begun(u, arg, 1, l, "RECOGNITION", NotRecognized, e)
  <2>0. t = On(q, arg)
    BY <1>1, <1>3, <1>10, RecognitionIs
  <2>1. t = On(t.parser, arg) /\ Fields(t.parser, 0, 0, l, 0, "RECOGNITION", NotRecognized, e)
    BY <1>1, <2>0 DEF On, Result
  <2>2. u = check_size(t, 1)
    BY <1>4, <1>5, <1>10
  <2>3. QED
    BY <1>6, <2>1, <2>2, OnGrows DEF Begun
<1>11. ASSUME c # "lf", c # "name", c # "part"
       PROVE  Begun(u, arg, 1, l, "ERROR", NotRecognized, e)
  <2>1. t = On(t.parser, arg) /\ Fields(t.parser, 0, 0, l, 0, "ERROR", NotRecognized, e)
    BY <1>1, <1>3, <1>11, RecognitionIs
  <2>2. u = check_size(t, 1)
    BY <1>4, <1>5, <1>11
  <2>3. QED
    BY <1>6, <2>1, <2>2, OnGrows DEF Begun
<1>12. QED
  BY <1>7, <1>8, <1>9, <1>10, <1>11 DEF l1

(* Later ones find the line begun, and a name is a letter.                 *)
LEMMA FedLater ==
  ASSUME NEW p, NEW arg, NEW c, NEW type, p.line_size # 0
  PROVE  check_size(Transition(new_line(p), arg, c, type), Size(new_line(p), c)) = Fed(p, arg, c, type)
BY DEF new_line, Size, Fed

(* parser_feed(), as a transition and the last check.                      *)
LEMMA FeedIs ==
  ASSUME NEW c, NEW type
  PROVE  parser_feed(c, type)
           = check_size(Transition(new_line(parser), argument, c, type), Size(new_line(parser), c))
BY Zenon DEF parser_feed, Transition

(* A record given by its fields.                                           *)
LEMMA FieldValues ==
  ASSUME NEW z, NEW f, NEW l, NEW n, NEW s, NEW y, NEW e, NEW p, Fields(p, z, f, l, n, s, y, e)
  PROVE  /\ p.line_size = z /\ p.correctly_formed = f /\ p.arg_length = l /\ p.args_count = n
         /\ p.state = s /\ p.type = y /\ p.is_expecting_new_arg = e
BY DEF Fields

LEMMA FieldTypes ==
  ASSUME NEW z \in Nat, NEW f \in 0 .. 2, NEW l \in Int, NEW n \in Nat, NEW s \in States,
         NEW y \in Command \cup {NotRecognized}, NEW e \in BOOLEAN, NEW p,
         Fields(p, z, f, l, n, s, y, e)
  PROVE  p \in InputParser
BY DEF Fields, InputParser

LEMMA ParserFields ==
  ASSUME NEW p \in InputParser
  PROVE  /\ Fields(p, p.line_size, p.correctly_formed, p.arg_length, p.args_count, p.state, p.type,
                   p.is_expecting_new_arg)
         /\ p.line_size \in Nat /\ p.correctly_formed \in 0 .. 2 /\ p.arg_length \in Int
         /\ p.args_count \in Nat /\ p.state \in States /\ p.type \in Command \cup {NotRecognized}
         /\ p.is_expecting_new_arg \in BOOLEAN
BY DEF InputParser, Fields

(* The last check only makes an ERROR of a state, and only of a line or    *)
(* an argument that is too long.                                           *)
LEMMA CheckedIs ==
  ASSUME NEW z \in Int, NEW k \in Int, NEW l \in Int, NEW s \in States
  PROVE  /\ Checked(z, k, s, l) \in States
         /\ Checked(z, k, s, l) \in {s, "ERROR"}
         /\ Checked(z, k, s, l) = "WITH_ARGS" => l <= MAX_ARG_LENGTH
         /\ z <= MAX_MSG_SIZE /\ Checked(z, k, s, l) # "ERROR" => z + k <= MAX_MSG_SIZE
         /\ Checked(z, k, s, l) = "ERROR" => \/ s = "ERROR"
                                             \/ z + k > MAX_MSG_SIZE
                                             \/ s = "WITH_ARGS" /\ l > MAX_ARG_LENGTH
BY SizesAssumption DEF Checked, States

(* A line and the character that follows.                                  *)
LEMMA NewLast ==
  ASSUME NEW w \in Seq(Char), NEW c \in Char
  PROVE  /\ Append(w, c) \in Seq(Char) /\ Len(Append(w, c)) = Len(w) + 1 /\ Len(w) \in Nat
         /\ Append(w, c) # <<>>
         /\ \A i \in 1 .. Len(w) : Append(w, c)[i] = w[i]
         /\ Append(w, c)[Len(w) + 1] = c
         /\ EndsInCr(Append(w, c)) <=> c = "cr"
BY AppendIs DEF EndsInCr

(* What every character keeps of the parser and the line v it ends.        *)
Kept(u, v, type) ==
  /\ u.parser \in InputParser /\ u.argument \in Seq(Char) /\ u.finished \in BOOLEAN
  /\ Len(u.argument) <= MAX_ARG_LENGTH
  /\ u.finished => u.parser.line_size = 0
  /\ ~u.finished => Place(u.parser, v, type) /\ Counted(u.parser, u.argument)

(* The types of the fields other than line_size.                           *)
Typed(f, l, n, s, y, e) ==
  /\ f \in 0 .. 2 /\ l \in Int /\ n \in Nat /\ s \in States
  /\ y \in Command \cup {NotRecognized} /\ e \in BOOLEAN

(* The argument fits in its array.                                         *)
FitsIn(arg) == arg \in Seq(Char) /\ Len(arg) <= MAX_ARG_LENGTH

(* A complete line keeps it.                                               *)
LEMMA EndedKept ==
  ASSUME NEW f, NEW l, NEW n, NEW s, NEW y, NEW e, NEW arg, NEW u,
         Typed(f, l, n, s, y, e), FitsIn(arg), Ended(u, arg, f, l, n, s, y, e),
         NEW v, NEW type
  PROVE  Kept(u, v, type)
<1> DEFINE goes == IF s = "WITH_ARGS" /\ l > MAX_ARG_LENGTH THEN "ERROR" ELSE s
<1>0. /\ f \in 0 .. 2 /\ l \in Int /\ n \in Nat /\ s \in States
      /\ y \in Command \cup {NotRecognized} /\ e \in BOOLEAN
      /\ arg \in Seq(Char) /\ Len(arg) <= MAX_ARG_LENGTH
  BY DEF Typed, FitsIn
<1>1. goes \in States /\ 0 \in Nat
  BY <1>0 DEF States
<1>2. u.argument = arg /\ u.finished = TRUE /\ Fields(u.parser, 0, f, l, n, goes, y, e)
  BY DEF Ended
<1> HIDE DEF goes
<1>3. u.parser \in InputParser
  BY <1>0, <1>1, <1>2 DEF Fields, InputParser
<1>4. u.parser.line_size = 0
  BY <1>2, FieldValues
<1>5. QED
  BY <1>0, <1>2, <1>3, <1>4 DEF Kept

(* So does a line that goes on, if a CR was not ended by LF and the        *)
(* argument was counted.                                                   *)
LEMMA GrownKept ==
  ASSUME NEW p \in InputParser, NEW w \in Seq(Char), NEW c \in Char,
         NEW type \in Command \cup {NotRecognized}, Place(p, w, type),
         NEW f \in 0 .. 2, NEW l \in Int, NEW n \in Nat, NEW s \in States, NEW e \in BOOLEAN,
         NEW arg \in Seq(Char), Len(arg) <= MAX_ARG_LENGTH,
         NEW u, Grown(u, arg, p.line_size, 1, f, l, n, s, p.type, e),
         s = "RECOGNITION" => type = NotRecognized,
         s \in {"WITH_ARGS", "NO_ARGS"} => type # NotRecognized,
         c = "cr" /\ s = "NO_ARGS" => f = 1,
         ~(c = "lf" /\ EndsInCr(w)),
         s = "WITH_ARGS" => (l = 0 /\ arg = <<>>) \/ l = Len(arg) + 1
  PROVE  Kept(u, Append(w, c), type)
<1> DEFINE z == p.line_size
           goes == Checked(z, 1, s, l)
           v == Append(w, c)
           q == u.parser
<1>1. z \in Nat /\ p.type = type /\ z = SizeOf(w, type)
  BY ParserFields DEF Place
<1>2. /\ v \in Seq(Char) /\ Len(v) = Len(w) + 1 /\ Len(w) \in Nat /\ v # <<>>
      /\ \A i \in 1 .. Len(w) : v[i] = w[i]
      /\ v[Len(w) + 1] = c
      /\ EndsInCr(v) <=> c = "cr"
  BY NewLast
<1>3. /\ goes \in States /\ goes \in {s, "ERROR"}
      /\ goes = "WITH_ARGS" => l <= MAX_ARG_LENGTH
  BY <1>1, CheckedIs
<1>4. u.argument = arg /\ u.finished = FALSE /\ Fields(q, z + 1, f, l, n, goes, type, e)
  BY <1>1 DEF Grown
<1> HIDE DEF z, goes, v
<1>5. z + 1 \in Nat
  BY <1>1
<1>6. q \in InputParser
  BY <1>3, <1>4, <1>5, FieldTypes
<1>7. /\ q.line_size = z + 1 /\ q.correctly_formed = f /\ q.arg_length = l /\ q.args_count = n
      /\ q.state = goes /\ q.type = type /\ q.is_expecting_new_arg = e
  BY <1>4, FieldValues
<1> HIDE DEF q
<1>8. Counted(q, arg)
  BY <1>3, <1>7 DEF Counted, States
<1>9. Place(q, v, type)
  <2>1. q.line_size = SizeOf(v, type)
    BY <1>1, <1>2, <1>7 DEF SizeOf
  <2>2. v[1] = w[1] /\ w # <<>> /\ Len(w) > 0
    BY <1>2 DEF Place
  <2>3. type # NotRecognized <=> v[1] = "name"
    BY <2>2 DEF Place
  <2>4. \A i \in 1 .. Len(v) - 1 : ~(v[i] = "cr" /\ v[i + 1] = "lf")
    <3>1. \A i \in 1 .. Len(w) - 1 : ~(w[i] = "cr" /\ w[i + 1] = "lf")
      BY DEF Place
    <3>2. ASSUME NEW i \in 1 .. Len(v) - 1 PROVE ~(v[i] = "cr" /\ v[i + 1] = "lf")
      <4>1. CASE i = Len(w)
        BY <1>2, <2>2, <4>1 DEF EndsInCr
      <4>2. CASE i # Len(w)
        <5>1. i \in 1 .. Len(w) - 1 /\ i + 1 \in 1 .. Len(w) /\ i \in 1 .. Len(w)
          BY <1>2, <4>2
        <5>2. QED
          BY <1>2, <3>1, <5>1
      <4>3. QED
        BY <4>1, <4>2
    <3>3. QED
      BY <3>2
  <2>5. /\ goes = "RECOGNITION" => type = NotRecognized
        /\ type = NotRecognized => goes \in {"RECOGNITION", "ERROR"}
        /\ c = "cr" /\ goes = "NO_ARGS" => f = 1
    BY <1>3 DEF States
  <2>6. QED
    BY <1>2, <1>7, <2>1, <2>3, <2>4, <2>5 DEF Place
<1>10. QED
  BY <1>4, <1>6, <1>8, <1>9 DEF Kept, q, v

(* In ERROR nothing is counted.                                            *)
LEMMA ErrorKept ==
  ASSUME NEW p \in InputParser, NEW w \in Seq(Char), NEW c \in Char,
         NEW type \in Command \cup {NotRecognized}, Place(p, w, type),
         NEW f \in 0 .. 2, NEW l \in Int, NEW n \in Nat, NEW e \in BOOLEAN,
         NEW arg \in Seq(Char), Len(arg) <= MAX_ARG_LENGTH,
         NEW u, Grown(u, arg, p.line_size, 1, f, l, n, "ERROR", p.type, e),
         ~(c = "lf" /\ EndsInCr(w))
  PROVE  Kept(u, Append(w, c), type)
<1>1. PICK s \in States : s = "ERROR"
  BY DEF States
<1>2. Grown(u, arg, p.line_size, 1, f, l, n, s, p.type, e)
  BY <1>1
<1>3. s # "RECOGNITION" /\ s # "WITH_ARGS" /\ s # "NO_ARGS"
  BY <1>1
<1>4. QED
  BY <1>2, <1>3, GrownKept

(* A character of a line that has begun.                                   *)
LEMMA LaterKept ==
  ASSUME NEW p \in InputParser, NEW arg \in Seq(Char), NEW w \in Seq(Char), NEW c \in Char,
         NEW type \in Command \cup {NotRecognized}, NEW any,
         Place(p, w, type), Counted(p, arg),
         NEW u, u = Fed(p, arg, c, any)
  PROVE  Kept(u, Append(w, c), type)
<1> DEFINE z == p.line_size
           f == p.correctly_formed
           l == p.arg_length
           n == p.args_count
           y == p.type
           e == p.is_expecting_new_arg
           v == Append(w, c)
           l1 == l - 1
<1>1. /\ z \in Nat /\ f \in 0 .. 2 /\ l \in Int /\ n \in Nat /\ p.state \in States
      /\ y \in Command \cup {NotRecognized} /\ e \in BOOLEAN
      /\ Fields(p, z, f, l, n, p.state, y, e)
  BY ParserFields
<1>2. y = type /\ Len(arg) <= MAX_ARG_LENGTH
  BY DEF Place, Counted
<1>t. FitsIn(arg)
  BY <1>2 DEF FitsIn
<1>3. /\ z \in Int /\ l1 \in Int /\ l - 1 \in Int /\ n + 1 \in Nat
      /\ NotRecognized \in Command \cup {NotRecognized}
      /\ 0 \in 0 .. 2 /\ 1 \in 0 .. 2 /\ 2 \in 0 .. 2
  BY <1>1
<1>s. "ERROR" \in States /\ "NO_ARGS" \in States /\ "WITH_ARGS" \in States /\ "RECOGNITION" \in States
  BY DEF States
<1>4. CASE p.state = "RECOGNITION"
  <2>1. z > 0
    BY <1>1 DEF Place, SizeOf
  <2>2. Fields(p, z, f, l, n, "RECOGNITION", y, e)
    BY <1>1, <1>4
  <2> HIDE DEF z, f, l, n, y, e, v, l1
  <2>3. CASE c = "lf"
    <3>1. Ended(u, arg, f, l - 1, n, "RECOGNITION", NotRecognized, e)
      BY <1>1, <2>1, <2>2, <2>3, FedRecognition
    <3>2. Typed(f, l - 1, n, "RECOGNITION", NotRecognized, e)
      BY <1>1, <1>3, <1>s DEF Typed
    <3>3. QED
      BY <1>t, <3>1, <3>2, EndedKept
  <2>4. CASE c # "lf"
    <3>1. Grown(u, arg, z, 1, f, l, n, "ERROR", y, e)
      BY <1>1, <2>1, <2>2, <2>4, FedRecognition
    <3>2. QED
      BY <1>1, <1>2, <1>3, <2>4, <3>1, ErrorKept, SMTT(30) DEF z, y
  <2>5. QED
    BY <2>3, <2>4
<1>5. CASE p.state = "NO_ARGS"
  <2>1. type # NotRecognized /\ (EndsInCr(w) => f = 1)
    BY <1>5 DEF Place
  <2>2. Fields(p, z, f, l, n, "NO_ARGS", y, e)
    BY <1>1, <1>5
  <2> HIDE DEF z, f, l, n, y, e, v, l1
  <2>3. CASE c = "sp"
    <3>1. Grown(u, arg, z, 1, f, l, n, "NO_ARGS", y, e)
      BY <1>1, <1>3, <2>2, <2>3, FedNoArguments
    <3>2. QED
      BY <1>1, <1>2, <1>3, <1>s, <2>1, <2>3, <3>1, GrownKept, SMTT(30) DEF z, y
  <2>4. CASE c = "cr" /\ f = 0
    <3>1. Grown(u, arg, z, 1, 1, l, n, "NO_ARGS", y, e)
      BY <1>1, <1>3, <2>2, <2>4, FedNoArguments
    <3>2. Grown(u, arg, p.line_size, 1, 1, l, n, "NO_ARGS", p.type, e)
      BY <3>1 DEF z, y
    <3>3. c # "lf"
      BY <2>4
    <3>4. QED
      BY <1>1, <1>2, <1>3, <1>s, <2>1, <3>2, <3>3, GrownKept, SMTT(30)
  <2>5. CASE c = "lf" /\ f = 1
    <3>1. Ended(u, arg, f, l - 1, n, "NO_ARGS", y, e)
      BY <1>1, <1>3, <2>2, <2>5, FedNoArguments
    <3>2. Typed(f, l - 1, n, "NO_ARGS", y, e)
      BY <1>1, <1>3, <1>s DEF Typed
    <3>3. QED
      BY <1>t, <3>1, <3>2, EndedKept
  <2>6. CASE c # "sp" /\ ~(c = "cr" /\ f = 0) /\ ~(c = "lf" /\ f = 1)
    <3>1. Grown(u, arg, z, 1, f, l, n, "ERROR", y, e)
      BY <1>1, <1>3, <2>2, <2>6, FedNoArguments
    <3>2. QED
      BY <1>1, <1>2, <1>3, <2>1, <2>6, <3>1, ErrorKept, SMTT(30) DEF z, y
  <2>7. QED
    BY <2>3, <2>4, <2>5, <2>6
<1>6. CASE p.state = "ERROR"
  <2> DEFINE g == IF c = "cr" /\ f = 0 THEN 1 ELSE 0
  <2>1. g \in 0 .. 2
    OBVIOUS
  <2>2. Fields(p, z, f, l, n, "ERROR", y, e)
    BY <1>1, <1>6
  <2>p. c # "lf" => Grown(u, arg, z, 1, g, l, n, "ERROR", y, e)
    <3> HIDE DEF z, f, l, n, y, e, v, l1
    <3>1. QED
      BY <1>1, <1>3, <2>2, FedError
  <2>q. c = "lf" => Ended(u, arg, f, l - 1, n, "ERROR", NotRecognized, e)
    <3> HIDE DEF z, f, l, n, y, e, v, l1, g
    <3>1. QED
      BY <1>1, <1>3, <2>2, FedError
  <2> HIDE DEF z, f, l, n, y, e, v, l1, g
  <2>3. CASE c = "lf"
    <3>1. Typed(f, l - 1, n, "ERROR", NotRecognized, e)
      BY <1>1, <1>3, <1>s DEF Typed
    <3>2. QED
      BY <1>t, <2>q, <2>3, <3>1, EndedKept
  <2>4. CASE c # "lf"
    BY <1>1, <1>2, <1>3, <2>1, <2>p, <2>4, ErrorKept, SMTT(30) DEF z, y
  <2>5. QED
    BY <2>3, <2>4
<1>7. CASE p.state = "WITH_ARGS"
  <2>1. type # NotRecognized
    BY <1>7 DEF Place
  <2>2. Fields(p, z, f, l, n, "WITH_ARGS", y, e)
    BY <1>1, <1>7
  <2>3. /\ l <= MAX_ARG_LENGTH
        /\ (l = 0 /\ arg = <<>>) \/ l = Len(arg) + 1
    BY <1>7 DEF Counted
  <2>l. l1 = l - 1
    OBVIOUS
  <2> HIDE DEF z, f, l, n, y, e, v, l1
  <2>4. CASE c = "sp" /\ (y # "PASS" \/ n = 0)
    <3>0. Expecting \in BOOLEAN
      BY DEF Expecting
    <3>1. Grown(u, arg, z, 1, f, l, n, "WITH_ARGS", y, Expecting)
      BY <1>1, <1>3, <2>2, <2>4, FedWithArguments
    <3>2. QED
      BY <1>1, <1>2, <1>3, <1>s, <2>1, <2>3, <2>4, <3>0, <3>1, GrownKept, SMTT(30) DEF z, y
  <2>5. CASE c = "cr"
    <3> DEFINE goes == IF n = 0 /\ min_args(y) = 0 THEN "NO_ARGS"
                       ELSE IF ~(n >= min_args(y) /\ n <= max_args(y)) THEN "ERROR" ELSE "WITH_ARGS"
    <3>0. goes \in States /\ goes # "RECOGNITION"
      BY DEF States
    <3>1. Grown(u, arg, z, 1, 1, l, n, goes, y, e)
      BY <1>1, <1>3, <2>2, <2>5, FedWithArguments
    <3> HIDE DEF goes
    <3>2. QED
      BY <1>1, <1>2, <1>3, <1>s, <2>1, <2>3, <2>5, <3>0, <3>1, GrownKept, SMTT(30) DEF z, y
  <2>6. CASE c = "lf" /\ f = 1
    <3> DEFINE kind == IF n >= min_args(y) /\ n <= max_args(y) THEN y ELSE NotRecognized
    <3>1. Ended(u, arg, 2, l1, n, "WITH_ARGS", kind, e)
      BY <1>1, <1>3, <2>2, <2>6, <2>l, FedWithArgumentsLast
    <3>2. Typed(2, l1, n, "WITH_ARGS", kind, e)
      BY <1>1, <1>3, <1>s DEF Typed
    <3> HIDE DEF kind
    <3>3. QED
      BY <1>t, <3>1, <3>2, EndedKept
  <2>7. CASE c = "lf" /\ f # 1
    <3>1. Ended(u, arg, 0, l1, n, "ERROR", NotRecognized, e)
      BY <1>1, <1>3, <2>2, <2>7, <2>l, FedWithArgumentsLast
    <3>2. Typed(0, l1, n, "ERROR", NotRecognized, e)
      BY <1>1, <1>3, <1>s DEF Typed
    <3>3. QED
      BY <1>t, <3>1, <3>2, EndedKept
  <2>8. CASE c \in {"x", "name", "part"} \/ (c = "sp" /\ y = "PASS" /\ n # 0)
    <3> DEFINE more == Append(arg, c)
               l2 == l + 1
               l3 == (IF l = 0 THEN 1 ELSE l) + 1
               m == n + 1
    <3>0. Settled \in BOOLEAN
      BY DEF Settled
    <3>1. /\ more \in Seq(Char) /\ Len(more) = Len(arg) + 1
          /\ l2 \in Int /\ l3 \in Int /\ m \in Nat /\ Len(arg) \in Nat
          /\ l # 0 => Len(more) <= MAX_ARG_LENGTH /\ l2 = Len(more) + 1 /\ l3 = Len(more) + 1
          /\ l = 0 => Len(more) <= MAX_ARG_LENGTH /\ l3 = Len(more) + 1
      <4>1. more \in Seq(Char) /\ Len(more) = Len(arg) + 1 /\ Len(arg) \in Nat
        BY AppendIs
      <4> HIDE DEF more
      <4>2. l = 0 => Len(arg) = 0
        BY <2>3, <4>1
      <4>3. QED
        BY <1>1, <2>3, <4>1, <4>2, SizesAssumption
    <3>2. /\ ~e /\ l = 0 => Grown(u, arg, z, 1, 0, l, n, "ERROR", y, Settled)
          /\ ~e /\ l # 0 => Grown(u, more, z, 1, 0, l2, n, "WITH_ARGS", y, Settled)
          /\ e /\ n >= max_args(y) /\ l = 0 => Grown(u, arg, z, 1, 0, l, m, "ERROR", y, Settled)
          /\ e /\ n >= max_args(y) /\ l # 0 => Grown(u, more, z, 1, 0, l2, m, "ERROR", y, Settled)
          /\ e /\ ~(n >= max_args(y)) => Grown(u, more, z, 1, 0, l3, m, "WITH_ARGS", y, Settled)
      BY <1>1, <1>3, <2>2, <2>8, FedArgument
    <3>3. c # "lf" /\ c # "cr"
      BY <2>8
    <3> HIDE DEF more, l2, l3, m
    <3>4. CASE ~e /\ l = 0
      <4>1. Grown(u, arg, p.line_size, 1, 0, l, n, "ERROR", p.type, Settled)
        BY <3>2, <3>4 DEF z, y
      <4>2. Len(arg) <= MAX_ARG_LENGTH /\ arg \in Seq(Char)
        BY <1>2, <3>1
      <4>3. QED
        BY <1>1, <1>3, <3>0, <3>1, <3>3, <4>1, <4>2, ErrorKept, SMTT(30)
    <3>5. CASE ~e /\ l # 0
      <4>1. Grown(u, more, p.line_size, 1, 0, l2, n, "WITH_ARGS", p.type, Settled)
        BY <3>2, <3>5 DEF z, y
      <4>2. Len(more) <= MAX_ARG_LENGTH /\ more \in Seq(Char)
        BY <1>2, <3>1
      <4>3. l2 = Len(more) + 1
        BY <3>1, <3>5
      <4>4. QED
        BY <1>1, <1>3, <1>s, <2>1, <3>0, <3>1, <3>3, <4>1, <4>2, <4>3, GrownKept, SMTT(30)
    <3>6. CASE e /\ n >= max_args(y) /\ l = 0
      <4>1. Grown(u, arg, p.line_size, 1, 0, l, m, "ERROR", p.type, Settled)
        BY <3>2, <3>6 DEF z, y
      <4>2. Len(arg) <= MAX_ARG_LENGTH /\ arg \in Seq(Char)
        BY <1>2, <3>1
      <4>3. QED
        BY <1>1, <1>3, <3>0, <3>1, <3>3, <4>1, <4>2, ErrorKept, SMTT(30)
    <3>7. CASE e /\ n >= max_args(y) /\ l # 0
      <4>1. Grown(u, more, p.line_size, 1, 0, l2, m, "ERROR", p.type, Settled)
        BY <3>2, <3>7 DEF z, y
      <4>2. Len(more) <= MAX_ARG_LENGTH /\ more \in Seq(Char)
        BY <1>2, <3>1
      <4>3. QED
        BY <1>1, <1>3, <3>0, <3>1, <3>3, <4>1, <4>2, ErrorKept, SMTT(30)
    <3>8. CASE e /\ ~(n >= max_args(y))
      <4>1. Grown(u, more, p.line_size, 1, 0, l3, m, "WITH_ARGS", p.type, Settled)
        BY <3>2, <3>8 DEF z, y
      <4>2. Len(more) <= MAX_ARG_LENGTH /\ more \in Seq(Char)
        BY <1>2, <3>1
      <4>3. l3 = Len(more) + 1
        BY <3>1, <3>8
      <4>4. QED
        BY <1>1, <1>3, <1>s, <2>1, <3>0, <3>1, <3>3, <4>1, <4>2, <4>3, GrownKept, SMTT(30)
    <3>9. QED
      BY <3>4, <3>5, <3>6, <3>7, <3>8
  <2>9. QED
    BY <2>4, <2>5, <2>6, <2>7, <2>8 DEF Char
<1>8. QED
  BY <1>1, <1>4, <1>5, <1>6, <1>7 DEF States

(* There is no CR in w.                                                    *)
Fluent(w) == \A i \in 1 .. Len(w) : w[i] # "cr"

(* A line without CR, and the character that follows.                      *)
LEMMA FluentGrows ==
  ASSUME NEW w \in Seq(Char), NEW c \in Char, Fluent(w)
  PROVE  LET v == Append(w, c) IN
         /\ End(w) = Len(w) /\ ~EndsInCr(w)
         /\ c = "cr" => End(v) = Len(w)
         /\ c # "cr" => End(v) = Len(w) + 1
         /\ EndsInCr(v) <=> c = "cr"
         /\ Len(v) = Len(w) + 1 /\ Len(w) \in Nat /\ v[Len(w) + 1] = c /\ v \in Seq(Char)
         /\ \A i \in 1 .. Len(w) : v[i] = w[i]
<1> DEFINE v == Append(w, c)
<1>1. /\ v \in Seq(Char) /\ Len(v) = Len(w) + 1 /\ Len(w) \in Nat
      /\ \A i \in 1 .. Len(w) : v[i] = w[i]
      /\ v[Len(w) + 1] = c
      /\ EndsInCr(v) <=> c = "cr"
  BY NewLast
<1>2. ~EndsInCr(w)
  BY <1>1 DEF Fluent, EndsInCr
<1> HIDE DEF v
<1>3. /\ End(w) = Len(w) /\ ~EndsInCr(w)
      /\ c = "cr" => End(v) = Len(w)
      /\ c # "cr" => End(v) = Len(w) + 1
  BY <1>1, <1>2 DEF End
<1>4. QED
  BY <1>1, <1>3 DEF v

LEMMA PlainIsFluent ==
  ASSUME NEW w \in Seq(Char), NEW c \in Char
  PROVE  Plain(Append(w, c)) <=> Fluent(w)
<1> DEFINE v == Append(w, c)
<1>1. /\ v \in Seq(Char) /\ Len(v) = Len(w) + 1 /\ Len(w) \in Nat
      /\ \A i \in 1 .. Len(w) : v[i] = w[i]
  BY NewLast
<1> HIDE DEF v
<1>2. Plain(v) <=> Fluent(w)
  BY <1>1 DEF Plain, Fluent
<1>3. QED
  BY <1>2 DEF v

(* A space or a CR leaves a line blank.                                    *)
LEMMA BlankGrows ==
  ASSUME NEW w \in Seq(Char), NEW c \in {"sp", "cr"}, NEW v, v = Append(w, c), Fluent(w), Blank(w)
  PROVE  Blank(v)
<1>0. c \in Char
  BY DEF Char
<1>1. /\ End(w) = Len(w) /\ Len(w) \in Nat /\ v[Len(w) + 1] = c
      /\ c = "cr" => End(v) = Len(w)
      /\ c # "cr" => End(v) = Len(w) + 1
      /\ \A i \in 1 .. Len(w) : v[i] = w[i]
  BY <1>0, FluentGrows
<1>2. \A i \in 2 .. Len(w) : w[i] = "sp"
  BY <1>1 DEF Blank
<1>3. ASSUME NEW i \in 2 .. End(v) PROVE v[i] = "sp"
  <2>1. CASE i \in 2 .. Len(w)
    BY <1>1, <1>2, <2>1
  <2>2. CASE i \notin 2 .. Len(w)
    <3>1. c = "sp" /\ i = Len(w) + 1
      BY <1>1, <2>2
    <3>2. QED
      BY <1>1, <3>1
  <2>3. QED
    BY <2>1, <2>2
<1>4. QED
  BY <1>3 DEF Blank

(* A line that is wrong stays wrong whatever follows.                      *)
LEMMA WrongGrows ==
  ASSUME NEW w \in Seq(Char), NEW c \in Char, NEW v, v = Append(w, c), Fluent(w), NEW type, Wrong(w, type)
  PROVE  Wrong(v, type)
<1> DEFINE m == End(w)
           k == End(v)
<1>1. /\ m = Len(w) /\ Len(w) \in Nat /\ v[Len(w) + 1] = c /\ ~EndsInCr(w) /\ Len(v) = Len(w) + 1
      /\ \A i \in 1 .. Len(w) : v[i] = w[i]
      /\ k = Len(w) \/ k = Len(w) + 1
  BY FluentGrows
<1>2. /\ m \in Nat /\ k \in Nat /\ m <= k
      /\ \A i \in 2 .. m : i \in 2 .. k /\ v[i] = w[i]
  BY <1>1
<1> HIDE DEF m, k
<1>3. CASE \E i \in 2 .. m : w[i] = "lf"
  BY <1>2, <1>3 DEF Wrong, k
<1>4. CASE Len(w) + 3 > MAX_MSG_SIZE
  <2>1. Len(v) + 3 > MAX_MSG_SIZE
    BY <1>1, <1>4, SizesAssumption
  <2>2. QED
    BY <2>1 DEF Wrong
<1>5. CASE max_args(type) = 0 /\ \E i \in 2 .. m : w[i] # "sp"
  <2>1. \E i \in 2 .. k : v[i] # "sp"
    BY <1>2, <1>5
  <2>2. QED
    BY <1>5, <2>1 DEF Wrong, k
<1>6. CASE m >= 2 /\ w[2] # "sp"
  <2>1. 2 \in 2 .. m
    BY <1>2, <1>6
  <2>2. 2 \in 2 .. k /\ v[2] = w[2]
    BY <1>2, <2>1
  <2>3. k >= 2 /\ v[2] # "sp"
    BY <1>2, <1>6, <2>2
  <2>4. QED
    BY <2>3 DEF Wrong, k
<1>7. CASE type # "PASS" /\ \E i, j, g \in 2 .. m :
             i < j /\ j < g /\ w[i] # "sp" /\ w[j] = "sp" /\ w[g] # "sp"
  <2>1. PICK i \in 2 .. m, j \in 2 .. m, g \in 2 .. m :
          i < j /\ j < g /\ w[i] # "sp" /\ w[j] = "sp" /\ w[g] # "sp"
    BY <1>7
  <2>2. /\ i \in 2 .. k /\ j \in 2 .. k /\ g \in 2 .. k
        /\ v[i] # "sp" /\ v[j] = "sp" /\ v[g] # "sp"
    BY <1>2, <2>1
  <2>3. QED
    BY <1>7, <2>1, <2>2 DEF Wrong, k
<1>8. CASE \E i, j \in 2 .. m :
             w[i] # "sp" /\ (type = "PASS" \/ w[j] # "sp") /\ (j - i) + 1 >= MAX_ARG_LENGTH
  <2>1. \E i, j \in 2 .. k :
             v[i] # "sp" /\ (type = "PASS" \/ v[j] # "sp") /\ (j - i) + 1 >= MAX_ARG_LENGTH
    BY <1>2, <1>8
  <2>2. QED
    BY <2>1 DEF Wrong, k
<1>9. QED
  BY <1>1, <1>3, <1>4, <1>5, <1>6, <1>7, <1>8 DEF Wrong, m

(* What a state of the machine says before the last check.                 *)
Right(f, l, n, s, e, arg, v, type) ==
  /\ s # "ERROR" => (f = 1 <=> EndsInCr(v)) /\ f # 2
  /\ s = "NO_ARGS" => NoArgument(n, v, type)
  /\ s = "WITH_ARGS" => type # "CAPA" /\ (Before(l, n, e, v) \/ Within(l, n, e, arg, v, type))
  /\ s = "WITH_ARGS" /\ l > MAX_ARG_LENGTH => Wrong(v, type)
  /\ s = "ERROR" => Wrong(v, type)

(* The last check keeps what the state says of the line.                   *)
LEMMA GrownReads ==
  ASSUME NEW z \in Nat, NEW k \in Nat, NEW f, NEW l \in Int, NEW n, NEW s \in States, NEW e,
         NEW arg, NEW v \in Seq(Char), z + k = Len(v) + 3, NEW type,
         s # "ERROR" => z <= MAX_MSG_SIZE,
         Right(f, l, n, s, e, arg, v, type),
         NEW u, Grown(u, arg, z, k, f, l, n, s, type, e)
  PROVE  Reading(u.parser, u.argument, v, type)
<1> DEFINE goes == Checked(z, k, s, l)
           q == u.parser
<1>1. /\ goes \in States /\ goes \in {s, "ERROR"}
      /\ z <= MAX_MSG_SIZE /\ goes # "ERROR" => z + k <= MAX_MSG_SIZE
      /\ goes = "ERROR" => \/ s = "ERROR"
                           \/ z + k > MAX_MSG_SIZE
                           \/ s = "WITH_ARGS" /\ l > MAX_ARG_LENGTH
  BY CheckedIs
<1>2. u.argument = arg /\ Fields(q, z + k, f, l, n, goes, type, e)
  BY DEF Grown
<1> HIDE DEF goes, q
<1>3. /\ q.correctly_formed = f /\ q.arg_length = l /\ q.args_count = n /\ q.state = goes
      /\ q.is_expecting_new_arg = e
  BY <1>2, FieldValues
<1>4. goes = "ERROR" => Wrong(v, type)
  <2>1. z + k > MAX_MSG_SIZE => Wrong(v, type)
    BY DEF Wrong
  <2>2. QED
    BY <1>1, <2>1 DEF Right
<1>5. goes # "ERROR" => goes = s /\ Len(v) + 3 <= MAX_MSG_SIZE
  BY <1>1
<1>6. Reads(f, l, n, goes, e, arg, v, type)
  BY <1>1, <1>4, <1>5 DEF Right, Reads
<1>7. QED
  BY <1>2, <1>3, <1>6 DEF Reading, q

-----------------------------------------------------------------------------
(* What makes a line wrong.                                                *)
LEMMA WrongLast ==
  ASSUME NEW w \in Seq(Char), NEW c \in Char, Fluent(w), Len(w) >= 1, NEW type,
         \/ c = "lf"
         \/ c \notin {"sp", "cr"} /\ max_args(type) = 0
         \/ c \notin {"sp", "cr"} /\ Len(w) = 1
  PROVE  Wrong(Append(w, c), type)
<1> DEFINE v == Append(w, c)
           k == End(v)
<1>1. /\ c # "cr" => k = Len(w) + 1
      /\ Len(w) \in Nat /\ v[Len(w) + 1] = c
  BY FluentGrows
<1> HIDE DEF v, k
<1>2. Len(w) + 1 \in 2 .. Len(w) + 1
  BY <1>1
<1>3. ASSUME c # "cr" PROVE Len(w) + 1 \in 2 .. k /\ k = Len(w) + 1
  BY <1>1, <1>2, <1>3
<1>4. CASE c = "lf"
  BY <1>1, <1>3, <1>4 DEF Wrong, k, v
<1>5. CASE c \notin {"sp", "cr"} /\ max_args(type) = 0
  BY <1>1, <1>3, <1>5 DEF Wrong, k, v
<1>6. CASE c \notin {"sp", "cr"} /\ Len(w) = 1
  BY <1>1, <1>3, <1>6 DEF Wrong, k, v
<1>7. QED
  BY <1>4, <1>5, <1>6

(* A line without the argument its command wants is wrong at its CR.       *)
LEMMA WrongMissing ==
  ASSUME NEW w \in Seq(Char), Fluent(w), NEW type, min_args(type) = 1, Blank(w)
  PROVE  Wrong(Append(w, "cr"), type)
<1>0. "cr" \in Char /\ "cr" \in {"sp", "cr"}
  BY DEF Char
<1>1. EndsInCr(Append(w, "cr")) /\ Blank(Append(w, "cr"))
  BY <1>0, FluentGrows, BlankGrows
<1>2. QED
  BY <1>1 DEF Wrong

(* A character in NO_ARGS.                                                 *)
LEMMA NoArgumentReads ==
  ASSUME NEW w \in Seq(Char), NEW c \in Char, Fluent(w), Len(w) >= 1,
         NEW f \in 0 .. 2, NEW l \in Int, NEW n, NEW e \in BOOLEAN, NEW arg, NEW type \in Command,
         NEW p, Fields(p, Len(w) + 3, f, l, n, "NO_ARGS", type, e),
         Reads(f, l, n, "NO_ARGS", e, arg, w, type),
         NEW any, NEW u, u = Fed(p, arg, c, any), ~u.finished
  PROVE  Reading(u.parser, u.argument, Append(w, c), type)
<1> DEFINE v == Append(w, c)
           z == Len(w) + 3
<1>1. /\ EndsInCr(v) <=> c = "cr"
      /\ Len(v) = Len(w) + 1 /\ Len(w) \in Nat /\ v \in Seq(Char) /\ ~EndsInCr(w)
  BY FluentGrows
<1>2. /\ z <= MAX_MSG_SIZE /\ f = 0 /\ n = 0 /\ Blank(w) /\ type = "CAPA"
  BY <1>1 DEF Reads, NoArgument
<1>3. z \in Nat /\ z \in Int /\ 1 \in Nat /\ z + 1 = Len(v) + 3
  BY <1>1
<1>s. "ERROR" \in States /\ "NO_ARGS" \in States
  BY DEF States
<1>f. Fields(p, z, f, l, n, "NO_ARGS", type, e)
  OBVIOUS
<1>b. c \in {"sp", "cr"} => Blank(v)
  BY <1>2, BlankGrows
<1>w. c = "lf" \/ c \notin {"sp", "cr"} => Wrong(v, type)
  BY <1>2, WrongLast DEF max_args
<1> HIDE DEF v, z
<1>4. CASE c = "sp"
  <2>1. Grown(u, arg, z, 1, f, l, n, "NO_ARGS", type, e)
    BY <1>3, <1>4, <1>f, FedNoArguments
  <2>2. Right(f, l, n, "NO_ARGS", e, arg, v, type)
    BY <1>1, <1>2, <1>4, <1>b DEF Right, NoArgument
  <2>3. QED
    BY <1>1, <1>2, <1>3, <1>s, <2>1, <2>2, GrownReads DEF v
<1>5. CASE c = "cr"
  <2>1. Grown(u, arg, z, 1, 1, l, n, "NO_ARGS", type, e)
    BY <1>2, <1>3, <1>5, <1>f, FedNoArguments
  <2>2. Right(1, l, n, "NO_ARGS", e, arg, v, type)
    BY <1>1, <1>2, <1>5, <1>b DEF Right, NoArgument
  <2>3. QED
    BY <1>1, <1>2, <1>3, <1>s, <2>1, <2>2, GrownReads DEF v
<1>6. CASE c \notin {"sp", "cr"}
  <2>1. Grown(u, arg, z, 1, f, l, n, "ERROR", type, e)
    BY <1>2, <1>3, <1>6, <1>f, FedNoArguments
  <2>2. Right(f, l, n, "ERROR", e, arg, v, type)
    BY <1>6, <1>w DEF Right
  <2>3. QED
    BY <1>1, <1>2, <1>3, <1>s, <2>1, <2>2, GrownReads DEF v
<1>7. QED
  BY <1>4, <1>5, <1>6

(* A CR, or a space after the argument, leaves it where it was.            *)
LEMMA SpanStays ==
  ASSUME NEW w \in Seq(Char), NEW c \in Char, Fluent(w), NEW arg \in Seq(Char), NEW type,
         NEW a \in 2 .. End(w), NEW b \in a .. End(w), Span(arg, w, type, a, b),
         c = "cr" \/ (c = "sp" /\ type # "PASS")
  PROVE  /\ Span(arg, Append(w, c), type, a, b)
         /\ a \in 2 .. End(Append(w, c)) /\ b \in a .. End(Append(w, c))
         /\ End(Append(w, c)) = IF c = "cr" THEN End(w) ELSE End(w) + 1
<1> DEFINE v == Append(w, c)
           m == End(w)
           k == End(v)
<1>1. /\ m = Len(w) /\ Len(w) \in Nat /\ v[Len(w) + 1] = c
      /\ c = "cr" => k = Len(w)
      /\ c # "cr" => k = Len(w) + 1
      /\ \A i \in 1 .. Len(w) : v[i] = w[i]
  BY FluentGrows
<1>2. /\ a > 2 /\ w[a] # "sp" /\ \A i \in 2 .. a - 1 : w[i] = "sp"
      /\ \A i \in b + 1 .. m : w[i] = "sp"
      /\ \A i \in a .. b : w[i] # "lf"
      /\ type # "PASS" => \A i \in a .. b : w[i] # "sp"
      /\ type = "PASS" => b = m
      /\ Len(arg) = b - a + 1 /\ \A i \in 1 .. Len(arg) : arg[i] = w[a + i - 1]
  BY DEF Span
<1>m. a \in 2 .. m /\ b \in a .. m
  OBVIOUS
<1> HIDE DEF v, m, k
<1>3. /\ m \in Nat /\ a \in Nat /\ b \in Nat /\ 2 <= a /\ a <= b /\ b <= m /\ m <= k /\ k \in Nat
      /\ k = IF c = "cr" THEN m ELSE m + 1
  BY <1>1, <1>m
<1>4. /\ v[a] # "sp" /\ \A i \in 2 .. a - 1 : v[i] = "sp"
      /\ \A i \in a .. b : v[i] # "lf"
      /\ type # "PASS" => \A i \in a .. b : v[i] # "sp"
  <2>1. \A i \in 2 .. b : v[i] = w[i]
    BY <1>1, <1>3
  <2>2. a \in 2 .. b /\ \A i \in 2 .. a - 1 : i \in 2 .. b
    BY <1>3
  <2>3. \A i \in a .. b : i \in 2 .. b
    BY <1>3
  <2>4. v[a] # "sp" /\ \A i \in 2 .. a - 1 : v[i] = "sp"
    BY <1>2, <2>1, <2>2
  <2>5. /\ \A i \in a .. b : v[i] # "lf"
        /\ type # "PASS" => \A i \in a .. b : v[i] # "sp"
    BY <1>2, <2>1, <2>3
  <2>6. QED
    BY <2>4, <2>5
<1>5. \A i \in b + 1 .. k : v[i] = "sp"
  <2>1. ASSUME NEW i \in b + 1 .. k PROVE v[i] = "sp"
    <3>1. CASE i <= m
      BY <1>1, <1>2, <1>3, <3>1
    <3>2. CASE i > m
      <4>1. i = Len(w) + 1 /\ c = "sp"
        BY <1>1, <1>3, <3>2
      <4>2. QED
        BY <1>1, <4>1
    <3>3. QED
      BY <1>3, <3>1, <3>2
  <2>2. QED
    BY <2>1
<1>6. \A i \in 1 .. Len(arg) : arg[i] = v[a + i - 1]
  <2>1. ASSUME NEW i \in 1 .. Len(arg) PROVE arg[i] = v[a + i - 1]
    <3>1. a + i - 1 \in 1 .. Len(w)
      BY <1>1, <1>2, <1>3
    <3>2. QED
      BY <1>1, <1>2, <3>1
  <2>2. QED
    BY <2>1
<1>7. type = "PASS" => b = k
  BY <1>1, <1>2, <1>3
<1>8. a \in 2 .. k /\ b \in a .. k
  BY <1>3
<1>9. Span(arg, v, type, a, b)
  BY <1>2, <1>4, <1>5, <1>6, <1>7 DEF Span, k
<1>10. QED
  BY <1>3, <1>8, <1>9 DEF v, k, m

(* A letter of the argument, or a space of that of PASS, extends it.       *)
LEMMA SpanGrows ==
  ASSUME NEW w \in Seq(Char), NEW c \in Char, Fluent(w), NEW arg \in Seq(Char), NEW type,
         NEW a \in 2 .. End(w), NEW b \in a .. End(w), Span(arg, w, type, a, b), b = End(w),
         c # "cr", c # "lf", c = "sp" => type = "PASS"
  PROVE  /\ Span(Append(arg, c), Append(w, c), type, a, End(Append(w, c)))
         /\ a \in 2 .. End(Append(w, c))
         /\ End(Append(w, c)) \in a .. End(Append(w, c))
<1> DEFINE v == Append(w, c)
           m == End(w)
           k == End(v)
           more == Append(arg, c)
<1>1. /\ m = Len(w) /\ Len(w) \in Nat /\ v[Len(w) + 1] = c
      /\ k = Len(w) + 1
      /\ \A i \in 1 .. Len(w) : v[i] = w[i]
  BY FluentGrows
<1>2. /\ a > 2 /\ w[a] # "sp" /\ \A i \in 2 .. a - 1 : w[i] = "sp"
      /\ \A i \in a .. b : w[i] # "lf"
      /\ type # "PASS" => \A i \in a .. b : w[i] # "sp"
      /\ Len(arg) = b - a + 1 /\ \A i \in 1 .. Len(arg) : arg[i] = w[a + i - 1]
  BY DEF Span
<1>m. a \in 2 .. m /\ b \in a .. m /\ b = m
  OBVIOUS
<1>l. Len(arg) = b - a + 1
  BY <1>2
<1>o. /\ Len(more) = Len(arg) + 1 /\ Len(arg) \in Nat
      /\ \A i \in 1 .. Len(arg) : more[i] = arg[i]
      /\ more[Len(arg) + 1] = c
  BY AppendIs
<1> HIDE DEF v, m, k, more
<1>3. /\ m \in Nat /\ a \in Nat /\ 2 <= a /\ a <= m /\ k \in Nat /\ k = m + 1 /\ b = m
  BY <1>1, <1>m
<1>v. \A i \in 2 .. k : v[i] = IF i <= m THEN w[i] ELSE c
  BY <1>1, <1>3
<1>4. /\ v[a] # "sp" /\ \A i \in 2 .. a - 1 : v[i] = "sp"
      /\ \A i \in a .. k : v[i] # "lf"
      /\ type # "PASS" => \A i \in a .. k : v[i] # "sp"
  BY <1>2, <1>3, <1>v, SMTT(30)
<1>5. \A i \in k + 1 .. k : v[i] = "sp"
  BY <1>3
<1>6. Len(more) = k - a + 1 /\ \A i \in 1 .. Len(more) : more[i] = v[a + i - 1]
  <2>0. Len(more) = k - a + 1
    <3>1. Len(more) = Len(arg) + 1
      BY <1>o
    <3>2. Len(arg) = m - a + 1
      BY <1>l, <1>3
    <3>3. QED
      BY <1>3, <3>1, <3>2
  <2>1. ASSUME NEW i \in 1 .. Len(more) PROVE more[i] = v[a + i - 1]
    <3>1. CASE i \in 1 .. Len(arg)
      <4>1. a + i - 1 \in 1 .. Len(w)
        BY <1>1, <1>2, <1>3, <3>1
      <4>2. more[i] = arg[i] /\ arg[i] = w[a + i - 1]
        BY <1>2, <1>o, <3>1
      <4>3. QED
        BY <1>1, <4>1, <4>2
    <3>2. CASE i \notin 1 .. Len(arg)
      <4>0. Len(more) = Len(arg) + 1 /\ Len(arg) \in Nat /\ m = Len(w)
        BY <1>1, <1>o
      <4>l. Len(arg) = m - a + 1
        BY <1>l, <1>3
      <4>1. i = Len(arg) + 1 /\ a + i - 1 = Len(w) + 1
        BY <1>3, <3>2, <4>0, <4>l
      <4>2. QED
        BY <1>1, <1>o, <4>1
    <3>3. QED
      BY <3>1, <3>2
  <2>2. QED
    BY <2>0, <2>1
<1>8. a \in 2 .. k /\ k \in a .. k
  BY <1>3
<1>9. Span(more, v, type, a, k)
  BY <1>2, <1>4, <1>5, <1>6 DEF Span, k
<1>10. QED
  BY <1>8, <1>9 DEF v, k, more

(* Its first letter begins it.                                             *)
LEMMA SpanBegins ==
  ASSUME NEW w \in Seq(Char), NEW c \in Char, Fluent(w), Blank(w), Len(w) > 1, NEW type,
         c \notin {"cr", "lf", "sp"}
  PROVE  /\ Span(Append(<<>>, c), Append(w, c), type, End(Append(w, c)), End(Append(w, c)))
         /\ End(Append(w, c)) \in 2 .. End(Append(w, c))
         /\ End(Append(w, c)) \in End(Append(w, c)) .. End(Append(w, c))
<1> DEFINE v == Append(w, c)
           k == End(v)
           more == Append(<<>>, c)
<1>1. /\ End(w) = Len(w) /\ Len(w) \in Nat /\ v[Len(w) + 1] = c
      /\ k = Len(w) + 1
      /\ \A i \in 1 .. Len(w) : v[i] = w[i]
  BY FluentGrows
<1>2. \A i \in 2 .. Len(w) : w[i] = "sp"
  BY <1>1 DEF Blank
<1>o. Len(more) = 1 /\ more[1] = c
  OBVIOUS
<1> HIDE DEF v, k, more
<1>3. /\ k \in Nat /\ k > 2 /\ v[k] = c
      /\ \A i \in 2 .. k - 1 : v[i] = "sp"
  BY <1>1, <1>2
<1>4. /\ \A i \in k + 1 .. k : v[i] = "sp"
      /\ \A i \in k .. k : v[i] # "lf" /\ v[i] # "sp"
      /\ Len(more) = k - k + 1 /\ \A i \in 1 .. Len(more) : more[i] = v[k + i - 1]
  BY <1>3, <1>o
<1>5. Span(more, v, type, k, k)
  BY <1>3, <1>4 DEF Span, k
<1>6. k \in 2 .. k /\ k \in k .. k
  BY <1>3
<1>7. QED
  BY <1>5, <1>6 DEF v, k, more

(* An argument of MAX_ARG_LENGTH characters is too long.                   *)
LEMMA SpanTooLong ==
  ASSUME NEW arg \in Seq(Char), NEW v \in Seq(Char), NEW type \in Command,
         NEW a \in 2 .. End(v), NEW b \in a .. End(v), Span(arg, v, type, a, b),
         Len(arg) >= MAX_ARG_LENGTH
  PROVE  Wrong(v, type)
<1> DEFINE k == End(v)
<1>1. k \in Int /\ Len(arg) \in Nat
  BY DEF End
<1>2. a \in 2 .. k /\ b \in a .. k
  OBVIOUS
<1>3. /\ v[a] # "sp" /\ Len(arg) = b - a + 1
      /\ type # "PASS" => \A i \in a .. b : v[i] # "sp"
  BY DEF Span
<1> HIDE DEF k
<1>4. b \in a .. b /\ b \in 2 .. k /\ (b - a) + 1 >= MAX_ARG_LENGTH
  BY <1>1, <1>2, <1>3
<1>5. type = "PASS" \/ v[b] # "sp"
  BY <1>3, <1>4
<1>6. \E i, j \in 2 .. k :
         v[i] # "sp" /\ (type = "PASS" \/ v[j] # "sp") /\ j - i + 1 >= MAX_ARG_LENGTH
  BY <1>2, <1>3, <1>4, <1>5
<1>7. QED
  BY <1>6 DEF Wrong, k

(* What is known of a line whose argument is being read.                   *)
Arguing(f, l, n, e, arg, w, type) ==
  /\ w \in Seq(Char) /\ Fluent(w) /\ Len(w) >= 1
  /\ f \in 0 .. 2 /\ l \in Int /\ n \in Nat /\ e \in BOOLEAN /\ arg \in Seq(Char)
  /\ type \in Command
  /\ Reads(f, l, n, "WITH_ARGS", e, arg, w, type)
  /\ l <= MAX_ARG_LENGTH
  /\ (l = 0 /\ arg = <<>>) \/ l = Len(arg) + 1

LEMMA ArguingIs ==
  ASSUME NEW f, NEW l, NEW n, NEW e, NEW arg, NEW w, NEW type, Arguing(f, l, n, e, arg, w, type)
  PROVE  /\ f = 0 /\ Len(w) + 3 <= MAX_MSG_SIZE /\ Len(w) + 3 \in Nat /\ Len(w) + 3 \in Int
         /\ type # "CAPA" /\ max_args(type) = 1 /\ Len(w) \in Nat
         /\ Before(l, n, e, w) \/ Within(l, n, e, arg, w, type)
         /\ End(w) = Len(w) /\ ~EndsInCr(w)
         /\ "ERROR" \in States /\ "NO_ARGS" \in States /\ "WITH_ARGS" \in States
<1>1. End(w) = Len(w) /\ ~EndsInCr(w) /\ Len(w) \in Nat
  BY FluentGrows DEF Arguing, Char
<1>2. /\ Len(w) + 3 <= MAX_MSG_SIZE /\ f # 1 /\ f # 2 /\ type # "CAPA"
      /\ Before(l, n, e, w) \/ Within(l, n, e, arg, w, type)
  BY <1>1 DEF Arguing, Reads
<1>3. max_args(type) = 1
  BY <1>2 DEF Arguing, Command, max_args
<1>4. QED
  BY <1>1, <1>2, <1>3 DEF Arguing, States

(* A space in WITH_ARGS.                                                   *)
LEMMA SpaceReads ==
  ASSUME NEW f, NEW l, NEW n, NEW e, NEW arg, NEW w, NEW type, Arguing(f, l, n, e, arg, w, type),
         type # "PASS" \/ n = 0,
         NEW u, Grown(u, arg, Len(w) + 3, 1, f, l, n, "WITH_ARGS", type, Expecting)
  PROVE  Reading(u.parser, u.argument, Append(w, "sp"), type)
<1> DEFINE v == Append(w, "sp")
<1>0. "sp" \in Char /\ "sp" \in {"sp", "cr"} /\ Expecting = TRUE
  BY DEF Char, Expecting
<1>1. /\ f = 0 /\ Len(w) + 3 <= MAX_MSG_SIZE /\ Len(w) + 3 \in Nat
      /\ type # "CAPA" /\ Len(w) \in Nat
      /\ Before(l, n, e, w) \/ Within(l, n, e, arg, w, type)
      /\ End(w) = Len(w) /\ "WITH_ARGS" \in States
  BY ArguingIs
<1>2. w \in Seq(Char) /\ Fluent(w) /\ Len(w) >= 1 /\ l \in Int /\ l <= MAX_ARG_LENGTH /\ arg \in Seq(Char)
  BY DEF Arguing
<1>3. ~EndsInCr(v) /\ Len(v) = Len(w) + 1 /\ v \in Seq(Char)
  BY <1>0, <1>2, FluentGrows
<1>4. ASSUME Before(l, n, e, w) PROVE Before(l, n, Expecting, v)
  <2>1. Blank(v)
    BY <1>0, <1>2, <1>4, BlankGrows DEF Before
  <2> HIDE DEF v
  <2>2. QED
    BY <1>0, <1>2, <1>3, <1>4, <2>1 DEF Before
<1>5. ASSUME Within(l, n, e, arg, w, type) PROVE Within(l, n, Expecting, arg, v, type)
  <2>1. PICK a \in 2 .. End(w) : \E b \in a .. End(w) : Span(arg, w, type, a, b)
    BY <1>5 DEF Within
  <2>2. PICK b \in a .. End(w) : Span(arg, w, type, a, b)
    BY <2>1
  <2>3. n = 1 /\ type # "PASS" /\ l = Len(arg) + 1
    BY <1>5 DEF Within
  <2>4. /\ Span(arg, v, type, a, b) /\ a \in 2 .. End(v) /\ b \in a .. End(v)
        /\ End(v) = End(w) + 1
    BY <1>0, <1>2, <2>2, <2>3, SpanStays
  <2> HIDE DEF v
  <2>5. End(v) > b
    BY <1>1, <2>4
  <2>6. QED
    BY <1>0, <2>3, <2>4, <2>5 DEF Within
<1> HIDE DEF v
<1>6. Right(f, l, n, "WITH_ARGS", Expecting, arg, v, type)
  BY <1>1, <1>2, <1>3, <1>4, <1>5, SizesAssumption DEF Right
<1>7. (Len(w) + 3) + 1 = Len(v) + 3
  BY <1>1, <1>3
<1>8. QED
  BY <1>1, <1>2, <1>3, <1>6, <1>7, GrownReads DEF v

(* A CR in WITH_ARGS: the line may turn out to have no argument.           *)
LEMMA CrReads ==
  ASSUME NEW f, NEW l, NEW n, NEW e, NEW arg, NEW w, NEW type, Arguing(f, l, n, e, arg, w, type),
         NEW goes, goes = IF n = 0 /\ min_args(type) = 0 THEN "NO_ARGS"
                          ELSE IF ~(n >= min_args(type) /\ n <= max_args(type)) THEN "ERROR"
                          ELSE "WITH_ARGS",
         NEW u, Grown(u, arg, Len(w) + 3, 1, 1, l, n, goes, type, e)
  PROVE  Reading(u.parser, u.argument, Append(w, "cr"), type)
<1> DEFINE v == Append(w, "cr")
<1>0. "cr" \in Char /\ "cr" \in {"sp", "cr"}
  BY DEF Char
<1>1. /\ f = 0 /\ Len(w) + 3 <= MAX_MSG_SIZE /\ Len(w) + 3 \in Nat
      /\ type # "CAPA" /\ Len(w) \in Nat /\ max_args(type) = 1
      /\ Before(l, n, e, w) \/ Within(l, n, e, arg, w, type)
      /\ End(w) = Len(w)
      /\ "ERROR" \in States /\ "NO_ARGS" \in States /\ "WITH_ARGS" \in States
  BY ArguingIs
<1>2. /\ w \in Seq(Char) /\ Fluent(w) /\ Len(w) >= 1 /\ l \in Int /\ l <= MAX_ARG_LENGTH
      /\ arg \in Seq(Char) /\ type \in Command
  BY DEF Arguing
<1>3. EndsInCr(v) /\ Len(v) = Len(w) + 1 /\ v \in Seq(Char)
  BY <1>0, <1>2, FluentGrows
<1>4. ASSUME Before(l, n, e, w) PROVE Right(1, l, n, goes, e, arg, v, type) /\ goes \in States
  <2>1. Blank(w) /\ n = 0
    BY <1>4 DEF Before
  <2>2. Blank(v)
    BY <1>0, <1>2, <2>1, BlankGrows
  <2>3. CASE min_args(type) = 0
    <3>1. goes = "NO_ARGS" /\ type = "LIST"
      BY <1>1, <1>2, <2>1, <2>3 DEF min_args, Command
    <3> HIDE DEF v
    <3>2. QED
      BY <1>1, <1>3, <2>1, <2>2, <3>1 DEF Right, NoArgument
  <2>4. CASE min_args(type) # 0
    <3>1. min_args(type) = 1
      BY <2>4 DEF min_args
    <3>2. goes = "ERROR"
      BY <2>1, <3>1
    <3>3. Wrong(v, type)
      BY <1>2, <2>1, <3>1, WrongMissing
    <3> HIDE DEF v
    <3>4. QED
      BY <1>1, <3>2, <3>3 DEF Right
  <2>5. QED
    BY <2>3, <2>4
<1>5. ASSUME Within(l, n, e, arg, w, type) PROVE Right(1, l, n, goes, e, arg, v, type) /\ goes \in States
  <2>1. PICK a \in 2 .. End(w) : \E b \in a .. End(w) : Span(arg, w, type, a, b) /\ (e <=> End(w) > b)
    BY <1>5 DEF Within
  <2>2. PICK b \in a .. End(w) : Span(arg, w, type, a, b) /\ (e <=> End(w) > b)
    BY <2>1
  <2>3. n = 1 /\ l = Len(arg) + 1
    BY <1>5 DEF Within
  <2>4. /\ Span(arg, v, type, a, b) /\ a \in 2 .. End(v) /\ b \in a .. End(v)
        /\ End(v) = End(w)
    BY <1>0, <1>2, <2>2, SpanStays
  <2>5. goes = "WITH_ARGS"
    BY <1>1, <2>3 DEF min_args
  <2> HIDE DEF v
  <2>6. Within(l, n, e, arg, v, type)
    BY <2>2, <2>3, <2>4 DEF Within
  <2>7. QED
    BY <1>1, <1>2, <1>3, <2>5, <2>6, SizesAssumption DEF Right
<1> HIDE DEF v
<1>6. Right(1, l, n, goes, e, arg, v, type) /\ goes \in States
  BY <1>1, <1>4, <1>5
<1>7. (Len(w) + 3) + 1 = Len(v) + 3
  BY <1>1, <1>3
<1>8. QED
  BY <1>1, <1>2, <1>3, <1>6, <1>7, GrownReads DEF v

(* A second argument.                                                      *)
LEMMA WrongSecond ==
  ASSUME NEW w \in Seq(Char), NEW c \in Char, Fluent(w), NEW arg \in Seq(Char), NEW type,
         NEW a \in 2 .. End(w), NEW b \in a .. End(w), Span(arg, w, type, a, b), End(w) > b,
         c \notin {"cr", "sp"}
  PROVE  Wrong(Append(w, c), type)
<1> DEFINE v == Append(w, c)
           m == End(w)
           k == End(v)
<1>1. /\ m = Len(w) /\ Len(w) \in Nat /\ v[Len(w) + 1] = c
      /\ k = Len(w) + 1
      /\ \A i \in 1 .. Len(w) : v[i] = w[i]
  BY FluentGrows
<1>2. /\ w[a] # "sp" /\ type # "PASS"
      /\ \A i \in b + 1 .. m : w[i] = "sp"
  BY DEF Span
<1>m. a \in 2 .. m /\ b \in a .. m /\ m > b
  OBVIOUS
<1> HIDE DEF v, m, k
<1>3. /\ a \in 2 .. k /\ b + 1 \in 2 .. k /\ k \in 2 .. k /\ a < b + 1 /\ b + 1 < k
      /\ b + 1 \in b + 1 .. m /\ a \in 1 .. Len(w) /\ b + 1 \in 1 .. Len(w)
  BY <1>1, <1>m
<1>4. v[a] # "sp" /\ v[b + 1] = "sp" /\ v[k] # "sp"
  BY <1>1, <1>2, <1>3
<1>5. \E i, j, g \in 2 .. k : i < j /\ j < g /\ v[i] # "sp" /\ v[j] = "sp" /\ v[g] # "sp"
  BY <1>3, <1>4
<1>6. QED
  BY <1>2, <1>5 DEF Wrong, k, v

(* The first letter after the name and spaces.                             *)
LEMMA FirstLetterReads ==
  ASSUME NEW f, NEW l, NEW n, NEW e, NEW arg, NEW w, NEW type, Arguing(f, l, n, e, arg, w, type),
         Before(l, n, e, w), NEW c \in {"x", "name", "part"}, NEW more, more = Append(arg, c),
         NEW u,
         ~e => Grown(u, arg, Len(w) + 3, 1, 0, l, n, "ERROR", type, Settled),
         e => Grown(u, more, Len(w) + 3, 1, 0, 2, 1, "WITH_ARGS", type, Settled)
  PROVE  Reading(u.parser, u.argument, Append(w, c), type)
<1> DEFINE v == Append(w, c)
<1>0. c \in Char /\ c \notin {"cr", "lf", "sp"} /\ Settled = FALSE
  BY DEF Char, Settled
<1>1. /\ Len(w) + 3 <= MAX_MSG_SIZE /\ Len(w) + 3 \in Nat /\ Len(w) \in Nat /\ type # "CAPA"
      /\ End(w) = Len(w)
      /\ "ERROR" \in States /\ "WITH_ARGS" \in States
  BY ArguingIs
<1>2. /\ w \in Seq(Char) /\ Fluent(w) /\ Len(w) >= 1 /\ l \in Int
      /\ arg \in Seq(Char) /\ type \in Command /\ e \in BOOLEAN
      /\ (l = 0 /\ arg = <<>>) \/ l = Len(arg) + 1
  BY DEF Arguing
<1>3. /\ ~EndsInCr(v) /\ Len(v) = Len(w) + 1 /\ v \in Seq(Char)
  BY <1>0, <1>2, FluentGrows
<1>4. n = 0 /\ l = 0 /\ Blank(w) /\ (e <=> Len(w) > 1)
  BY DEF Before
<1>5. arg = <<>>
  <2>1. Len(arg) \in Nat
    BY <1>2
  <2>2. QED
    BY <1>2, <1>4, <2>1
<1>6. (Len(w) + 3) + 1 = Len(v) + 3
  BY <1>1, <1>3
<1>7. CASE e = FALSE
  <2>1. Len(w) = 1
    BY <1>1, <1>2, <1>4, <1>7
  <2>2. Wrong(v, type)
    BY <1>0, <1>2, <2>1, WrongLast
  <2> HIDE DEF v
  <2>3. Right(0, l, n, "ERROR", Settled, arg, v, type)
    BY <2>2 DEF Right
  <2>4. QED
    BY <1>1, <1>2, <1>3, <1>6, <1>7, <2>3, GrownReads DEF v
<1>8. CASE e = TRUE
  <2>1. /\ Span(more, v, type, End(v), End(v))
        /\ End(v) \in 2 .. End(v) /\ End(v) \in End(v) .. End(v)
    BY <1>0, <1>2, <1>4, <1>5, <1>8, SpanBegins
  <2>2. more \in Seq(Char) /\ Len(more) = 1 /\ more = Append(<<>>, c)
    BY <1>0, <1>5
  <2> HIDE DEF v
  <2>i. End(v) \in Int
    BY <1>3 DEF End
  <2>3. Within(2, 1, Settled, more, v, type)
    <3>1. Settled <=> End(v) > End(v)
      BY <1>0, <2>i
    <3>2. QED
      BY <2>1, <2>2, <3>1 DEF Within
  <2>4. 2 > MAX_ARG_LENGTH => Wrong(v, type)
    <3>1. 2 > MAX_ARG_LENGTH => Len(more) >= MAX_ARG_LENGTH
      BY <2>2, SizesAssumption
    <3>2. QED
      BY <1>2, <1>3, <2>1, <2>2, <3>1, SpanTooLong
  <2>5. Right(0, 2, 1, "WITH_ARGS", Settled, more, v, type)
    BY <1>1, <1>3, <2>3, <2>4 DEF Right
  <2>6. 2 \in Int /\ 1 \in Nat
    OBVIOUS
  <2>7. QED
    BY <1>1, <1>2, <1>3, <1>6, <1>8, <2>5, <2>6, GrownReads DEF v
<1>9. QED
  BY <1>2, <1>7, <1>8

(* What the next letter of the argument comes to.                          *)
NextLetter(u, arg, w, l, n, m, type, e) ==
  /\ ~e => Grown(u, arg, Len(w) + 3, 1, 0, l, n, "WITH_ARGS", type, Settled)
  /\ e => Grown(u, arg, Len(w) + 3, 1, 0, l, m, "ERROR", type, Settled)

(* A letter of the argument, or of a second one.                           *)
LEMMA NextLetterReads ==
  ASSUME NEW f, NEW l, NEW n, NEW e, NEW arg, NEW w, NEW type, Arguing(f, l, n, e, arg, w, type),
         Within(l, n, e, arg, w, type),
         NEW c \in Char, c \in {"x", "name", "part"} \/ (c = "sp" /\ type = "PASS"),
         NEW more, more = Append(arg, c), NEW l1, l1 = l + 1,
         NEW m, NEW u, NextLetter(u, more, w, l1, n, m, type, e)
  PROVE  Reading(u.parser, u.argument, Append(w, c), type)
<1> DEFINE v == Append(w, c)
<1>0. c # "cr" /\ c # "lf" /\ (c = "sp" => type = "PASS") /\ Settled = FALSE
  BY DEF Settled
<1>1. /\ Len(w) + 3 <= MAX_MSG_SIZE /\ Len(w) + 3 \in Nat /\ Len(w) \in Nat /\ type # "CAPA"
      /\ End(w) = Len(w)
      /\ "ERROR" \in States /\ "WITH_ARGS" \in States
  BY ArguingIs
<1>2. /\ w \in Seq(Char) /\ Fluent(w) /\ Len(w) >= 1 /\ l \in Int
      /\ arg \in Seq(Char) /\ type \in Command /\ e \in BOOLEAN
  BY DEF Arguing
<1>3. /\ ~EndsInCr(v) /\ Len(v) = Len(w) + 1 /\ v \in Seq(Char)
  BY <1>0, <1>2, FluentGrows
<1>4. PICK a \in 2 .. End(w) : \E b \in a .. End(w) : Span(arg, w, type, a, b) /\ (e <=> End(w) > b)
  BY DEF Within
<1>5. PICK b \in a .. End(w) : Span(arg, w, type, a, b) /\ (e <=> End(w) > b)
  BY <1>4
<1>6. (Len(w) + 3) + 1 = Len(v) + 3
  BY <1>1, <1>3
<1>7. /\ n = 1 /\ l = Len(arg) + 1 /\ l1 \in Int /\ more \in Seq(Char) /\ Len(more) = Len(arg) + 1
      /\ Len(arg) \in Nat
  BY <1>2, AppendIs DEF Within
<1>8. CASE e = FALSE
  <2>1. b = End(w)
    BY <1>1, <1>5, <1>8
  <2>2. /\ Span(more, v, type, a, End(v)) /\ a \in 2 .. End(v) /\ End(v) \in a .. End(v)
    BY <1>0, <1>2, <1>5, <2>1, SpanGrows
  <2> HIDE DEF v
  <2>i. End(v) \in Int
    BY <1>3 DEF End
  <2>3. Within(l1, n, Settled, more, v, type)
    <3>1. Settled <=> End(v) > End(v)
      BY <1>0, <2>i
    <3>2. l1 = Len(more) + 1
      BY <1>7
    <3>3. QED
      BY <1>7, <2>2, <3>1, <3>2 DEF Within
  <2>4. l1 > MAX_ARG_LENGTH => Wrong(v, type)
    <3>1. l1 > MAX_ARG_LENGTH => Len(more) >= MAX_ARG_LENGTH
      BY <1>7, SizesAssumption
    <3>2. QED
      BY <1>2, <1>3, <1>7, <2>2, <3>1, SpanTooLong
  <2>5. Right(0, l1, n, "WITH_ARGS", Settled, more, v, type)
    BY <1>1, <1>3, <2>3, <2>4 DEF Right
  <2>6. QED
    BY <1>1, <1>2, <1>3, <1>6, <1>7, <1>8, <2>5, GrownReads DEF v, NextLetter
<1>9. CASE e = TRUE
  <2>1. End(w) > b
    BY <1>5, <1>9
  <2>2. type # "PASS"
    BY <1>1, <1>5, <2>1 DEF Span
  <2>3. Wrong(v, type)
    BY <1>0, <1>2, <1>5, <2>1, <2>2, WrongSecond
  <2> HIDE DEF v
  <2>4. Right(0, l1, m, "ERROR", Settled, more, v, type)
    BY <2>3 DEF Right
  <2>5. QED
    BY <1>1, <1>2, <1>3, <1>6, <1>7, <1>9, <2>4, GrownReads DEF v, NextLetter
<1>10. QED
  BY <1>2, <1>8, <1>9

(* A character in ERROR: a line that is wrong stays wrong.                 *)
LEMMA ErrorReads ==
  ASSUME NEW w \in Seq(Char), NEW c \in Char, Fluent(w),
         NEW f, NEW l \in Int, NEW n, NEW e \in BOOLEAN, NEW arg, NEW type \in Command,
         NEW p, Fields(p, Len(w) + 3, f, l, n, "ERROR", type, e),
         Wrong(w, type),
         NEW any, NEW u, u = Fed(p, arg, c, any), ~u.finished
  PROVE  Reading(u.parser, u.argument, Append(w, c), type)
<1> DEFINE v == Append(w, c)
           z == Len(w) + 3
           g == IF c = "cr" /\ f = 0 THEN 1 ELSE 0
<1>1. /\ Len(v) = Len(w) + 1 /\ Len(w) \in Nat /\ v \in Seq(Char)
  BY FluentGrows
<1>2. z \in Nat /\ z \in Int /\ 1 \in Nat /\ z + 1 = Len(v) + 3 /\ "ERROR" \in States
  BY <1>1 DEF States
<1>3. Wrong(v, type)
  BY WrongGrows
<1>4. Fields(p, z, f, l, n, "ERROR", type, e)
  OBVIOUS
<1> HIDE DEF v, z
<1>5. /\ c = "lf" => Ended(u, arg, f, l - 1, n, "ERROR", NotRecognized, e)
      /\ c # "lf" => Grown(u, arg, z, 1, g, l, n, "ERROR", type, e)
  BY <1>2, <1>4, FedError
<1> HIDE DEF g
<1>6. Grown(u, arg, z, 1, g, l, n, "ERROR", type, e)
  BY <1>5 DEF Ended
<1>7. Right(g, l, n, "ERROR", e, arg, v, type)
  BY <1>3 DEF Right
<1>8. QED
  BY <1>1, <1>2, <1>6, <1>7, GrownReads DEF v

(* Any character in WITH_ARGS.                                             *)
LEMMA WithArgumentsReads ==
  ASSUME NEW w, NEW c \in Char, NEW f, NEW l, NEW n, NEW e, NEW arg, NEW type,
         Arguing(f, l, n, e, arg, w, type),
         NEW p, Fields(p, Len(w) + 3, f, l, n, "WITH_ARGS", type, e),
         NEW any, NEW u, u = Fed(p, arg, c, any), ~u.finished
  PROVE  Reading(u.parser, u.argument, Append(w, c), type)
<1> DEFINE z == Len(w) + 3
           l1 == l - 1
           l2 == l + 1
           l3 == (IF l = 0 THEN 1 ELSE l) + 1
           m == n + 1
           more == Append(arg, c)
<1>1. /\ f = 0 /\ z \in Int /\ max_args(type) = 1
      /\ Before(l, n, e, w) \/ Within(l, n, e, arg, w, type)
  BY ArguingIs
<1>2. l \in Int /\ l1 \in Int /\ e \in BOOLEAN /\ arg \in Seq(Char) /\ l1 = l - 1
  BY DEF Arguing
<1>3. Fields(p, z, f, l, n, "WITH_ARGS", type, e)
  OBVIOUS
<1>4. CASE c = "sp" /\ (type # "PASS" \/ n = 0)
  <2>1. Grown(u, arg, z, 1, f, l, n, "WITH_ARGS", type, Expecting)
    <3> HIDE DEF z, l1, l2, l3, m, more
    <3>1. QED
      BY <1>1, <1>2, <1>3, <1>4, FedWithArguments
  <2>2. QED
    BY <1>4, <2>1, SpaceReads
<1>5. CASE c = "cr"
  <2> DEFINE goes == IF n = 0 /\ min_args(type) = 0 THEN "NO_ARGS"
                     ELSE IF ~(n >= min_args(type) /\ n <= max_args(type)) THEN "ERROR"
                     ELSE "WITH_ARGS"
  <2>1. Grown(u, arg, z, 1, 1, l, n, goes, type, e)
    <3> HIDE DEF z, l1, l2, l3, m, more
    <3>1. QED
      BY <1>1, <1>2, <1>3, <1>5, FedWithArguments
  <2>2. QED
    BY <1>5, <2>1, CrReads
<1>6. CASE c = "lf"
  <2> DEFINE kind == IF n >= min_args(type) /\ n <= max_args(type) THEN type ELSE NotRecognized
  <2> HIDE DEF z, l1, l2, l3, m, more
  <2>1. c = "lf" /\ f # 1
    BY <1>1, <1>6
  <2>2. Ended(u, arg, 0, l1, n, "ERROR", NotRecognized, e)
    BY <1>1, <1>2, <1>3, <2>1, FedWithArgumentsLast
  <2>3. QED
    BY <2>2 DEF Ended
<1>7. CASE c \in {"x", "name", "part"} \/ (c = "sp" /\ type = "PASS" /\ n # 0)
  <2>1. /\ ~e /\ l = 0 => Grown(u, arg, z, 1, 0, l, n, "ERROR", type, Settled)
        /\ ~e /\ l # 0 => Grown(u, more, z, 1, 0, l2, n, "WITH_ARGS", type, Settled)
        /\ e /\ n >= max_args(type) /\ l # 0 =>
             Grown(u, more, z, 1, 0, l2, m, "ERROR", type, Settled)
        /\ e /\ ~(n >= max_args(type)) =>
             Grown(u, more, z, 1, 0, l3, m, "WITH_ARGS", type, Settled)
    <3> HIDE DEF z, l1
    <3>1. QED
      BY <1>1, <1>2, <1>3, <1>7, FedArgument
  <2>2. CASE Before(l, n, e, w)
    <3>1. l = 0 /\ n = 0
      BY <2>2 DEF Before
    <3>2. l3 = 2 /\ m = 1 /\ ~(n >= max_args(type)) /\ c \in {"x", "name", "part"}
      BY <1>1, <1>7, <3>1
    <3> HIDE DEF l3, m, more, z
    <3>3. /\ ~e => Grown(u, arg, z, 1, 0, l, n, "ERROR", type, Settled)
          /\ e => Grown(u, more, z, 1, 0, 2, 1, "WITH_ARGS", type, Settled)
      BY <2>1, <3>1, <3>2
    <3>4. QED
      BY <2>2, <3>2, <3>3, FirstLetterReads DEF more, z
  <2>3. CASE Within(l, n, e, arg, w, type)
    <3>1. l # 0 /\ n = 1
      <4>1. Len(arg) \in Nat
        BY <1>2
      <4>2. QED
        BY <2>3, <4>1 DEF Within
    <3>2. n >= max_args(type) /\ l2 = l + 1 /\ (c \in {"x", "name", "part"} \/ (c = "sp" /\ type = "PASS"))
      BY <1>1, <1>7, <3>1
    <3> HIDE DEF l2, m, more, z
    <3>3. /\ ~e => Grown(u, more, z, 1, 0, l2, n, "WITH_ARGS", type, Settled)
          /\ e => Grown(u, more, z, 1, 0, l2, m, "ERROR", type, Settled)
      BY <2>1, <3>1, <3>2
    <3>4. NextLetter(u, more, w, l2, n, m, type, e)
      BY <3>3 DEF z, NextLetter
    <3>5. more = Append(arg, c)
      BY DEF more
    <3>6. QED
      BY <2>3, <3>2, <3>4, <3>5, NextLetterReads
  <2>4. QED
    BY <1>1, <2>2, <2>3
<1>8. QED
  BY <1>4, <1>5, <1>6, <1>7 DEF Char

(* A character of a line that has begun is read as what it is.             *)
LEMMA LaterReads ==
  ASSUME NEW p \in InputParser, NEW arg \in Seq(Char), NEW w \in Seq(Char), NEW c \in Char,
         NEW type \in Command \cup {NotRecognized}, NEW any,
         Place(p, w, type), Counted(p, arg), Fluent(w), Reading(p, arg, w, type),
         NEW u, u = Fed(p, arg, c, any), ~u.finished
  PROVE  Reading(u.parser, u.argument, Append(w, c), type)
<1>1. CASE type = NotRecognized
  BY <1>1 DEF Reading
<1>2. CASE type # NotRecognized
  <2> DEFINE f == p.correctly_formed
             l == p.arg_length
             n == p.args_count
             e == p.is_expecting_new_arg
             s == p.state
  <2>1. /\ f \in 0 .. 2 /\ l \in Int /\ n \in Nat /\ s \in States
        /\ e \in BOOLEAN
        /\ Fields(p, p.line_size, f, l, n, s, p.type, e)
    BY ParserFields
  <2>2. p.line_size = Len(w) + 3 /\ p.type = type /\ type \in Command /\ Len(w) >= 1
        /\ s # "RECOGNITION"
    <3>1. Len(w) \in Nat /\ w # <<>>
      BY DEF Place
    <3>2. QED
      BY <1>2, <3>1 DEF Place, SizeOf
  <2>3. Fields(p, Len(w) + 3, f, l, n, s, type, e)
    BY <2>1, <2>2
  <2>4. Reads(f, l, n, s, e, arg, w, type)
    BY <1>2 DEF Reading
  <2>c. s = "WITH_ARGS" => l <= MAX_ARG_LENGTH /\ ((l = 0 /\ arg = <<>>) \/ l = Len(arg) + 1)
    BY DEF Counted
  <2> HIDE DEF f, l, n, e, s
  <2>5. CASE s = "NO_ARGS"
    BY <2>1, <2>2, <2>3, <2>4, <2>5, NoArgumentReads
  <2>6. CASE s = "ERROR"
    <3>1. Wrong(w, type)
      BY <2>4, <2>6 DEF Reads
    <3>2. QED
      BY <2>1, <2>2, <2>3, <2>6, <3>1, ErrorReads
  <2>7. CASE s = "WITH_ARGS"
    <3>1. Arguing(f, l, n, e, arg, w, type)
      BY <2>1, <2>2, <2>4, <2>c, <2>7 DEF Arguing
    <3>2. QED
      BY <2>3, <2>7, <3>1, WithArgumentsReads
  <2>8. QED
    BY <2>1, <2>2, <2>5, <2>6, <2>7 DEF States
<1>3. QED
  BY <1>1, <1>2

(* A line of one character.                                                *)
LEMMA FirstLine ==
  ASSUME NEW c \in Char
  PROVE  LET v == Append(<<>>, c) IN
         /\ v \in Seq(Char) /\ Len(v) = 1 /\ v[1] = c /\ v # <<>>
         /\ EndsInCr(v) <=> c = "cr"
         /\ c # "cr" => Blank(v)
<1> DEFINE v == Append(<<>>, c)
<1>1. <<>> \in Seq(Char)
  OBVIOUS
<1>2. v \in Seq(Char) /\ Len(v) = 1 /\ v[1] = c /\ v # <<>>
  BY <1>1
<1> HIDE DEF v
<1>3. EndsInCr(v) <=> c = "cr"
  BY <1>2 DEF EndsInCr
<1>4. c # "cr" => Blank(v)
  BY <1>2, <1>3 DEF Blank, End
<1>5. QED
  BY <1>2, <1>3, <1>4 DEF v

LEMMA FirstTypes ==
  ASSUME NEW k \in Nat, NEW l \in Int, NEW s \in States,
         NEW y \in Command \cup {NotRecognized}, NEW e \in BOOLEAN, NEW p,
         Fields(p, k, 0, l, 0, s, y, e)
  PROVE  p \in InputParser
BY DEF Fields, InputParser

(* The first character keeps what is known of the line.                    *)
LEMMA BegunKept ==
  ASSUME NEW c \in Char, NEW type \in Command \cup {NotRecognized}, type # NotRecognized <=> c = "name",
         NEW k, k = IF type = NotRecognized THEN 1 ELSE 4,
         NEW l \in Int, NEW s \in States, NEW e \in BOOLEAN, NEW arg, FitsIn(arg),
         NEW u, Begun(u, arg, k, l, s, type, e),
         s = "RECOGNITION" => type = NotRecognized,
         type = NotRecognized => s \in {"RECOGNITION", "ERROR"},
         s = "WITH_ARGS" => l = 0 /\ arg = <<>>
  PROVE  Kept(u, Append(<<>>, c), type)
<1> DEFINE v == Append(<<>>, c)
           goes == Checked(0, k, s, l)
           q == u.parser
<1>1. /\ v \in Seq(Char) /\ Len(v) = 1 /\ v[1] = c /\ v # <<>>
      /\ EndsInCr(v) <=> c = "cr"
  BY FirstLine
<1>2. k \in Nat /\ k \in Int /\ 0 \in Int /\ 0 \in Nat /\ 0 \in 0 .. 2 /\ 0 + k = k
  OBVIOUS
<1>3. /\ goes \in States /\ goes \in {s, "ERROR"}
      /\ goes = "WITH_ARGS" => l <= MAX_ARG_LENGTH
  BY <1>2, CheckedIs
<1>4. u.argument = arg /\ u.finished = FALSE /\ Fields(q, k, 0, l, 0, goes, type, e)
  BY <1>2 DEF Begun, Grown
<1> HIDE DEF v, goes
<1> HIDE DEF q
<1>5. q \in InputParser
  <2>1. Fields(q, k, 0, l, 0, goes, type, e)
    BY <1>4
  <2>2. QED
    BY <1>2, <1>3, <2>1, FirstTypes
<1>6. q.line_size = k /\ q.arg_length = l /\ q.state = goes /\ q.type = type
  BY <1>4, FieldValues
<1>7. arg \in Seq(Char) /\ Len(arg) <= MAX_ARG_LENGTH
  BY DEF FitsIn
<1>8. Counted(q, arg)
  BY <1>3, <1>6, <1>7 DEF Counted, States
<1>9. Place(q, v, type)
  <2>1. q.line_size = SizeOf(v, type)
    BY <1>1, <1>6 DEF SizeOf
  <2>2. /\ goes = "RECOGNITION" => type = NotRecognized
        /\ type = NotRecognized => goes \in {"RECOGNITION", "ERROR"}
        /\ c = "cr" => goes # "NO_ARGS"
    BY <1>3 DEF States
  <2>3. \A i \in 1 .. Len(v) - 1 : ~(v[i] = "cr" /\ v[i + 1] = "lf")
    BY <1>1
  <2>4. QED
    BY <1>1, <1>6, <2>1, <2>2, <2>3 DEF Place
<1>10. QED
  BY <1>4, <1>5, <1>7, <1>8, <1>9 DEF Kept, q, v

(* A name is read as the command it is, if the last line did not end       *)
(* while an argument was expected.                                         *)
LEMMA BegunReads ==
  ASSUME NEW c, c = "name", NEW type \in Command,
         NEW s, \/ s = "WITH_ARGS" /\ max_args(type) > 0
                \/ s = "NO_ARGS" /\ ~(max_args(type) > 0),
         NEW arg, NEW u, Begun(u, arg, 4, 0, s, type, FALSE)
  PROVE  Reading(u.parser, u.argument, Append(<<>>, c), type)
<1> DEFINE v == Append(<<>>, c)
           e == FALSE
<1>0. c \in Char /\ e \in BOOLEAN
  BY DEF Char
<1>1. /\ v \in Seq(Char) /\ Len(v) = 1 /\ v[1] = c /\ v # <<>>
      /\ ~EndsInCr(v) /\ Blank(v)
  BY <1>0, FirstLine
<1> HIDE DEF v
<1>2. Right(0, 0, 0, s, e, arg, v, type)
  <2>1. s = "WITH_ARGS" => Before(0, 0, e, v) /\ type # "CAPA"
    BY <1>1 DEF Before, max_args
  <2>2. s = "NO_ARGS" => NoArgument(0, v, type)
    BY <1>1 DEF NoArgument, max_args, Command
  <2>3. s # "ERROR"
    OBVIOUS
  <2> HIDE DEF e
  <2>4. QED
    BY <1>1, <2>1, <2>2, <2>3, SizesAssumption DEF Right
<1>3. Grown(u, arg, 0, 4, 0, 0, 0, s, type, e)
  BY DEF Begun
<1> HIDE DEF e
<1>4. 0 \in Nat /\ 4 \in Nat /\ 0 \in Int /\ 0 + 4 = Len(v) + 3 /\ s \in States /\ 0 <= MAX_MSG_SIZE
  BY <1>1, SizesAssumption DEF States
<1>5. QED
  BY <1>1, <1>2, <1>3, <1>4, GrownReads DEF v

(* The first character of a line, whatever the last one left.              *)
LEMMA FirstKept ==
  ASSUME NEW p \in InputParser, p.line_size = 0, NEW arg \in Seq(Char), Len(arg) <= MAX_ARG_LENGTH,
         NEW c \in Char, NEW type \in Command \cup {NotRecognized}, type # NotRecognized <=> c = "name",
         NEW u, u = check_size(Transition(new_line(p), arg, c, type), Size(new_line(p), c))
  PROVE  /\ Kept(u, Append(<<>>, c), type)
         /\ ~u.finished /\ ~p.is_expecting_new_arg =>
              Reading(u.parser, u.argument, Append(<<>>, c), type)
         /\ u.finished => c = "lf" /\ u.parser.type = NotRecognized
<1> DEFINE f == p.correctly_formed
           l == p.arg_length
           n == p.args_count
           s == p.state
           y == p.type
           e == p.is_expecting_new_arg
           l1 == l - 1
           v == Append(<<>>, c)
<1>1. /\ f \in 0 .. 2 /\ l \in Int /\ l1 \in Int /\ n \in Nat /\ s \in States /\ e \in BOOLEAN
      /\ Fields(p, 0, f, l, n, s, y, e)
  BY ParserFields
<1>2. FitsIn(arg) /\ FitsIn(<<>>)
  BY SizesAssumption DEF FitsIn
<1>3. /\ c = "lf" => Ended(u, arg, 0, l1, 0, "RECOGNITION", NotRecognized, e)
      /\ c = "name" /\ max_args(type) > 0 => Begun(u, <<>>, 4, 0, "WITH_ARGS", type, e)
      /\ c = "name" /\ ~(max_args(type) > 0) => Begun(u, arg, 4, 0, "NO_ARGS", type, e)
      /\ c = "part" => Begun(u, arg, 1, l, "RECOGNITION", NotRecognized, e)
      /\ c # "lf" /\ c # "name" /\ c # "part" => Begun(u, arg, 1, l, "ERROR", NotRecognized, e)
  <2> HIDE DEF f, l, n, s, y, e
  <2>1. QED
    BY <1>1, FedFirst
<1>s. /\ "ERROR" \in States /\ "NO_ARGS" \in States /\ "WITH_ARGS" \in States /\ "RECOGNITION" \in States
      /\ 0 \in 0 .. 2 /\ 0 \in Int /\ 0 \in Nat
  BY DEF States
<1> HIDE DEF f, l, n, s, y, l1, v
<1>4. CASE c = "lf"
  <2>1. Ended(u, arg, 0, l1, 0, "RECOGNITION", NotRecognized, e)
    BY <1>3, <1>4
  <2>2. Typed(0, l1, 0, "RECOGNITION", NotRecognized, e)
    BY <1>1, <1>s DEF Typed
  <2>3. Kept(u, v, type)
    BY <1>2, <2>1, <2>2, EndedKept
  <2>4. u.finished = TRUE /\ Fields(u.parser, 0, 0, l1, 0,
                                    IF "RECOGNITION" = "WITH_ARGS" /\ l1 > MAX_ARG_LENGTH
                                    THEN "ERROR" ELSE "RECOGNITION", NotRecognized, e)
    BY <2>1 DEF Ended
  <2>5. u.parser.type = NotRecognized
    BY <2>4 DEF Fields
  <2>6. QED
    BY <1>4, <2>3, <2>4, <2>5 DEF v
<1>5. CASE c = "name" /\ max_args(type) > 0
  <2>1. Begun(u, <<>>, 4, 0, "WITH_ARGS", type, e) /\ type \in Command /\ type # NotRecognized
    BY <1>3, <1>5
  <2>2. Kept(u, v, type)
    BY <1>1, <1>2, <1>5, <1>s, <2>1, BegunKept DEF v
  <2>3. ~u.finished
    BY <2>1 DEF Begun, Grown
  <2>4. ASSUME ~e PROVE Reading(u.parser, u.argument, v, type)
    <3>1. Begun(u, <<>>, 4, 0, "WITH_ARGS", type, FALSE)
      BY <1>1, <2>1, <2>4
    <3>2. QED
      BY <1>5, <2>1, <3>1, BegunReads DEF v
  <2>5. QED
    BY <2>2, <2>3, <2>4 DEF v
<1>6. CASE c = "name" /\ ~(max_args(type) > 0)
  <2>1. Begun(u, arg, 4, 0, "NO_ARGS", type, e) /\ type \in Command /\ type # NotRecognized
    BY <1>3, <1>6
  <2>2. Kept(u, v, type)
    BY <1>1, <1>2, <1>6, <1>s, <2>1, BegunKept DEF v
  <2>3. ~u.finished
    BY <2>1 DEF Begun, Grown
  <2>4. ASSUME ~e PROVE Reading(u.parser, u.argument, v, type)
    <3>1. Begun(u, arg, 4, 0, "NO_ARGS", type, FALSE)
      BY <1>1, <2>1, <2>4
    <3>2. QED
      BY <1>6, <2>1, <3>1, BegunReads DEF v
  <2>5. QED
    BY <2>2, <2>3, <2>4 DEF v
<1>7. CASE c = "part"
  <2>1. Begun(u, arg, 1, l, "RECOGNITION", type, e) /\ type = NotRecognized
    BY <1>3, <1>7
  <2>2. Kept(u, v, type)
    BY <1>1, <1>2, <1>7, <1>s, <2>1, BegunKept DEF v
  <2>3. ~u.finished
    BY <2>1 DEF Begun, Grown
  <2>4. QED
    BY <2>1, <2>2, <2>3 DEF v, Reading
<1>8. CASE c # "lf" /\ c # "name" /\ c # "part"
  <2>1. Begun(u, arg, 1, l, "ERROR", type, e) /\ type = NotRecognized
    BY <1>3, <1>8
  <2>2. Kept(u, v, type)
    BY <1>1, <1>2, <1>8, <1>s, <2>1, BegunKept DEF v
  <2>3. ~u.finished
    BY <2>1 DEF Begun, Grown
  <2>4. QED
    BY <2>1, <2>2, <2>3 DEF v, Reading
<1>9. QED
  BY <1>4, <1>5, <1>6, <1>7, <1>8

(* A line complete at LF ends in CR LF when a CR came last.                *)
LEMMA SuffixIs ==
  ASSUME NEW w \in Seq(Char), Len(w) >= 1
  PROVE  IsSuffix(<<"cr", "lf">>, Append(w, "lf")) <=> EndsInCr(w)
<1> DEFINE v == Append(w, "lf")
<1>0. "lf" \in Char
  BY DEF Char
<1>1. /\ v \in Seq(Char) /\ Len(v) = Len(w) + 1 /\ Len(w) \in Nat
      /\ \A i \in 1 .. Len(w) : v[i] = w[i]
      /\ v[Len(w) + 1] = "lf"
  BY <1>0, NewLast
<1> HIDE DEF v
<1>2. IsSuffix(<<"cr", "lf">>, v) <=> Len(v) >= 2 /\ v[Len(v) - 1] = "cr" /\ v[Len(v)] = "lf"
  BY <1>1, EndsInCrLf
<1>3. Len(v) - 1 = Len(w) /\ Len(w) \in 1 .. Len(w) /\ Len(v) >= 2
  BY <1>1
<1>4. v[Len(v) - 1] = w[Len(w)] /\ v[Len(v)] = "lf"
  BY <1>1, <1>3
<1>5. QED
  BY <1>2, <1>3, <1>4 DEF EndsInCr, v

(* What is between the name and CR LF.                                     *)
LEMMA RestIs ==
  ASSUME NEW w \in Seq(Char), EndsInCr(w), Len(w) >= 2
  PROVE  LET r == Rest(Append(w, "lf")) IN
         /\ r \in Seq(Char) /\ Len(r) = End(w) - 1 /\ End(w) \in Nat /\ End(w) = Len(w) - 1
         /\ \A i \in 1 .. End(w) - 1 : r[i] = w[i + 1]
<1> DEFINE v == Append(w, "lf")
           m == End(w)
<1>0. "lf" \in Char
  BY DEF Char
<1>1. /\ v \in Seq(Char) /\ Len(v) = Len(w) + 1 /\ Len(w) \in Nat
      /\ \A i \in 1 .. Len(w) : v[i] = w[i]
  BY <1>0, NewLast
<1>2. m = Len(w) - 1 /\ m \in Nat /\ m >= 1
  BY <1>1 DEF End
<1> HIDE DEF v, m
<1>3. Rest(v) = SubSeq(v, 2, m)
  <2>1. Len(v) - 2 = m
    BY <1>1, <1>2
  <2>2. QED
    BY <2>1 DEF Rest
<1>4. /\ SubSeq(v, 2, m) \in Seq(Char)
      /\ Len(SubSeq(v, 2, m)) = m - 1
      /\ \A i \in 1 .. m - 1 : SubSeq(v, 2, m)[i] = v[i + 1]
  BY <1>1, <1>2
<1>5. \A i \in 1 .. m - 1 : v[i + 1] = w[i + 1]
  BY <1>1, <1>2
<1>6. QED
  BY <1>2, <1>3, <1>4, <1>5 DEF v, m

(* The first and the last letter are among the letters.                    *)
LEMMA LettersBounds ==
  ASSUME NEW r \in Seq(Char), Letters(r) # {}
  PROVE  /\ Min(Letters(r)) \in Letters(r) /\ \A i \in Letters(r) : Min(Letters(r)) <= i
         /\ Max(Letters(r)) \in Letters(r) /\ \A i \in Letters(r) : Max(Letters(r)) >= i
<1> DEFINE S == Letters(r)
<1>1. S \in SUBSET Nat /\ Len(r) \in Nat /\ \A i \in S : i <= Len(r)
  BY DEF Letters
<1> HIDE DEF S
<1>2. S # {}
  BY DEF S
<1>3. (\E x \in S : \A y \in S : x <= y) /\ (\E x \in S : \A y \in S : x >= y)
  BY <1>1, <1>2, LeastExists, GreatestExists
<1>4. Min(S) \in S /\ \A i \in S : Min(S) <= i
  BY <1>3 DEF Min
<1>5. Max(S) \in S /\ \A i \in S : Max(S) >= i
  BY <1>3 DEF Max
<1>6. QED
  BY <1>4, <1>5 DEF S

(* The argument lies from lo to hi in the rest of the line.                *)
Lies(r, type, lo, hi) ==
  /\ lo \in Letters(r) /\ \A i \in Letters(r) : lo <= i
  /\ \A i \in Letters(r) : hi >= i
  /\ type = "PASS" => hi = Len(r)
  /\ type # "PASS" => hi \in Letters(r)

(* The argument the line has, by its bounds.                               *)
LEMMA SaidIs ==
  ASSUME NEW w, NEW type, Rest(w) \in Seq(Char)
  PROVE  /\ Letters(Rest(w)) = {} => Argument(w, type) = <<>>
         /\ Letters(Rest(w)) # {} =>
              \E lo, hi \in 1 .. Len(Rest(w)) :
                 /\ Lies(Rest(w), type, lo, hi) /\ lo <= hi
                 /\ Argument(w, type) = SubSeq(Rest(w), lo, hi)
<1> DEFINE r == Rest(w)
           lo == Min(Letters(r))
           hi == IF type = "PASS" THEN Len(r) ELSE Max(Letters(r))
<1>1. Argument(w, type) = IF Letters(r) = {} THEN <<>> ELSE SubSeq(r, lo, hi)
  BY DEF Argument
<1>r. r \in Seq(Char)
  OBVIOUS
<1> HIDE DEF r
<1>2. ASSUME Letters(r) # {}
      PROVE  \E x, y \in 1 .. Len(r) :
                 Lies(r, type, x, y) /\ x <= y /\ Argument(w, type) = SubSeq(r, x, y)
  <2>1. /\ lo \in Letters(r) /\ \A i \in Letters(r) : lo <= i
        /\ Max(Letters(r)) \in Letters(r) /\ \A i \in Letters(r) : Max(Letters(r)) >= i
    BY <1>2, <1>r, LettersBounds
  <2>2. Letters(r) \subseteq 1 .. Len(r) /\ Len(r) \in Nat
    BY <1>r DEF Letters
  <2>3. hi \in 1 .. Len(r) /\ \A i \in Letters(r) : hi >= i
    <3>1. CASE type = "PASS"
      BY <2>1, <2>2, <3>1
    <3>2. CASE type # "PASS"
      BY <2>1, <2>2, <3>2
    <3>3. QED
      BY <3>1, <3>2
  <2>4. type # "PASS" => hi \in Letters(r)
    BY <2>1
  <2>5. type = "PASS" => hi = Len(r)
    OBVIOUS
  <2>6. Argument(w, type) = SubSeq(r, lo, hi)
    BY <1>1, <1>2
  <2> HIDE DEF lo, hi
  <2>7. Lies(r, type, lo, hi)
    BY <2>1, <2>3, <2>4, <2>5 DEF Lies
  <2>8. lo \in 1 .. Len(r) /\ lo <= hi
    BY <2>1, <2>2, <2>3
  <2>9. QED
    BY <2>3, <2>6, <2>7, <2>8
<1>3. QED
  BY <1>1, <1>2 DEF r

(* What a line that is well formed is like.                                *)
LEMMA WellFormedIs ==
  ASSUME NEW w \in Seq(Char), Len(w) >= 1, w[1] = "name", NEW type \in Command,
         WellFormed(Append(w, "lf"), type)
  PROVE  /\ EndsInCr(w) /\ Len(w) + 3 <= MAX_MSG_SIZE
         /\ \A i \in 2 .. End(w) : w[i] # "lf"
         /\ (\A i \in 2 .. End(w) : w[i] = "sp") => min_args(type) = 0
         /\ (\E i \in 2 .. End(w) : w[i] # "sp") =>
              /\ max_args(type) = 1 /\ w[2] = "sp"
              /\ \E a, b \in 2 .. End(w) :
                   /\ a <= b /\ b - a + 1 < MAX_ARG_LENGTH
                   /\ \A i \in 2 .. End(w) : w[i] # "sp" => a <= i /\ i <= b
                   /\ type = "PASS" => b = End(w)
                   /\ type # "PASS" => \A i \in a .. b : w[i] # "sp"
<1> DEFINE v == Append(w, "lf")
           r == Rest(v)
           m == End(w)
           said == Argument(v, type)
<1>1. /\ IsSuffix(<<"cr", "lf">>, v)
      /\ ~Contains(r, "cr") /\ ~Contains(r, "lf")
      /\ Len(r) + 5 <= MAX_MSG_SIZE
      /\ IF said = <<>> THEN min_args(type) = 0
         ELSE /\ max_args(type) = 1 /\ r[1] = "sp"
              /\ Len(said) < MAX_ARG_LENGTH
              /\ type = "PASS" \/ ~Contains(said, "sp")
  BY DEF WellFormed
<1>2. EndsInCr(w) /\ Len(w) \in Nat
  BY <1>1, SuffixIs
<1>3. Len(w) >= 2
  BY <1>2 DEF EndsInCr
<1>4. /\ r \in Seq(Char) /\ Len(r) = m - 1 /\ m \in Nat /\ m = Len(w) - 1
      /\ \A i \in 1 .. m - 1 : r[i] = w[i + 1]
  BY <1>2, <1>3, RestIs
<1>5. /\ Letters(r) = {} => said = <<>>
      /\ Letters(r) # {} =>
           \E lo, hi \in 1 .. Len(r) :
              Lies(r, type, lo, hi) /\ lo <= hi /\ said = SubSeq(r, lo, hi)
  BY <1>4, SaidIs
<1> HIDE DEF v, r, m, said
<1>l. \A i \in 2 .. m : i - 1 \in 1 .. m - 1 /\ r[i - 1] = w[i]
  <2>1. ASSUME NEW i \in 2 .. m PROVE i - 1 \in 1 .. m - 1 /\ r[i - 1] = w[i]
    <3>1. i - 1 \in 1 .. m - 1 /\ (i - 1) + 1 = i
      BY <1>4
    <3>2. r[i - 1] = w[(i - 1) + 1]
      BY <1>4, <3>1
    <3>3. QED
      BY <3>1, <3>2
  <2>2. QED
    BY <2>1
<1>6. Len(w) + 3 <= MAX_MSG_SIZE
  BY <1>1, <1>4, SizesAssumption
<1>7. \A i \in 2 .. m : w[i] # "lf"
  BY <1>1, <1>4, <1>l DEF Contains
<1>8. ASSUME \A i \in 2 .. m : w[i] = "sp" PROVE min_args(type) = 0
  <2>1. \A i \in 1 .. m - 1 : i + 1 \in 2 .. m
    BY <1>4
  <2>2. Letters(r) = {}
    BY <1>4, <1>8, <2>1 DEF Letters
  <2>3. QED
    BY <1>1, <1>5, <2>2
<1>9. ASSUME NEW j \in 2 .. m, w[j] # "sp"
      PROVE  /\ max_args(type) = 1 /\ w[2] = "sp"
             /\ \E a, b \in 2 .. m :
                   /\ a <= b /\ b - a + 1 < MAX_ARG_LENGTH
                   /\ \A i \in 2 .. m : w[i] # "sp" => a <= i /\ i <= b
                   /\ type = "PASS" => b = m
                   /\ type # "PASS" => \A i \in a .. b : w[i] # "sp"
  <2>1. j - 1 \in Letters(r)
    BY <1>4, <1>9, <1>l DEF Letters
  <2>2. PICK lo \in 1 .. Len(r), hi \in 1 .. Len(r) :
            Lies(r, type, lo, hi) /\ lo <= hi /\ said = SubSeq(r, lo, hi)
    BY <1>5, <2>1
  <2>3. /\ lo \in 1 .. m - 1 /\ hi \in 1 .. m - 1 /\ lo <= hi
        /\ said = SubSeq(r, lo, hi)
    BY <1>4, <2>2
  <2>4. /\ Len(said) = hi - lo + 1
        /\ \A i \in 1 .. hi - lo + 1 : said[i] = r[lo + i - 1]
    BY <1>4, <2>3
  <2>5. said # <<>>
    BY <2>3, <2>4
  <2>6. /\ max_args(type) = 1 /\ r[1] = "sp" /\ Len(said) < MAX_ARG_LENGTH
        /\ type = "PASS" \/ ~Contains(said, "sp")
    BY <1>1, <2>5
  <2>7. 2 \in 2 .. m /\ 2 - 1 = 1
    BY <1>4
  <2>8. w[2] = "sp"
    BY <1>l, <2>6, <2>7
  <2> DEFINE a == lo + 1
             b == hi + 1
  <2>9. a \in 2 .. m /\ b \in 2 .. m /\ a <= b /\ b - a + 1 < MAX_ARG_LENGTH
    BY <1>4, <2>3, <2>4, <2>6, SizesAssumption
  <2>10. ASSUME NEW i \in 2 .. m, w[i] # "sp" PROVE a <= i /\ i <= b
    <3>1. i - 1 \in Letters(r)
      BY <1>4, <1>l, <2>10 DEF Letters
    <3>2. lo <= i - 1 /\ hi >= i - 1
      BY <2>2, <3>1 DEF Lies
    <3>3. QED
      BY <2>3, <3>2
  <2>11. type = "PASS" => b = m
    BY <1>4, <2>2, <2>3 DEF Lies
  <2>12. ASSUME type # "PASS", NEW i \in a .. b PROVE w[i] # "sp"
    <3>1. i - lo \in 1 .. hi - lo + 1 /\ lo + (i - lo) - 1 = i - 1 /\ i \in 2 .. m
      BY <1>4, <2>3
    <3>2. said[i - lo] = r[lo + (i - lo) - 1]
      BY <2>4, <3>1
    <3>3. said[i - lo] # "sp"
      BY <2>4, <2>6, <2>12, <3>1 DEF Contains
    <3>4. r[i - 1] = w[i]
      BY <1>l, <3>1
    <3>5. QED
      BY <3>1, <3>2, <3>3, <3>4
  <2> HIDE DEF a, b
  <2>13. QED
    BY <2>6, <2>8, <2>9, <2>10, <2>11, <2>12
<1>10. QED
  BY <1>2, <1>6, <1>7, <1>8, <1>9 DEF m

(* A line that is wrong is not well formed.                                *)
LEMMA WrongIsNot ==
  ASSUME NEW w \in Seq(Char), Len(w) >= 1, w[1] = "name", NEW type \in Command, Wrong(w, type)
  PROVE  ~WellFormed(Append(w, "lf"), type)
<1> SUFFICES ASSUME WellFormed(Append(w, "lf"), type) PROVE FALSE
  OBVIOUS
<1> DEFINE m == End(w)
<1>1. /\ EndsInCr(w) /\ Len(w) + 3 <= MAX_MSG_SIZE
      /\ \A i \in 2 .. m : w[i] # "lf"
      /\ (\A i \in 2 .. m : w[i] = "sp") => min_args(type) = 0
      /\ (\E i \in 2 .. m : w[i] # "sp") =>
           /\ max_args(type) = 1 /\ w[2] = "sp"
           /\ \E a, b \in 2 .. m :
                /\ a <= b /\ b - a + 1 < MAX_ARG_LENGTH
                /\ \A i \in 2 .. m : w[i] # "sp" => a <= i /\ i <= b
                /\ type = "PASS" => b = m
                /\ type # "PASS" => \A i \in a .. b : w[i] # "sp"
  BY WellFormedIs
<1>i. m \in Int
  BY DEF End
<1>2. \/ \E i \in 2 .. m : w[i] = "lf"
      \/ Len(w) + 3 > MAX_MSG_SIZE
      \/ max_args(type) = 0 /\ \E i \in 2 .. m : w[i] # "sp"
      \/ m >= 2 /\ w[2] # "sp"
      \/ type # "PASS" /\ \E i, j, k \in 2 .. m :
           i < j /\ j < k /\ w[i] # "sp" /\ w[j] = "sp" /\ w[k] # "sp"
      \/ \E i, j \in 2 .. m :
           w[i] # "sp" /\ (type = "PASS" \/ w[j] # "sp") /\ j - i + 1 >= MAX_ARG_LENGTH
      \/ min_args(type) = 1 /\ \A i \in 2 .. m : w[i] = "sp"
  BY DEF Wrong, Blank
<1> HIDE DEF m
<1>3. ASSUME m >= 2, w[2] # "sp" PROVE FALSE
  <2>1. 2 \in 2 .. m
    BY <1>i, <1>3
  <2>2. QED
    BY <1>1, <1>3, <2>1
<1>4. ASSUME type # "PASS", NEW i \in 2 .. m, NEW j \in 2 .. m, NEW k \in 2 .. m,
             i < j, j < k, w[i] # "sp", w[j] = "sp", w[k] # "sp"
      PROVE  FALSE
  <2>1. PICK a \in 2 .. m, b \in 2 .. m :
          /\ \A x \in 2 .. m : w[x] # "sp" => a <= x /\ x <= b
          /\ type # "PASS" => \A x \in a .. b : w[x] # "sp"
    BY <1>1, <1>4
  <2>2. a <= i /\ k <= b
    BY <1>4, <2>1
  <2>3. j \in a .. b
    BY <1>i, <1>4, <2>2
  <2>4. QED
    BY <1>4, <2>1, <2>3
<1>5. ASSUME NEW i \in 2 .. m, NEW j \in 2 .. m,
             w[i] # "sp", type = "PASS" \/ w[j] # "sp", j - i + 1 >= MAX_ARG_LENGTH
      PROVE  FALSE
  <2>1. PICK a \in 2 .. m, b \in 2 .. m :
          /\ a <= b /\ b - a + 1 < MAX_ARG_LENGTH
          /\ \A x \in 2 .. m : w[x] # "sp" => a <= x /\ x <= b
          /\ type = "PASS" => b = m
    BY <1>1, <1>5
  <2>2. a <= i
    BY <1>5, <2>1
  <2>3. j <= b
    BY <1>i, <1>5, <2>1
  <2>4. QED
    BY <1>i, <1>5, <2>1, <2>2, <2>3, SizesAssumption
<1>6. CASE type # "PASS" /\ \E i, j, k \in 2 .. m :
           i < j /\ j < k /\ w[i] # "sp" /\ w[j] = "sp" /\ w[k] # "sp"
  BY <1>4, <1>6
<1>7. CASE \E i, j \in 2 .. m :
           w[i] # "sp" /\ (type = "PASS" \/ w[j] # "sp") /\ j - i + 1 >= MAX_ARG_LENGTH
  BY <1>5, <1>7
<1>8. CASE max_args(type) = 0 /\ \E i \in 2 .. m : w[i] # "sp"
  BY <1>1, <1>8
<1>9. CASE min_args(type) = 1 /\ \A i \in 2 .. m : w[i] = "sp"
  BY <1>1, <1>9
<1>10. CASE Len(w) + 3 > MAX_MSG_SIZE
  <2>1. Len(w) \in Nat
    OBVIOUS
  <2>2. QED
    BY <1>1, <1>10, <2>1, SizesAssumption
<1>11. QED
  BY <1>1, <1>2, <1>3, <1>6, <1>7, <1>8, <1>9, <1>10

(* The rest of a line all of whose characters before CR LF are neither.    *)
LEMMA RestIsClean ==
  ASSUME NEW w \in Seq(Char), Len(w) >= 2, EndsInCr(w), Plain(w),
         \A i \in 2 .. End(w) : w[i] # "lf"
  PROVE  LET r == Rest(Append(w, "lf")) IN
         /\ ~Contains(r, "cr") /\ ~Contains(r, "lf") /\ Len(r) + 5 = Len(w) + 3
         /\ r \in Seq(Char) /\ Len(r) = End(w) - 1 /\ End(w) \in Nat
         /\ \A i \in 1 .. End(w) - 1 : r[i] = w[i + 1] /\ i + 1 \in 2 .. End(w)
<1> DEFINE v == Append(w, "lf")
           r == Rest(v)
           m == End(w)
<1>1. /\ r \in Seq(Char) /\ Len(r) = m - 1 /\ m \in Nat /\ m = Len(w) - 1
      /\ \A i \in 1 .. m - 1 : r[i] = w[i + 1]
  BY RestIs
<1> HIDE DEF v, r, m
<1>2. \A i \in 1 .. m - 1 : i + 1 \in 2 .. m /\ i + 1 \in 1 .. Len(w) - 1
  BY <1>1
<1>3. ~Contains(r, "cr") /\ ~Contains(r, "lf")
  BY <1>1, <1>2 DEF Contains, Plain, m
<1>4. Len(r) + 5 = Len(w) + 3
  BY <1>1
<1>5. QED
  BY <1>1, <1>2, <1>3, <1>4 DEF v, r, m

(* A line with one argument, which was written, is well formed and that    *)
(* is its argument.                                                        *)
LEMMA SpanIsSaid ==
  ASSUME NEW w \in Seq(Char), Len(w) >= 1, w[1] = "name", NEW type \in Command, type # "CAPA",
         EndsInCr(w), Plain(w), Len(w) + 3 <= MAX_MSG_SIZE,
         NEW arg \in Seq(Char), Len(arg) < MAX_ARG_LENGTH,
         NEW a \in 2 .. End(w), NEW b \in a .. End(w), Span(arg, w, type, a, b)
  PROVE  /\ WellFormed(Append(w, "lf"), type)
         /\ Argument(Append(w, "lf"), type) = arg /\ arg # <<>>
<1> DEFINE v == Append(w, "lf")
           r == Rest(v)
           m == End(w)
           said == Argument(v, type)
<1>1. /\ a > 2 /\ w[a] # "sp" /\ \A i \in 2 .. a - 1 : w[i] = "sp"
      /\ \A i \in b + 1 .. m : w[i] = "sp"
      /\ \A i \in a .. b : w[i] # "lf"
      /\ type # "PASS" => \A i \in a .. b : w[i] # "sp"
      /\ type = "PASS" => b = m
      /\ \A i \in 1 .. Len(arg) : arg[i] = w[a + i - 1]
  BY DEF Span
<1>a. Len(arg) = b - a + 1
  BY DEF Span
<1>2. Len(w) >= 2
  BY DEF EndsInCr
<1>m. a \in 2 .. m /\ b \in a .. m /\ m \in Int
  BY DEF End
<1>3. \A i \in 2 .. m : w[i] # "lf"
  <2>1. ASSUME NEW i \in 2 .. m PROVE w[i] # "lf"
    <3> HIDE DEF m
    <3>1. i \in 2 .. a - 1 \/ i \in a .. b \/ i \in b + 1 .. m
      BY <1>m
    <3>2. QED
      BY <1>1, <3>1
  <2>2. QED
    BY <2>1
<1>4. /\ ~Contains(r, "cr") /\ ~Contains(r, "lf") /\ Len(r) + 5 = Len(w) + 3
      /\ r \in Seq(Char) /\ Len(r) = m - 1
      /\ \A i \in 1 .. m - 1 : r[i] = w[i + 1] /\ i + 1 \in 2 .. m
  BY <1>2, <1>3, RestIsClean
<1>5. /\ Letters(r) # {} =>
           \E lo, hi \in 1 .. Len(r) :
              Lies(r, type, lo, hi) /\ lo <= hi /\ said = SubSeq(r, lo, hi)
  BY <1>4, SaidIs
<1>6. IsSuffix(<<"cr", "lf">>, v)
  BY SuffixIs
<1> HIDE DEF v, r, m, said
<1>7. a - 1 \in 1 .. m - 1 /\ (a - 1) + 1 = a /\ b - 1 \in 1 .. m - 1 /\ (b - 1) + 1 = b
      /\ 1 \in 1 .. m - 1 /\ b \in a .. b /\ 2 \in 2 .. a - 1
  BY <1>1, <1>m
<1>8. r[a - 1] = w[a] /\ r[b - 1] = w[b] /\ r[1] = w[2]
  BY <1>4, <1>7, SMTT(30)
<1>9. a - 1 \in Letters(r) /\ (type # "PASS" => b - 1 \in Letters(r))
  BY <1>1, <1>4, <1>7, <1>8 DEF Letters
<1>10. PICK lo \in 1 .. Len(r), hi \in 1 .. Len(r) :
          Lies(r, type, lo, hi) /\ lo <= hi /\ said = SubSeq(r, lo, hi)
  BY <1>5, <1>9
<1>o. \A i \in Letters(r) : i \in 1 .. m - 1 /\ w[i + 1] # "sp"
  BY <1>4 DEF Letters
<1>11. lo = a - 1
  <2>1. lo \in Letters(r) /\ lo <= a - 1
    BY <1>9, <1>10 DEF Lies
  <2>2. lo \in 1 .. m - 1 /\ w[lo + 1] # "sp"
    BY <1>o, <2>1
  <2>3. lo + 1 \notin 2 .. a - 1
    BY <1>1, <2>2
  <2>4. QED
    BY <1>m, <2>1, <2>2, <2>3
<1>12. hi = b - 1
  <2>1. CASE type = "PASS"
    BY <1>1, <1>4, <1>10, <2>1 DEF Lies
  <2>2. CASE type # "PASS"
    <3>1. hi \in Letters(r) /\ hi >= b - 1
      BY <1>9, <1>10, <2>2 DEF Lies
    <3>2. hi \in 1 .. m - 1 /\ w[hi + 1] # "sp"
      BY <1>o, <3>1
    <3>3. hi + 1 \notin b + 1 .. m
      BY <1>1, <3>2
    <3>4. QED
      BY <1>m, <3>1, <3>2, <3>3
  <2>3. QED
    BY <2>1, <2>2
<1>13. /\ said \in Seq(Char) /\ Len(said) = b - a + 1
       /\ \A i \in 1 .. b - a + 1 : said[i] = w[a + i - 1]
  <2>1. said = SubSeq(r, a - 1, b - 1)
    BY <1>10, <1>11, <1>12
  <2>2. /\ said \in Seq(Char) /\ Len(said) = b - a + 1
        /\ \A i \in 1 .. b - a + 1 : said[i] = r[(a - 1) + i - 1]
    BY <1>4, <1>7, <1>m, <2>1
  <2>3. ASSUME NEW i \in 1 .. b - a + 1 PROVE r[(a - 1) + i - 1] = w[a + i - 1]
    <3>1. (a - 1) + i - 1 \in 1 .. m - 1 /\ ((a - 1) + i - 1) + 1 = a + i - 1
      BY <1>m, <1>7
    <3>2. QED
      BY <1>4, <3>1
  <2>4. QED
    BY <2>2, <2>3
<1>14. said = arg
  <2>1. \A i \in 1 .. Len(said) : said[i] = arg[i]
    BY <1>1, <1>a, <1>13
  <2>2. Len(said) = Len(arg)
    BY <1>a, <1>13
  <2>3. QED
    BY <1>13, <2>1, <2>2, SeqEqual
<1>15. arg # <<>>
  BY <1>a, <1>m
<1>16. type = "PASS" \/ ~Contains(said, "sp")
  <2>1. ASSUME type # "PASS", NEW i \in 1 .. Len(said) PROVE said[i] # "sp"
    <3>1. a + i - 1 \in a .. b /\ said[i] = w[a + i - 1]
      BY <1>m, <1>13
    <3>2. QED
      BY <1>1, <2>1, <3>1
  <2>2. QED
    BY <2>1 DEF Contains
<1>17. max_args(type) = 1
  BY DEF Command, max_args
<1>18. r[1] = "sp"
  BY <1>1, <1>7, <1>8
<1>19. WellFormed(v, type)
  <2>1. type # NotRecognized
    BY DEF Command, NotRecognized
  <2>2. Len(r) + 5 <= MAX_MSG_SIZE
    BY <1>4
  <2>3. said # <<>> /\ Len(said) < MAX_ARG_LENGTH
    BY <1>14, <1>15
  <2>4. QED
    BY <1>4, <1>6, <1>16, <1>17, <1>18, <2>1, <2>2, <2>3 DEF WellFormed, r, said
<1>20. QED
  BY <1>14, <1>15, <1>19 DEF v, said

(* A line with no argument for a command that wants none is well formed.   *)
LEMMA BlankIsSaid ==
  ASSUME NEW w \in Seq(Char), Len(w) >= 1, w[1] = "name", NEW type \in Command, min_args(type) = 0,
         EndsInCr(w), Plain(w), Len(w) + 3 <= MAX_MSG_SIZE, Blank(w)
  PROVE  WellFormed(Append(w, "lf"), type) /\ Argument(Append(w, "lf"), type) = <<>>
<1> DEFINE v == Append(w, "lf")
           r == Rest(v)
           m == End(w)
           said == Argument(v, type)
<1>1. \A i \in 2 .. m : w[i] = "sp"
  BY DEF Blank
<1>2. Len(w) >= 2
  BY DEF EndsInCr
<1>3. \A i \in 2 .. m : w[i] # "lf"
  BY <1>1
<1>4. /\ ~Contains(r, "cr") /\ ~Contains(r, "lf") /\ Len(r) + 5 = Len(w) + 3
      /\ r \in Seq(Char) /\ Len(r) = m - 1
      /\ \A i \in 1 .. m - 1 : r[i] = w[i + 1] /\ i + 1 \in 2 .. m
  BY <1>2, <1>3, RestIsClean
<1>5. Letters(r) = {} => said = <<>>
  BY <1>4, SaidIs
<1>6. IsSuffix(<<"cr", "lf">>, v)
  BY SuffixIs
<1> HIDE DEF v, r, m, said
<1>7. Letters(r) = {}
  BY <1>1, <1>4 DEF Letters
<1>8. WellFormed(v, type)
  <2>1. type # NotRecognized
    BY DEF Command, NotRecognized
  <2>2. QED
    BY <1>4, <1>5, <1>6, <1>7, <2>1 DEF WellFormed, r, said
<1>9. QED
  BY <1>5, <1>7, <1>8 DEF v, said

(* What is made of a line that is complete is what the line says.          *)
ReadRight(q, arg, v, type) ==
  LET ok == q.state # "ERROR" /\ q.type # NotRecognized
      said == Argument(v, type)
  IN /\ ok <=> WellFormed(v, type)
     /\ ok => /\ q.type = type
              /\ q.args_count = IF said = <<>> THEN 0 ELSE 1
              /\ said # <<>> => arg = said

(* What the action handler finds in a parser that completed a line.        *)
LEMMA EndedIs ==
  ASSUME NEW f, NEW l, NEW n, NEW s, NEW y, NEW e, NEW arg, NEW u, Ended(u, arg, f, l, n, s, y, e)
  PROVE  /\ u.argument = arg /\ u.parser.type = y /\ u.parser.args_count = n
         /\ s # "WITH_ARGS" \/ ~(l > MAX_ARG_LENGTH) => u.parser.state = s
<1> DEFINE goes == IF s = "WITH_ARGS" /\ l > MAX_ARG_LENGTH THEN "ERROR" ELSE s
<1>1. u.argument = arg /\ Fields(u.parser, 0, f, l, n, goes, y, e)
  BY DEF Ended
<1>2. s # "WITH_ARGS" \/ ~(l > MAX_ARG_LENGTH) => goes = s
  OBVIOUS
<1> HIDE DEF goes
<1>3. u.parser.type = y /\ u.parser.args_count = n /\ u.parser.state = goes
  BY <1>1, FieldValues
<1>4. QED
  BY <1>1, <1>2, <1>3

(* At the LF of a line, what was read is what the line says.               *)
LEMMA EndReads ==
  ASSUME NEW p \in InputParser, NEW arg \in Seq(Char), NEW w \in Seq(Char), NEW c \in Char,
         NEW type \in Command \cup {NotRecognized}, NEW any,
         Place(p, w, type), Counted(p, arg), Plain(w), Reading(p, arg, w, type),
         NEW u, u = Fed(p, arg, c, any), u.finished
  PROVE  ReadRight(u.parser, u.argument, Append(w, c), type)
<1> DEFINE z == p.line_size
           f == p.correctly_formed
           l == p.arg_length
           n == p.args_count
           e == p.is_expecting_new_arg
           s == p.state
           l1 == l - 1
           v == Append(w, c)
<1>1. /\ f \in 0 .. 2 /\ l \in Int /\ n \in Nat /\ s \in States /\ l1 \in Int
      /\ e \in BOOLEAN /\ z \in Nat /\ z \in Int /\ l1 = l - 1
      /\ Fields(p, z, f, l, n, s, p.type, e)
  BY ParserFields
<1>2. /\ p.type = type /\ Len(w) >= 1 /\ z > 0
      /\ type # NotRecognized <=> w[1] = "name"
      /\ s = "RECOGNITION" => type = NotRecognized
      /\ type = NotRecognized => s \in {"RECOGNITION", "ERROR"}
  <2>1. Len(w) \in Nat /\ w # <<>>
    BY DEF Place
  <2>2. QED
    BY <2>1 DEF Place, SizeOf
<1>3. Fields(p, z, f, l, n, s, type, e)
  BY <1>1, <1>2
<1>4. type # NotRecognized => Reads(f, l, n, s, e, arg, w, type)
  BY DEF Reading
<1>5. s = "WITH_ARGS" => l <= MAX_ARG_LENGTH
  BY DEF Counted
<1> HIDE DEF z, f, l, n, e, s, l1, v
<1>n. ASSUME u.parser.type = NotRecognized, ~WellFormed(v, type)
      PROVE  ReadRight(u.parser, u.argument, v, type)
  BY <1>n DEF ReadRight
<1>6. CASE type = NotRecognized
  <2>1. ~WellFormed(v, type)
    BY <1>6 DEF WellFormed
  <2>2. CASE s = "RECOGNITION"
    <3>1. Fields(p, z, f, l, n, "RECOGNITION", type, e)
      BY <1>3, <2>2
    <3>2. /\ c = "lf" => Ended(u, arg, f, l - 1, n, "RECOGNITION", NotRecognized, e)
          /\ c # "lf" => Grown(u, arg, z, 1, f, l, n, "ERROR", type, e)
      BY <1>1, <1>2, <3>1, FedRecognition
    <3>3. c = "lf"
      BY <3>2 DEF Grown
    <3>4. u.parser.type = NotRecognized
      BY <3>2, <3>3, EndedIs
    <3>5. QED
      BY <1>n, <2>1, <3>4 DEF v
  <2>3. CASE s = "ERROR"
    <3>1. Fields(p, z, f, l, n, "ERROR", type, e)
      BY <1>3, <2>3
    <3> DEFINE g == IF c = "cr" /\ f = 0 THEN 1 ELSE 0
    <3>2. /\ c = "lf" => Ended(u, arg, f, l - 1, n, "ERROR", NotRecognized, e)
          /\ c # "lf" => Grown(u, arg, z, 1, g, l, n, "ERROR", type, e)
      BY <1>1, <3>1, FedError
    <3> HIDE DEF g
    <3>3. c = "lf"
      BY <3>2 DEF Grown
    <3>4. u.parser.type = NotRecognized
      BY <3>2, <3>3, EndedIs
    <3>5. QED
      BY <1>n, <2>1, <3>4 DEF v
  <2>4. QED
    BY <1>2, <1>6, <2>2, <2>3
<1>7. CASE type # NotRecognized
  <2>1. type \in Command /\ w[1] = "name"
    BY <1>2, <1>7
  <2>2. Reads(f, l, n, s, e, arg, w, type)
    BY <1>4, <1>7, SMTT(30)
  <2>3. s # "ERROR" => Len(w) + 3 <= MAX_MSG_SIZE /\ (f = 1 <=> EndsInCr(w))
    BY <2>2 DEF Reads
  <2>4. CASE s = "ERROR"
    <3>1. Fields(p, z, f, l, n, "ERROR", type, e)
      BY <1>3, <2>4
    <3> DEFINE g == IF c = "cr" /\ f = 0 THEN 1 ELSE 0
    <3>2. /\ c = "lf" => Ended(u, arg, f, l - 1, n, "ERROR", NotRecognized, e)
          /\ c # "lf" => Grown(u, arg, z, 1, g, l, n, "ERROR", type, e)
      BY <1>1, <3>1, FedError
    <3> HIDE DEF g
    <3>3. c = "lf"
      BY <3>2 DEF Grown
    <3>4. u.parser.type = NotRecognized
      BY <3>2, <3>3, EndedIs
    <3>5. Wrong(w, type)
      BY <2>2, <2>4 DEF Reads
    <3>6. ~WellFormed(v, type)
      BY <1>2, <2>1, <3>3, <3>5, WrongIsNot DEF v
    <3>7. QED
      BY <1>n, <3>4, <3>6 DEF v
  <2>5. CASE s = "NO_ARGS"
    <3>1. Fields(p, z, f, l, n, "NO_ARGS", type, e)
      BY <1>3, <2>5
    <3>2. c = "lf" /\ f = 1
      <4>1. CASE c = "sp"
        <5>1. Grown(u, arg, z, 1, f, l, n, "NO_ARGS", type, e)
          BY <1>1, <3>1, <4>1, FedNoArguments
        <5>2. QED
          BY <5>1 DEF Grown
      <4>2. CASE c = "cr" /\ f = 0
        <5>1. Grown(u, arg, z, 1, 1, l, n, "NO_ARGS", type, e)
          BY <1>1, <3>1, <4>2, FedNoArguments
        <5>2. QED
          BY <5>1 DEF Grown
      <4>3. CASE c # "sp" /\ ~(c = "cr" /\ f = 0) /\ ~(c = "lf" /\ f = 1)
        <5>1. Grown(u, arg, z, 1, f, l, n, "ERROR", type, e)
          BY <1>1, <3>1, <4>3, FedNoArguments
        <5>2. QED
          BY <5>1 DEF Grown
      <4>4. QED
        BY <4>1, <4>2, <4>3
    <3>3. Ended(u, arg, f, l - 1, n, "NO_ARGS", type, e)
      BY <1>1, <3>1, <3>2, FedNoArguments
    <3>4. /\ u.argument = arg /\ u.parser.type = type /\ u.parser.args_count = n
          /\ u.parser.state = "NO_ARGS"
      BY <3>3, EndedIs
    <3>5. n = 0 /\ Blank(w) /\ type \in {"CAPA", "LIST"}
      BY <2>2, <2>5 DEF Reads, NoArgument
    <3>6. WellFormed(v, type) /\ Argument(v, type) = <<>>
      BY <1>2, <2>1, <2>3, <2>5, <3>2, <3>5, BlankIsSaid DEF v, min_args
    <3>7. ReadRight(u.parser, u.argument, v, type)
      BY <1>7, <3>4, <3>5, <3>6 DEF ReadRight
    <3>8. QED
      BY <3>7 DEF v
  <2>6. CASE s = "WITH_ARGS"
    <3>1. Fields(p, z, f, l, n, "WITH_ARGS", type, e)
      BY <1>3, <2>6
    <3> DEFINE kind == IF n >= min_args(type) /\ n <= max_args(type) THEN type ELSE NotRecognized
    <3>2. c = "lf"
      <4> DEFINE goes == IF n = 0 /\ min_args(type) = 0 THEN "NO_ARGS"
                         ELSE IF ~(n >= min_args(type) /\ n <= max_args(type)) THEN "ERROR"
                         ELSE "WITH_ARGS"
                 more == Append(arg, c)
                 l2 == l + 1
                 l3 == (IF l = 0 THEN 1 ELSE l) + 1
                 m == n + 1
      <4>1. /\ c = "sp" /\ (type # "PASS" \/ n = 0) =>
                 Grown(u, arg, z, 1, f, l, n, "WITH_ARGS", type, Expecting)
            /\ c = "cr" => Grown(u, arg, z, 1, 1, l, n, goes, type, e)
        BY <1>1, <3>1, FedWithArguments
      <4>2. c \in {"x", "name", "part"} \/ (c = "sp" /\ type = "PASS" /\ n # 0) =>
              /\ ~e /\ l = 0 => Grown(u, arg, z, 1, 0, l, n, "ERROR", type, Settled)
              /\ ~e /\ l # 0 => Grown(u, more, z, 1, 0, l2, n, "WITH_ARGS", type, Settled)
              /\ e /\ n >= max_args(type) /\ l = 0 =>
                   Grown(u, arg, z, 1, 0, l, m, "ERROR", type, Settled)
              /\ e /\ n >= max_args(type) /\ l # 0 =>
                   Grown(u, more, z, 1, 0, l2, m, "ERROR", type, Settled)
              /\ e /\ ~(n >= max_args(type)) =>
                   Grown(u, more, z, 1, 0, l3, m, "WITH_ARGS", type, Settled)
        BY <1>1, <3>1, FedArgument
      <4> HIDE DEF goes, more, l2, l3, m
      <4>3. QED
        BY <4>1, <4>2 DEF Grown, Char
    <3>3. CASE f = 1
      <4>1. Ended(u, arg, 2, l1, n, "WITH_ARGS", kind, e)
        BY <1>1, <3>1, <3>2, <3>3, FedWithArgumentsLast
      <4>2. EndsInCr(w)
        BY <2>3, <2>6, <3>3
      <4>3. type # "CAPA" /\ Within(l, n, e, arg, w, type)
        BY <2>2, <2>6, <4>2 DEF Reads, Before
      <4>4. n = 1 /\ l = Len(arg) + 1
        BY <4>3 DEF Within
      <4>5. PICK a \in 2 .. End(w) : \E b \in a .. End(w) : Span(arg, w, type, a, b)
        BY <4>3 DEF Within
      <4>6. PICK b \in a .. End(w) : Span(arg, w, type, a, b)
        BY <4>5
      <4>7. kind = type
        BY <2>1, <4>3, <4>4 DEF min_args, max_args, Command
      <4>8. Len(arg) < MAX_ARG_LENGTH /\ ~(l1 > MAX_ARG_LENGTH)
        <5>1. Len(arg) \in Nat
          OBVIOUS
        <5>2. QED
          BY <1>1, <1>5, <2>6, <4>4, <5>1, SizesAssumption
      <4> HIDE DEF kind
      <4>9. /\ u.argument = arg /\ u.parser.type = type /\ u.parser.args_count = 1
            /\ u.parser.state = "WITH_ARGS"
        BY <4>1, <4>4, <4>7, <4>8, EndedIs
      <4>10. WellFormed(v, type) /\ Argument(v, type) = arg /\ arg # <<>>
        BY <1>2, <2>1, <2>3, <2>6, <3>2, <4>2, <4>3, <4>6, <4>8, SpanIsSaid DEF v
      <4>11. ReadRight(u.parser, u.argument, v, type)
        BY <1>7, <4>9, <4>10 DEF ReadRight
      <4>12. QED
        BY <4>11 DEF v
    <3>4. CASE f # 1
      <4>1. Ended(u, arg, 0, l1, n, "ERROR", NotRecognized, e)
        BY <1>1, <3>1, <3>2, <3>4, FedWithArgumentsLast
      <4>2. u.parser.type = NotRecognized
        BY <4>1, EndedIs
      <4>3. ~IsSuffix(<<"cr", "lf">>, v)
        BY <1>2, <2>3, <2>6, <3>2, <3>4, SuffixIs DEF v
      <4>4. ~WellFormed(v, type)
        BY <4>3 DEF WellFormed
      <4>5. QED
        BY <1>n, <4>2, <4>4 DEF v
    <3>5. QED
      BY <3>3, <3>4
  <2>7. QED
    BY <1>1, <1>2, <1>7, <2>4, <2>5, <2>6 DEF States
<1>8. QED
  BY <1>6, <1>7

(* The inductive invariant. Of a line that goes on, what every line keeps  *)
(* and, if it began well and has no CR inside, what its characters mean;   *)
(* of a line that is complete, what ReadsLinesRight asks. Between lines,   *)
(* nothing is left of the last one but arg_length and                      *)
(* is_expecting_new_arg.                                                   *)
ParserInv ==
  /\ parser \in InputParser /\ argument \in Seq(Char) /\ line \in Seq(Char)
  /\ finished \in BOOLEAN /\ stale \in BOOLEAN /\ named \in Command \cup {NotRecognized}
  /\ Len(argument) <= MAX_ARG_LENGTH
  /\ line = <<>> => ~finished /\ ~stale /\ parser.line_size = 0 /\ ~parser.is_expecting_new_arg
  /\ finished => parser.line_size = 0
  /\ ~finished /\ line # <<>> => Place(parser, line, named) /\ Counted(parser, argument)
  /\ ~finished /\ line # <<>> /\ ~stale /\ Plain(line) => Reading(parser, argument, line, named)
  /\ finished /\ ~stale /\ ~StrayCR => ReadRight(parser, argument, line, named)
  /\ CrLfEndsLine

(* At first there is no line.                                              *)
LEMMA InitInv == Init => ParserInv
<1> SUFFICES ASSUME Init PROVE ParserInv
  OBVIOUS
<1>1. parser_init \in InputParser /\ parser_init.line_size = 0 /\ parser_init.is_expecting_new_arg = FALSE
  BY DEF parser_init, InputParser, States, Command
<1>2. <<>> \in Seq(Char) /\ Len(<<>>) = 0
  OBVIOUS
<1>3. /\ parser = parser_init /\ argument = <<>> /\ finished = FALSE /\ line = <<>>
      /\ named = NotRecognized /\ stale = FALSE
  BY DEF Init
<1> HIDE DEF parser_init
<1>4. /\ parser \in InputParser /\ parser.line_size = 0 /\ ~parser.is_expecting_new_arg
  BY <1>1, <1>3
<1>5. CrLfEndsLine
  <2>1. 1 .. Len(line) - 2 = {}
    BY <1>2, <1>3
  <2>2. QED
    BY <2>1, Zenon DEF CrLfEndsLine
<1>6. Len(argument) <= MAX_ARG_LENGTH
  BY <1>2, <1>3, SizesAssumption
<1>7. /\ argument \in Seq(Char) /\ line \in Seq(Char) /\ finished \in BOOLEAN /\ stale \in BOOLEAN
      /\ named \in Command \cup {NotRecognized} /\ line = <<>> /\ ~finished /\ ~stale
  BY <1>2, <1>3
<1>8. QED
  BY <1>4, <1>5, <1>6, <1>7, Zenon DEF ParserInv

(* The first character of a line.                                          *)
LEMMA FirstStep ==
  ASSUME ParserInv, NEW c \in Char, NEW type \in Command \cup {NotRecognized},
         type # NotRecognized <=> c = "name", finished \/ line = <<>>, Feed(c, type)
  PROVE  ParserInv'
<1> DEFINE u == parser_feed(c, type)
           v == Append(<<>>, c)
<1>1. u = check_size(Transition(new_line(parser), argument, c, type), Size(new_line(parser), c))
  BY FeedIs
<1>2. /\ parser' = u.parser /\ argument' = u.argument /\ finished' = u.finished
      /\ line' = v /\ named' = type
      /\ stale' = IF finished THEN parser.is_expecting_new_arg ELSE stale
  BY DEF Feed
<1>3. /\ parser \in InputParser /\ argument \in Seq(Char) /\ Len(argument) <= MAX_ARG_LENGTH
      /\ finished \in BOOLEAN /\ stale \in BOOLEAN
      /\ line = <<>> => ~finished /\ ~stale /\ parser.line_size = 0 /\ ~parser.is_expecting_new_arg
      /\ finished => parser.line_size = 0
  BY DEF ParserInv
<1> HIDE DEF u, v
<1>4. /\ Kept(u, v, type)
      /\ ~u.finished /\ ~parser.is_expecting_new_arg => Reading(u.parser, u.argument, v, type)
      /\ u.finished => c = "lf" /\ u.parser.type = NotRecognized
  <2>1. parser.line_size = 0
    BY <1>3
  <2>2. QED
    BY <1>1, <1>3, <2>1, FirstKept DEF v
<1>5. v \in Seq(Char) /\ Len(v) = 1 /\ v # <<>>
  BY FirstLine DEF v
<1>6. stale' \in BOOLEAN /\ (~stale' => ~parser.is_expecting_new_arg)
  <2>1. parser.is_expecting_new_arg \in BOOLEAN
    BY <1>3, ParserFields
  <2>2. QED
    BY <1>2, <1>3, <2>1
<1>7. /\ u.parser \in InputParser /\ u.argument \in Seq(Char) /\ u.finished \in BOOLEAN
      /\ Len(u.argument) <= MAX_ARG_LENGTH
      /\ u.finished => u.parser.line_size = 0
      /\ ~u.finished => Place(u.parser, v, type) /\ Counted(u.parser, u.argument)
  BY <1>4 DEF Kept
<1>8. u.finished => ReadRight(u.parser, u.argument, v, type)
  <2>1. u.finished => type = NotRecognized /\ u.parser.type = NotRecognized
    BY <1>4
  <2>2. QED
    BY <2>1 DEF ReadRight, WellFormed
<1>9. CrLfEndsLine'
  BY <1>2, <1>5 DEF CrLfEndsLine
<1>10. /\ parser' \in InputParser /\ argument' \in Seq(Char) /\ line' \in Seq(Char)
       /\ finished' \in BOOLEAN /\ stale' \in BOOLEAN /\ named' \in Command \cup {NotRecognized}
       /\ Len(argument') <= MAX_ARG_LENGTH /\ line' # <<>>
       /\ finished' => parser'.line_size = 0
  BY <1>2, <1>5, <1>6, <1>7
<1>11. /\ ~finished' => Place(parser', line', named') /\ Counted(parser', argument')
       /\ ~finished' /\ ~stale' => Reading(parser', argument', line', named')
       /\ finished' => ReadRight(parser', argument', line', named')
  BY <1>2, <1>4, <1>6, <1>7, <1>8
<1>12. QED
  BY <1>9, <1>10, <1>11 DEF ParserInv

(* The later ones.                                                         *)
LEMMA LaterStep ==
  ASSUME ParserInv, NEW c \in Char, NEW type, ~(finished \/ line = <<>>), Feed(c, type)
  PROVE  ParserInv'
<1> DEFINE u == parser_feed(c, type)
           v == Append(line, c)
<1>1. u = check_size(Transition(new_line(parser), argument, c, type), Size(new_line(parser), c))
  BY FeedIs
<1>2. /\ parser' = u.parser /\ argument' = u.argument /\ finished' = u.finished
      /\ line' = v /\ named' = named /\ stale' = stale
  BY DEF Feed
<1>3. /\ parser \in InputParser /\ argument \in Seq(Char) /\ line \in Seq(Char)
      /\ stale \in BOOLEAN /\ named \in Command \cup {NotRecognized}
      /\ Place(parser, line, named) /\ Counted(parser, argument)
      /\ ~stale /\ Plain(line) => Reading(parser, argument, line, named)
  BY DEF ParserInv
<1> HIDE DEF u, v
<1>4. u = Fed(parser, argument, c, type)
  <2>1. Len(line) \in Nat /\ line # <<>>
    BY <1>3
  <2>2. parser.line_size # 0
    BY <1>3, <2>1 DEF Place, SizeOf
  <2>3. QED
    BY <1>1, <2>2, FedLater
<1>5. Kept(u, v, named)
  BY <1>3, <1>4, LaterKept DEF v
<1>6. /\ u.parser \in InputParser /\ u.argument \in Seq(Char) /\ u.finished \in BOOLEAN
      /\ Len(u.argument) <= MAX_ARG_LENGTH
      /\ u.finished => u.parser.line_size = 0
      /\ ~u.finished => Place(u.parser, v, named) /\ Counted(u.parser, u.argument)
  BY <1>5 DEF Kept
<1>7. /\ v \in Seq(Char) /\ Len(v) = Len(line) + 1 /\ Len(line) \in Nat /\ v # <<>>
      /\ \A i \in 1 .. Len(line) : v[i] = line[i]
  BY <1>3, NewLast DEF v
<1>8. ASSUME ~u.finished, ~stale, Plain(v) PROVE Reading(u.parser, u.argument, v, named)
  <2>1. Fluent(line)
    BY <1>3, <1>8, PlainIsFluent DEF v
  <2>2. Plain(line)
    BY <1>3, <2>1 DEF Plain, Fluent
  <2>3. QED
    BY <1>3, <1>4, <1>8, <2>1, <2>2, LaterReads DEF v
<1>9. ASSUME u.finished, ~stale, \A i \in 1 .. Len(v) - 2 : v[i] # "cr"
      PROVE  ReadRight(u.parser, u.argument, v, named)
  <2>1. Plain(line)
    <3>1. Len(v) - 2 = Len(line) - 1
      BY <1>7
    <3>2. \A i \in 1 .. Len(line) - 1 : i \in 1 .. Len(line) /\ v[i] # "cr"
      BY <1>7, <1>9, <3>1
    <3>3. QED
      BY <1>7, <3>2 DEF Plain
  <2>2. QED
    BY <1>3, <1>4, <1>9, <2>1, EndReads DEF v
<1>10. CrLfEndsLine'
  <2>1. \A i \in 1 .. Len(line) - 1 : ~(line[i] = "cr" /\ line[i + 1] = "lf")
    BY <1>3 DEF Place
  <2>2. \A i \in 1 .. Len(line) - 1 : i \in 1 .. Len(line) /\ i + 1 \in 1 .. Len(line)
    BY <1>7
  <2>3. Len(v) - 2 = Len(line) - 1
    BY <1>7
  <2>4. ASSUME NEW i \in 1 .. Len(v) - 2 PROVE ~(v[i] = "cr" /\ v[i + 1] = "lf")
    <3>1. i \in 1 .. Len(line) - 1
      BY <2>3
    <3>2. v[i] = line[i] /\ v[i + 1] = line[i + 1]
      BY <1>7, <2>2, <3>1
    <3>3. QED
      BY <2>1, <3>1, <3>2
  <2>5. QED
    BY <1>2, <2>4 DEF CrLfEndsLine
<1>11. StrayCR' <=> \E i \in 1 .. Len(v) - 2 : v[i] = "cr"
  BY <1>2 DEF StrayCR
<1>12. /\ parser' \in InputParser /\ argument' \in Seq(Char) /\ line' \in Seq(Char)
       /\ finished' \in BOOLEAN /\ stale' \in BOOLEAN /\ named' \in Command \cup {NotRecognized}
       /\ Len(argument') <= MAX_ARG_LENGTH /\ line' # <<>>
       /\ finished' => parser'.line_size = 0
  BY <1>2, <1>3, <1>6, <1>7
<1>13. /\ ~finished' => Place(parser', line', named') /\ Counted(parser', argument')
       /\ ~finished' /\ ~stale' /\ Plain(line') => Reading(parser', argument', line', named')
       /\ finished' /\ ~stale' /\ ~StrayCR' => ReadRight(parser', argument', line', named')
  BY <1>2, <1>6, <1>8, <1>9, <1>11
<1>14. QED
  BY <1>10, <1>12, <1>13 DEF ParserInv

(* Every character keeps the invariant.                                    *)
LEMMA StepInv == ParserInv /\ [Next]_vars => ParserInv'
<1> SUFFICES ASSUME ParserInv, [Next]_vars PROVE ParserInv'
  OBVIOUS
<1>1. ASSUME NEW c \in Char, NEW type \in (IF c = "name" THEN Command ELSE {NotRecognized}), Feed(c, type)
      PROVE  ParserInv'
  <2>1. type \in Command \cup {NotRecognized} /\ (type # NotRecognized <=> c = "name")
    BY DEF Command, NotRecognized
  <2>2. CASE finished \/ line = <<>>
    BY <1>1, <2>1, <2>2, FirstStep
  <2>3. CASE ~(finished \/ line = <<>>)
    BY <1>1, <2>3, LaterStep
  <2>4. QED
    BY <2>2, <2>3
<1>2. CASE UNCHANGED vars
  BY <1>2 DEF vars, ParserInv, CrLfEndsLine, StrayCR
<1>3. QED
  BY <1>1, <1>2 DEF Next

(* So it holds.                                                            *)
LEMMA ParserInvHolds == Spec => []ParserInv
BY InitInv, StepInv, PTL DEF Spec

(* Whatever is sent, the machine is in one of its four states, has         *)
(* recognised one of its commands or none, and between two calls           *)
(* line_size is never the -1 that handle_parsed() leaves (parser.c:88).    *)
THEOREM ParserTypes == Spec => []TypeOK
<1>1. ParserInv => TypeOK
  BY ParserFields DEF ParserInv, TypeOK, States
<1>2. QED
  BY <1>1, ParserInvHolds, PTL

(* Of every line, whatever its length, the limits and the lines before     *)
(* it, the parser accepts exactly those that are a command, with the type  *)
(* and the argument the line says (parser.c:63).  Left out are, as in the  *)
(* property, lines with a CR inside and those after a line that ended      *)
(* while an argument was expected.                                         *)
THEOREM LinesAreReadRight == Spec => []ReadsLinesRight
<1>1. ParserInv => ReadsLinesRight
  BY DEF ParserInv, ReadsLinesRight, ReadRight, accepted
<1>2. QED
  BY <1>1, ParserInvHolds, PTL

(* A line that ends in CR LF is over: nothing pipelined after it is read   *)
(* as a part of it, whatever the state of the machine and the length of    *)
(* the line.                                                               *)
THEOREM LinesEnd == Spec => []CrLfEndsLine
<1>1. ParserInv => CrLfEndsLine
  BY DEF ParserInv
<1>2. QED
  BY <1>1, ParserInvHolds, PTL

(* However long the lines are, what parser_feed() writes and the zero      *)
(* after it stay within the MAX_ARG_LENGTH + 1 bytes of the argument,      *)
(* although the first character of an argument too many is written too.    *)
THEOREM ArgumentsFit == Spec => []ArgumentFits
<1>1. ParserInv => ArgumentFits
  BY DEF ParserInv, ArgumentFits
<1>2. QED
  BY <1>1, ParserInvHolds, PTL
=============================================================================
