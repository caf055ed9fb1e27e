-------------------------- MODULE ConnectionProofs --------------------------
(***************************************************************************)
(* Theorems about Connection, for any script, buffers and client.          *)
(*                                                                         *)
(* An answer is written in parts: each is a run of consecutive units that  *)
(* continues where the last one ended (Progress).  The first lemmas are    *)
(* about runs; then what running a command does (Ran), what parsing one    *)
(* does (Asked) and what the write handler does (AfterSend) are each shown *)
(* once, and every invariant below is kept because of these: Base, the     *)
(* shape of client_data and the place in the stream of commands; Session,  *)
(* what left and what the client may send; and Exact, the answers          *)
(* themselves.                                                             *)
(***************************************************************************)
EXTENDS Connection, SequenceTheorems, TLAPS

(* Units of answers; a part of an answer is a run of consecutive ones.     *)
Unit == Nat \X Nat

(* u are n units of the answer to command k, those after the p-th.         *)
Run(u, k, p, n) ==
  /\ u \in Seq(Unit) /\ Len(u) = n
  /\ \A x \in 1 .. n : u[x] = <<k, p + x>>

(* Sequences by another name, whose concatenation the provers do not       *)
(* compute but reason about.                                               *)
ListsOf(S) == Seq(S)

LEMMA Associative ==
  ASSUME NEW S
  PROVE  \A s, t, u \in ListsOf(S) : (s \o t) \o u = s \o (t \o u)
BY ConcatAssociative DEF ListsOf

(* What Units writes is a run.                                             *)
LEMMA UnitsRun ==
  ASSUME NEW k \in Nat, NEW p \in Nat, NEW n \in Nat, NEW i, i = p + 1, NEW j, j = p + n
  PROVE  Run(Units(k, i, j), k, p, n)
<1>1. (IF j < i THEN 0 ELSE j - i + 1) = n
  OBVIOUS
<1>2. \A x \in 1 .. n : x + i - 1 = p + x
  OBVIOUS
<1>3. Units(k, i, j) = [x \in 1 .. n |-> <<k, p + x>>]
  BY <1>1, <1>2 DEF Units
<1>4. \A x \in 1 .. n : <<k, p + x>> \in Unit
  BY DEF Unit
<1>5. [x \in 1 .. n |-> <<k, p + x>>] \in Seq(Unit) /\ Len([x \in 1 .. n |-> <<k, p + x>>]) = n
  BY <1>4
<1>6. QED
  BY <1>3, <1>5 DEF Run

(* A run is determined by its start and length.                            *)
LEMMA RunUnique ==
  ASSUME NEW k, NEW p, NEW n, NEW u, NEW v, Run(u, k, p, n), Run(v, k, p, n)
  PROVE  u = v
BY SeqEqual DEF Run

(* Two runs that meet are one.                                             *)
LEMMA RunConcat ==
  ASSUME NEW k \in Nat, NEW p \in Nat, NEW n \in Nat, NEW m \in Nat,
         NEW a, NEW b, Run(a, k, p, n), Run(b, k, p + n, m)
  PROVE  Run(a \o b, k, p, n + m)
<1>1. /\ a \in Seq(Unit) /\ Len(a) = n /\ \A x \in 1 .. n : a[x] = <<k, p + x>>
      /\ b \in Seq(Unit) /\ Len(b) = m /\ \A x \in 1 .. m : b[x] = <<k, (p + n) + x>>
  BY DEF Run
<1>2. /\ a \o b \in Seq(Unit) /\ Len(a \o b) = n + m
      /\ \A x \in 1 .. n + m : (a \o b)[x] = IF x <= n THEN a[x] ELSE b[x - n]
  BY <1>1, ConcatProperties
<1>3. ASSUME NEW x \in 1 .. n + m PROVE (a \o b)[x] = <<k, p + x>>
  <2>1. CASE x <= n
    BY <1>1, <1>2, <2>1
  <2>2. CASE ~(x <= n)
    <3>1. x - n \in 1 .. m /\ (p + n) + (x - n) = p + x
      BY <2>2
    <3>2. b[x - n] = <<k, (p + n) + (x - n)>>
      BY <1>1, <3>1
    <3>3. QED
      BY <1>2, <2>2, <3>1, <3>2
  <2>3. QED
    BY <2>1, <2>2
<1>4. QED
  BY <1>2, <1>3 DEF Run

(* Both halves of a run are runs.                                          *)
LEMMA RunCut ==
  ASSUME NEW k \in Nat, NEW p \in Nat, NEW n \in Nat, NEW a, Run(a, k, p, n), NEW m \in 0 .. n
  PROVE  /\ Run(SubSeq(a, 1, m), k, p, m)
         /\ Run(SubSeq(a, m + 1, n), k, p + m, n - m)
<1>1. a \in Seq(Unit) /\ Len(a) = n /\ \A x \in 1 .. n : a[x] = <<k, p + x>>
  BY DEF Run
<1>2. /\ SubSeq(a, 1, m) \in Seq(Unit) /\ Len(SubSeq(a, 1, m)) = m
      /\ \A x \in 1 .. m : SubSeq(a, 1, m)[x] = a[x]
  BY <1>1
<1>3. /\ SubSeq(a, m + 1, n) \in Seq(Unit) /\ Len(SubSeq(a, m + 1, n)) = n - m
      /\ \A x \in 1 .. n - m : SubSeq(a, m + 1, n)[x] = a[m + x]
  BY <1>1
<1>4. \A x \in 1 .. n - m : m + x \in 1 .. n /\ p + (m + x) = (p + m) + x
  OBVIOUS
<1>5. \A x \in 1 .. m : x \in 1 .. n
  OBVIOUS
<1>6. \A x \in 1 .. m : SubSeq(a, 1, m)[x] = <<k, p + x>>
  BY <1>1, <1>2, <1>5
<1>7. \A x \in 1 .. n - m : SubSeq(a, m + 1, n)[x] = <<k, (p + m) + x>>
  BY <1>1, <1>3, <1>4
<1>8. QED
  BY <1>2, <1>3, <1>6, <1>7 DEF Run

(* What is sent and what is left to send.                                  *)
LEMMA Resplit ==
  ASSUME NEW S, NEW s \in Seq(S), NEW b \in Seq(S), NEW n \in 0 .. Len(b)
  PROVE  /\ (s \o SubSeq(b, 1, n)) \o SubSeq(b, n + 1, Len(b)) = s \o b
         /\ s \o SubSeq(b, 1, n) \in Seq(S)
<1> DEFINE h == SubSeq(b, 1, n)
           t == SubSeq(b, n + 1, Len(b))
<1>1. /\ h \in Seq(S) /\ Len(h) = n
      /\ \A x \in 1 .. n : h[x] = b[x]
  OBVIOUS
<1>2. /\ t \in Seq(S) /\ Len(t) = Len(b) - n
      /\ \A x \in 1 .. Len(b) - n : t[x] = b[n + x]
  OBVIOUS
<1> HIDE DEF h, t
<1>3. /\ h \o t \in Seq(S) /\ Len(h \o t) = Len(b)
      /\ \A x \in 1 .. Len(b) : (h \o t)[x] = IF x <= n THEN h[x] ELSE t[x - n]
  BY <1>1, <1>2, ConcatProperties
<1>4. \A x \in 1 .. Len(b) : (h \o t)[x] = b[x]
  BY <1>1, <1>2, <1>3
<1>5. h \o t = b
  BY <1>3, <1>4, SeqEqual
<1>6. (s \o h) \o t = s \o (h \o t)
  <2> DEFINE T == ListsOf(S)
  <2>1. \A x, y, z \in T : (x \o y) \o z = x \o (y \o z)
    BY Associative
  <2>2. s \in T /\ h \in T /\ t \in T
    BY <1>1, <1>2 DEF ListsOf
  <2> HIDE DEF T
  <2>3. QED
    BY <2>1, <2>2, Zenon
<1>7. s \o h \in Seq(S)
  BY <1>1, ConcatProperties
<1>8. QED
  BY <1>5, <1>6, <1>7 DEF h, t

-----------------------------------------------------------------------------
(* The order of the units that leave. *)

(* The order of units in the answers.                                      *)
Less(u, v) == u[1] < v[1] \/ (u[1] = v[1] /\ u[2] < v[2])

Increasing(s) == \A i, j \in 1 .. Len(s) : i < j => Less(s[i], s[j])

(* Nothing in s is past the p-th unit of the answer to command k.          *)
Reached(s, k, p) ==
  \A i \in 1 .. Len(s) : s[i][1] < k \/ (s[i][1] = k /\ s[i][2] <= p)

(* u leads from the p-th unit of answer k to at most the r-th.             *)
Steps(u, k, p, r) ==
  /\ u \in Seq(Unit) /\ k \in Nat /\ p \in Nat /\ r \in Nat /\ p <= r
  /\ \A i \in 1 .. Len(u) : u[i][1] = k /\ p < u[i][2] /\ u[i][2] <= r
  /\ \A i, j \in 1 .. Len(u) : i < j => u[i][2] < u[j][2]

LEMMA UnitFields == ASSUME NEW s \in Seq(Unit), NEW i \in 1 .. Len(s)
  PROVE s[i][1] \in Nat /\ s[i][2] \in Nat
BY DEF Unit

LEMMA NoSteps ==
  ASSUME NEW k \in Nat, NEW p \in Nat, NEW r \in Nat, p <= r
  PROVE  Steps(<<>>, k, p, r)
BY DEF Steps

(* A run goes up, and stays within its bounds.                             *)
LEMMA RunSteps ==
  ASSUME NEW u, NEW k \in Nat, NEW p \in Nat, NEW n \in Nat, Run(u, k, p, n),
         NEW r \in Nat, p + n <= r
  PROVE  Steps(u, k, p, r)
<1>1. /\ u \in Seq(Unit) /\ Len(u) = n /\ p <= r
      /\ \A i \in 1 .. n : u[i][1] = k /\ u[i][2] = p + i
  BY DEF Run
<1>2. QED
  BY <1>1 DEF Steps

(* So do two parts that follow one another.                                *)
LEMMA StepsConcat ==
  ASSUME NEW u, NEW v, NEW k, NEW p, NEW q, NEW r, Steps(u, k, p, q), Steps(v, k, q, r)
  PROVE  Steps(u \o v, k, p, r)
<1>1. /\ u \in Seq(Unit) /\ v \in Seq(Unit) /\ k \in Nat /\ p \in Nat /\ q \in Nat /\ r \in Nat
      /\ p <= q /\ q <= r
      /\ \A i \in 1 .. Len(u) : u[i][1] = k /\ p < u[i][2] /\ u[i][2] <= q
      /\ \A i \in 1 .. Len(v) : v[i][1] = k /\ q < v[i][2] /\ v[i][2] <= r
      /\ \A i, j \in 1 .. Len(u) : i < j => u[i][2] < u[j][2]
      /\ \A i, j \in 1 .. Len(v) : i < j => v[i][2] < v[j][2]
  BY DEF Steps
<1> DEFINE w == u \o v
           n == Len(u)
           m == Len(v)
<1>2. n \in Nat /\ m \in Nat
  BY <1>1
<1>3. /\ w \in Seq(Unit) /\ Len(w) = n + m
      /\ \A i \in 1 .. n + m : w[i] = IF i <= n THEN u[i] ELSE v[i - n]
  BY <1>1, ConcatProperties
<1>4. /\ \A i \in 1 .. n : u[i][2] \in Nat
      /\ \A i \in 1 .. m : v[i][2] \in Nat
  BY <1>1, UnitFields
<1> HIDE DEF w, n, m
<1>5. ASSUME NEW i \in 1 .. n + m PROVE w[i][1] = k /\ p < w[i][2] /\ w[i][2] <= r
  <2>1. CASE i <= n
    <3>1. i \in 1 .. n /\ w[i] = u[i]
      BY <1>2, <1>3, <2>1
    <3>2. QED
      BY <1>1, <1>4, <3>1 DEF n
  <2>2. CASE ~(i <= n)
    <3>1. i - n \in 1 .. m /\ w[i] = v[i - n]
      BY <1>2, <1>3, <2>2
    <3>2. QED
      BY <1>1, <1>4, <3>1 DEF m
  <2>3. QED
    BY <2>1, <2>2
<1>6. ASSUME NEW i \in 1 .. n + m, NEW j \in 1 .. n + m, i < j PROVE w[i][2] < w[j][2]
  <2>1. CASE j <= n
    <3>1. i \in 1 .. n /\ j \in 1 .. n /\ w[i] = u[i] /\ w[j] = u[j]
      BY <1>2, <1>3, <1>6, <2>1
    <3>2. QED
      BY <1>1, <1>6, <3>1 DEF n
  <2>2. CASE ~(i <= n)
    <3>1. i - n \in 1 .. m /\ j - n \in 1 .. m /\ w[i] = v[i - n] /\ w[j] = v[j - n] /\ i - n < j - n
      BY <1>2, <1>3, <1>6, <2>2
    <3>2. QED
      BY <1>1, <3>1 DEF m
  <2>3. CASE i <= n /\ ~(j <= n)
    <3>1. i \in 1 .. n /\ j - n \in 1 .. m /\ w[i] = u[i] /\ w[j] = v[j - n]
      BY <1>2, <1>3, <2>3
    <3>2. w[i][2] <= q /\ q < w[j][2] /\ w[i][2] \in Nat /\ w[j][2] \in Nat
      BY <1>1, <1>4, <3>1 DEF n, m
    <3>3. QED
      BY SMTT(30), <1>1, <3>2
  <2>4. QED
    BY <2>1, <2>2, <2>3
<1>7. QED
  <2>1. p <= r
    BY <1>1
  <2>2. QED
    BY <1>1, <1>3, <1>5, <1>6, <2>1 DEF Steps, w

(* and the beginning of one.                                               *)
LEMMA StepsPrefix ==
  ASSUME NEW u, NEW k, NEW p, NEW r, Steps(u, k, p, r), NEW n \in 0 .. Len(u)
  PROVE  Steps(SubSeq(u, 1, n), k, p, r)
<1>1. u \in Seq(Unit)
  BY DEF Steps
<1>2. /\ SubSeq(u, 1, n) \in Seq(Unit) /\ Len(SubSeq(u, 1, n)) = n
      /\ \A i \in 1 .. n : i \in 1 .. Len(u) /\ SubSeq(u, 1, n)[i] = u[i]
  BY <1>1
<1>3. QED
  BY <1>2 DEF Steps

(* What goes up stays so when the next part of the answer, or the first    *)
(* part of a later one, is put behind it.                                  *)
LEMMA Extend ==
  ASSUME NEW s \in Seq(Unit), NEW u, NEW k, NEW p, NEW r,
         Increasing(s), Reached(s, k, p), Steps(u, k, p, r)
  PROVE  Increasing(s \o u) /\ Reached(s \o u, k, r)
<1>1. /\ u \in Seq(Unit) /\ k \in Nat /\ p \in Nat /\ r \in Nat /\ p <= r
      /\ \A i \in 1 .. Len(u) : u[i][1] = k /\ p < u[i][2] /\ u[i][2] <= r
      /\ \A i, j \in 1 .. Len(u) : i < j => u[i][2] < u[j][2]
  BY DEF Steps
<1> DEFINE w == s \o u
           n == Len(s)
           m == Len(u)
<1>2. n \in Nat /\ m \in Nat
  BY <1>1
<1>3. /\ w \in Seq(Unit) /\ Len(w) = n + m
      /\ \A i \in 1 .. n + m : w[i] = IF i <= n THEN s[i] ELSE u[i - n]
  BY <1>1, ConcatProperties
<1>4. /\ \A i \in 1 .. n : s[i][1] \in Nat /\ s[i][2] \in Nat
      /\ \A i \in 1 .. m : u[i][1] \in Nat /\ u[i][2] \in Nat
  BY <1>1, UnitFields
<1>5. \A i \in 1 .. n : s[i][1] < k \/ (s[i][1] = k /\ s[i][2] <= p)
  BY DEF Reached
<1> HIDE DEF w, n, m
<1>6. ASSUME NEW i \in 1 .. n + m PROVE w[i][1] < k \/ (w[i][1] = k /\ w[i][2] <= r)
  <2>1. CASE i <= n
    <3>1. i \in 1 .. n /\ w[i] = s[i]
      BY <1>2, <1>3, <2>1
    <3>2. QED
      BY <1>1, <1>4, <1>5, <3>1
  <2>2. CASE ~(i <= n)
    <3>1. i - n \in 1 .. m /\ w[i] = u[i - n]
      BY <1>2, <1>3, <2>2
    <3>2. QED
      BY <1>1, <1>4, <3>1 DEF m
  <2>3. QED
    BY <2>1, <2>2
<1>7. ASSUME NEW i \in 1 .. n + m, NEW j \in 1 .. n + m, i < j PROVE Less(w[i], w[j])
  <2>1. CASE j <= n
    <3>1. i \in 1 .. n /\ j \in 1 .. n /\ w[i] = s[i] /\ w[j] = s[j]
      BY <1>2, <1>3, <1>7, <2>1
    <3>2. QED
      BY <1>7, <3>1 DEF Increasing, n
  <2>2. CASE ~(i <= n)
    <3>1. i - n \in 1 .. m /\ j - n \in 1 .. m /\ w[i] = u[i - n] /\ w[j] = u[j - n] /\ i - n < j - n
      BY <1>2, <1>3, <1>7, <2>2
    <3>2. w[i][1] = k /\ w[j][1] = k /\ w[i][2] < w[j][2]
      BY <1>1, <3>1 DEF m
    <3>3. QED
      BY <3>2 DEF Less
  <2>3. CASE i <= n /\ ~(j <= n)
    <3>1. i \in 1 .. n /\ j - n \in 1 .. m /\ w[i] = s[i] /\ w[j] = u[j - n]
      BY <1>2, <1>3, <2>3
    <3>2. w[j][1] = k /\ p < w[j][2] /\ w[i][2] \in Nat /\ w[j][2] \in Nat
      BY <1>1, <1>4, <3>1 DEF m
    <3>3. w[i][1] < k \/ (w[i][1] = k /\ w[i][2] <= p)
      BY <1>5, <3>1
    <3>4. QED
      BY <1>1, <3>2, <3>3 DEF Less
  <2>4. QED
    BY <2>1, <2>2, <2>3
<1>8. QED
  BY <1>3, <1>6, <1>7 DEF Increasing, Reached, w

-----------------------------------------------------------------------------
(* What client_data always is. *)

Frag == [command : Nat, last : BOOLEAN]
QueueOf(S) == [gap : Nat, bytes : Seq(S)]

ConnRecord ==
  [state : {"OPEN", "CLIENT_FINISHED", "closed", "aborted"},
   interest : {"none", "READ", "WRITE"},
   read_buffer : QueueOf(Frag), write_buffer : QueueOf(Unit),
   parsing : Nat, command : Nat, finished : BOOLEAN, written : Nat,
   filed_fd : {"none", "open", "stale"}, file_interest : {"none", "READ", "NOOP"}, file_pos : Nat,
   finished_reading : BOOLEAN, retrieve_buffer : QueueOf(Unit)]

(* A queue is within its buffer, and one that ran empty was reset.         *)
Sized(q, size) ==
  /\ q.gap + Len(q.bytes) <= size
  /\ q.bytes = <<>> => q = Q!Empty

(* The units of the answer that were handed to the write buffer.           *)
Progress(c) ==
  IF c.finished THEN AnswerLen(c.command)
  ELSE IF c.filed_fd = "open" THEN 1 + c.file_pos - Len(c.retrieve_buffer.bytes)
  ELSE c.written

(* Within LIST, and within RETR: what is in the retrieve buffer is the     *)
(* next part of the answer.                                                *)
InList(c) ==
  /\ request(c.command) = "LIST" /\ c.filed_fd # "open"
  /\ c.retrieve_buffer = Q!Empty
  /\ c.written \in 1 .. ListLen + 1

InRetrieval(c) ==
  /\ request(c.command) = "RETR" /\ c.filed_fd = "open" /\ c.written = 0
  /\ c.file_pos <= MailLen
  /\ Len(c.retrieve_buffer.bytes) <= c.file_pos
  /\ Run(c.retrieve_buffer.bytes, c.command,
         1 + c.file_pos - Len(c.retrieve_buffer.bytes), Len(c.retrieve_buffer.bytes))

(* A retrieval that took the number of a file that was never registered    *)
(* for its own: there is nothing to wait for.                              *)
Stuck(c) ==
  /\ request(c.command) \in Retrieval /\ c.filed_fd = "stale" /\ c.written = 0
  /\ c.retrieve_buffer = Q!Empty

(* select() watches a file while RETR needs it.                            *)
Files(c) ==
  /\ c.filed_fd = "open" => c.state = "OPEN" /\ ~c.finished
  /\ c.file_interest # "none" => c.filed_fd = "open"
  /\ c.finished_reading <=> c.filed_fd = "open" /\ c.file_interest = "none"

(* Between two answers, and within one that goes on.                       *)
Answering(c) ==
  IF c.finished THEN c.written = 0 /\ c.retrieve_buffer = Q!Empty
  ELSE c.state = "OPEN" /\ (InList(c) \/ InRetrieval(c) \/ Stuck(c))

Buffered(c) ==
  /\ Sized(c.read_buffer, ReadSize)
  /\ Sized(c.write_buffer, WriteSize)
  /\ Sized(c.retrieve_buffer, RetrieveSize)

(* The invariant of client_data by itself.                                 *)
Shape(c) ==
  /\ c \in ConnRecord
  /\ Buffered(c) /\ Files(c) /\ Answering(c)

(* What ConnectionAssumption says of the world at hand.                    *)
WorldType ==
  /\ script \in Seq(Kind) /\ script # <<>>
  /\ WriteSize \in Nat /\ WriteSize >= 2
  /\ Pipelining \in BOOLEAN /\ PartialSend \in BOOLEAN
  /\ FileErrors \in BOOLEAN /\ ClientVanishes \in BOOLEAN /\ is_dir_valid \in BOOLEAN

LEMMA WorldTyped == world \in Worlds => WorldType
BY ConnectionAssumption DEF WorldType, script, WriteSize, Pipelining, PartialSend, FileErrors,
     ClientVanishes, is_dir_valid, Kind

LEMMA SizesTyped ==
  ReadSize \in Nat /\ ReadSize > 0 /\ RetrieveSize \in Nat /\ ListLen \in Nat /\ MailLen \in Nat
BY ConnectionAssumption

(* What of u a buffer with this room takes.                                *)
Fit(u, room) == IF Len(u) <= room THEN u ELSE SubSeq(u, 1, room)

LEMMA FitIs ==
  ASSUME NEW S, NEW u \in Seq(S), NEW room \in Nat
  PROVE  Fit(u, room) \in Seq(S) /\ Len(Fit(u, room)) <= room
BY DEF Fit

(* c with v behind what it has to send.                                    *)
Written(c, v) ==
  [c EXCEPT !.write_buffer =
     [gap |-> c.write_buffer.gap, bytes |-> c.write_buffer.bytes \o v]]

LEMMA RoomIs ==
  ASSUME NEW c, Shape(c), WorldType
  PROVE  WriteRoom(c) \in Nat
         /\ WriteRoom(c) = WriteSize - (c.write_buffer.gap + Len(c.write_buffer.bytes))
BY SMTT(30) DEF Shape, Buffered, Sized, ConnRecord, QueueOf, WorldType, WriteRoom, Q!Room

(* Every write of an answer puts its beginning, what fits, behind what     *)
(* waits.                                                                  *)
LEMMA PutWrites ==
  ASSUME NEW c, Shape(c), NEW u
  PROVE  Put(c, u) = Written(c, Fit(u, WriteRoom(c)))
<1> DEFINE q == c.write_buffer
           w == [gap |-> q.gap, bytes |-> q.bytes \o Fit(u, WriteRoom(c))]
<1>1. c \in ConnRecord /\ q = [gap |-> q.gap, bytes |-> q.bytes]
  BY DEF Shape, ConnRecord, QueueOf
<1>2. Q!WriteN(q, u, WriteSize) = [q EXCEPT !.bytes = q.bytes \o Fit(u, WriteRoom(c))]
  BY DEF Q!WriteN, Q!Append_, Fit, WriteRoom
<1>3. Q!WriteN(q, u, WriteSize) = w
  BY <1>1, <1>2
<1>4. Put(c, u) = [c EXCEPT !.write_buffer = Q!WriteN(q, u, WriteSize)]
  BY DEF Put
<1>5. QED
  BY <1>3, <1>4 DEF Written

(* Writing what fits keeps the shape and takes its room.                   *)
LEMMA WrittenIs ==
  ASSUME NEW c, Shape(c), WorldType, NEW v \in Seq(Unit), Len(v) <= WriteRoom(c)
  PROVE  /\ Shape(Written(c, v))
         /\ WriteRoom(Written(c, v)) = WriteRoom(c) - Len(v)
<1> DEFINE d == Written(c, v)
<1>1. /\ c.write_buffer.bytes \in Seq(Unit) /\ c.write_buffer.gap \in Nat
      /\ c.write_buffer \in QueueOf(Unit)
      /\ c.write_buffer.bytes = <<>> => c.write_buffer.gap = 0
  BY DEF Shape, ConnRecord, QueueOf, Buffered, Sized, Q!Empty
<1>2. /\ c.write_buffer.bytes \o v \in Seq(Unit)
      /\ Len(c.write_buffer.bytes \o v) = Len(c.write_buffer.bytes) + Len(v)
      /\ c.write_buffer.bytes \o v = <<>> => c.write_buffer.bytes = <<>>
  BY <1>1, ConcatProperties
<1>3. /\ d.write_buffer = [gap |-> c.write_buffer.gap, bytes |-> c.write_buffer.bytes \o v]
      /\ d \in ConnRecord
      /\ d.state = c.state /\ d.interest = c.interest /\ d.read_buffer = c.read_buffer
      /\ d.command = c.command /\ d.finished = c.finished /\ d.written = c.written
      /\ d.filed_fd = c.filed_fd /\ d.file_interest = c.file_interest /\ d.file_pos = c.file_pos
      /\ d.finished_reading = c.finished_reading /\ d.retrieve_buffer = c.retrieve_buffer
  BY <1>1, <1>2 DEF Written, Shape, ConnRecord, QueueOf
<1> HIDE DEF d
<1>4. WriteRoom(d) = WriteRoom(c) - Len(v)
  <2>1. WriteRoom(d) = WriteSize - (d.write_buffer.gap + Len(d.write_buffer.bytes))
    BY DEF WriteRoom, Q!Room
  <2>2. Len(c.write_buffer.bytes) \in Nat /\ Len(v) \in Nat
    BY <1>1
  <2> DEFINE g == c.write_buffer.gap
             lb == Len(c.write_buffer.bytes)
             lv == Len(v)
  <2>3. WriteRoom(d) = WriteSize - (g + (lb + lv)) /\ g \in Nat /\ WriteSize \in Nat
    BY <1>1, <1>2, <1>3, <2>1 DEF WorldType
  <2>4. WriteRoom(c) = WriteSize - (g + lb)
    BY RoomIs
  <2> HIDE DEF g, lb, lv
  <2>5. lb \in Nat /\ lv \in Nat
    BY <2>2 DEF lb, lv
  <2>6. QED
    BY <2>3, <2>4, <2>5 DEF lv
<1>5. Sized(d.write_buffer, WriteSize)
  BY SMTT(30), <1>1, <1>2, <1>3, RoomIs DEF Sized, Q!Empty, WorldType
<1>6. QED
  BY <1>3, <1>4, <1>5 DEF d, Shape, Buffered, Files, Answering, InList, InRetrieval, Stuck

-----------------------------------------------------------------------------
(* What running a command does. *)

(* How far the answer was when it is run, for the first time or again.     *)
Begun(c) == IF c.finished THEN 0 ELSE Progress(c)

(* There is room for what a command writes at once, and the file that was  *)
(* read to its end was read whole.                                         *)
Ample(c) ==
  /\ c.finished => WriteRoom(c) >= 2
  /\ c.finished_reading => c.file_pos = MailLen

(* A command can be run, or gone on with.                                  *)
Ready(c) == Shape(c) /\ c.state = "OPEN" /\ c.command \in 1 .. Len(script)

(* d is c after it wrote u, the next part of the answer.                   *)
Ran(c, d, u) ==
  /\ Shape(d)
  /\ d.interest = c.interest /\ d.read_buffer = c.read_buffer
  /\ d.command = c.command /\ d.parsing = c.parsing
  /\ d.state \in IF script[c.command] = "QUIT" THEN {"CLIENT_FINISHED"} ELSE {"OPEN", "aborted"}
  /\ d.write_buffer = [gap |-> c.write_buffer.gap, bytes |-> c.write_buffer.bytes \o u]
  /\ Steps(u, c.command, Begun(c), Progress(d))
  /\ Ample(c) => /\ d.state # "aborted"
                 /\ Run(u, c.command, Begun(c), Progress(d) - Begun(c))
                 /\ d.finished_reading => d.file_pos = MailLen

(* A maildrop that could not be read changes what LIST and RETR amount to, *)
(* and nothing else.                                                       *)
LEMMA Requested ==
  ASSUME WorldType, NEW k \in 1 .. Len(script)
  PROVE  /\ script[k] \in Kind /\ request(k) \in Kind
         /\ request(k) = "QUIT" <=> script[k] = "QUIT"
         /\ request(k) \in {script[k], "STAT", "NOOP"}
<1>1. script[k] \in Kind /\ is_dir_valid \in BOOLEAN
  BY DEF WorldType
<1>2. CASE is_dir_valid
  <2>1. request(k) = script[k]
    BY <1>2 DEF request
  <2>2. QED
    BY <1>1, <2>1
<1>3. CASE ~is_dir_valid
  <2>1. CASE script[k] = "LIST"
    BY <1>1, <1>3, <2>1 DEF request, Kind, Retrieval
  <2>2. CASE script[k] \in Retrieval
    BY <1>1, <1>3, <2>2 DEF request, Kind, Retrieval
  <2>3. CASE script[k] # "LIST" /\ script[k] \notin Retrieval
    BY <1>1, <1>3, <2>3 DEF request, Kind, Retrieval
  <2>4. QED
    BY <2>1, <2>2, <2>3
<1>4. QED
  BY <1>1, <1>2, <1>3

LEMMA AnswerLens ==
  ASSUME WorldType, NEW k \in 1 .. Len(script)
  PROVE  /\ request(k) \in Kind
         /\ AnswerLen(k) = IF request(k) = "LIST" THEN ListLen + 2
                           ELSE IF request(k) = "RETR" THEN MailLen + 2
                           ELSE 2
<1>1. k # 0 /\ request(k) \in Kind
  BY Requested
<1>2. QED
  BY <1>1 DEF AnswerLen, Kind

LEMMA ReadyFacts ==
  ASSUME NEW c, Ready(c), WorldType
  PROVE  /\ c.command \in Nat /\ c.command > 0
         /\ c.finished => /\ c.filed_fd \in {"none", "stale"} /\ c.file_interest = "none"
                          /\ c.finished_reading = FALSE /\ c.written = 0
                          /\ c.retrieve_buffer = Q!Empty /\ Begun(c) = 0
         /\ ~c.finished => request(c.command) \in {"LIST"} \cup Retrieval
         /\ ~c.finished /\ c.filed_fd = "none" => request(c.command) = "LIST"
<1>1. c.command \in Nat /\ c.command > 0
  BY DEF Ready, Shape, ConnRecord
<1>2. /\ c.finished \in BOOLEAN /\ c.finished_reading \in BOOLEAN
      /\ c.filed_fd \in {"none", "open", "stale"}
      /\ c.file_interest \in {"none", "READ", "NOOP"}
      /\ Files(c) /\ Answering(c)
  BY DEF Ready, Shape, ConnRecord
<1>3. QED
  BY <1>1, <1>2 DEF Files, Answering, InList, InRetrieval, Stuck, Begun, Retrieval

(* An answer of n units that is written at once.                           *)
LEMMA WritesAtOnce ==
  ASSUME NEW c, Ready(c), WorldType, c.finished, NEW n \in 1 .. 2, AnswerLen(c.command) = n
  PROVE  LET u == Fit(Units(c.command, 1, n), WriteRoom(c)) IN
           /\ u \in Seq(Unit) /\ Len(u) <= WriteRoom(c)
           /\ Steps(u, c.command, 0, n)
           /\ WriteRoom(c) >= 2 => Run(u, c.command, 0, n)
<1> DEFINE k == c.command
           v == Units(k, 1, n)
           room == WriteRoom(c)
           u == Fit(v, room)
<1>1. k \in Nat /\ room \in Nat
  BY ReadyFacts, RoomIs DEF Ready
<1>2. Run(v, k, 0, n)
  <2>1. n \in Nat /\ 1 = 0 + 1 /\ n = 0 + n
    OBVIOUS
  <2>2. QED
    BY <1>1, <2>1, UnitsRun
<1> HIDE DEF k, room, v
<1>3. v \in Seq(Unit) /\ Len(v) = n
  BY <1>2 DEF Run
<1>4. u \in Seq(Unit) /\ Len(u) <= room
  BY <1>1, <1>3, FitIs
<1>5. Steps(v, k, 0, n)
  BY <1>1, <1>2, RunSteps
<1>6. CASE n <= room
  <2>1. u = v
    BY <1>3, <1>6 DEF Fit
  <2>2. QED
    BY <1>2, <1>4, <1>5, <2>1 DEF k, v, room
<1>7. CASE ~(n <= room)
  <2>1. u = SubSeq(v, 1, room) /\ room \in 0 .. Len(v) /\ ~(room >= 2)
    BY <1>1, <1>3, <1>7 DEF Fit
  <2>2. Steps(u, k, 0, n)
    BY <1>5, <2>1, StepsPrefix
  <2>3. QED
    BY <1>4, <2>1, <2>2 DEF k, v, room
<1>8. QED
  BY <1>6, <1>7

(* An assertion ends the process before anything is written.               *)
LEMMA AbortRan ==
  ASSUME NEW c, Ready(c), WorldType, c.finished, ~(WriteRoom(c) >= 2), script[c.command] # "QUIT"
  PROVE  \E u \in Seq(Unit) : Ran(c, [c EXCEPT !.state = "aborted"], u)
<1> DEFINE d == [c EXCEPT !.state = "aborted"]
           all == AnswerLen(c.command)
<1>1. c \in ConnRecord /\ all \in Nat /\ c.command \in Nat /\ c.finished = TRUE
  BY AnswerLens, SizesTyped DEF Ready, Shape, ConnRecord
<1>2. /\ c.filed_fd \in {"none", "stale"} /\ c.file_interest = "none" /\ c.written = 0
      /\ c.finished_reading = FALSE /\ c.retrieve_buffer = Q!Empty /\ Begun(c) = 0
  BY ReadyFacts
<1>3. /\ d \in ConnRecord /\ d.state = "aborted" /\ d.finished = TRUE
      /\ d.interest = c.interest /\ d.read_buffer = c.read_buffer /\ d.command = c.command
      /\ d.parsing = c.parsing /\ d.written = 0 /\ d.filed_fd = c.filed_fd
      /\ d.file_interest = c.file_interest /\ d.file_pos = c.file_pos
      /\ d.finished_reading = c.finished_reading /\ d.retrieve_buffer = c.retrieve_buffer
      /\ d.write_buffer = c.write_buffer
  BY <1>1, <1>2 DEF ConnRecord
<1> HIDE DEF d
<1>4. Progress(d) = all
  BY <1>3 DEF Progress
<1>5. Buffered(d)
  BY <1>3 DEF Ready, Shape, Buffered
<1>6. Files(d) /\ Answering(d)
  BY <1>2, <1>3 DEF Files, Answering
<1>7. c.write_buffer = [gap |-> c.write_buffer.gap, bytes |-> c.write_buffer.bytes \o <<>>]
  BY <1>1, ConcatEmptySeq DEF ConnRecord, QueueOf
<1>8. Steps(<<>>, c.command, 0, all)
  BY <1>1, NoSteps
<1>9. ~Ample(c)
  BY DEF Ample
<1>10. Ran(c, d, <<>>)
  BY <1>2, <1>3, <1>4, <1>5, <1>6, <1>7, <1>8, <1>9 DEF Ran, Shape
<1>11. <<>> \in Seq(Unit)
  OBVIOUS
<1>12. QED
  BY <1>10, <1>11 DEF d

(* The commands of one line.                                               *)
LEMMA SingleLineRan ==
  ASSUME NEW c, Ready(c), WorldType, request(c.command) \in {"NOOP", "STAT"}
  PROVE  \E u \in Seq(Unit) : Ran(c, SingleLine(c), u)
<1> DEFINE u == Fit(Units(c.command, 1, 2), WriteRoom(c))
           w == Written(c, u)
           d == SingleLine(c)
<1>1. AnswerLen(c.command) = 2
  BY AnswerLens DEF Ready
<1>2. c.finished /\ Begun(c) = 0 /\ script[c.command] # "QUIT"
  BY ReadyFacts, Requested DEF Ready, Retrieval
<1>3. /\ u \in Seq(Unit) /\ Len(u) <= WriteRoom(c)
      /\ Steps(u, c.command, 0, 2)
      /\ WriteRoom(c) >= 2 => Run(u, c.command, 0, 2)
  BY <1>1, <1>2, WritesAtOnce
<1> HIDE DEF u
<1>4. Shape(w)
  BY <1>3, WrittenIs DEF Ready
<1>5. Put(c, Units(c.command, 1, 2)) = w
  BY PutWrites DEF Ready, u
<1>6. d = w
  <2>1. w.finished = TRUE /\ w \in ConnRecord
    BY <1>2, <1>4 DEF Written, Shape, ConnRecord, Ready
  <2>2. d = [w EXCEPT !.finished = TRUE]
    BY <1>5 DEF SingleLine
  <2> HIDE DEF w, d
  <2>3. [w EXCEPT !.finished = TRUE] = w
    BY <2>1 DEF ConnRecord
  <2>4. QED
    BY <2>2, <2>3
<1>7. /\ w.interest = c.interest /\ w.read_buffer = c.read_buffer /\ w.state = c.state
      /\ w.command = c.command /\ w.parsing = c.parsing /\ w.finished = c.finished
      /\ w.finished_reading = c.finished_reading /\ w.file_pos = c.file_pos
      /\ w.write_buffer = [gap |-> c.write_buffer.gap, bytes |-> c.write_buffer.bytes \o u]
  BY DEF Written, Ready, Shape, ConnRecord
<1> HIDE DEF w, d
<1>8. Progress(w) = 2
  BY <1>1, <1>2, <1>7 DEF Progress
<1>9. Ran(c, w, u)
  BY <1>2, <1>3, <1>4, <1>7, <1>8 DEF Ran, Ample, Ready
<1>10. QED
  BY <1>3, <1>6, <1>9 DEF d

LEMMA PrintedLineRan ==
  ASSUME NEW c, Ready(c), WorldType, request(c.command) = "STAT"
  PROVE  \E u \in Seq(Unit) : Ran(c, PrintedLine(c), u)
<1>1. c.finished /\ script[c.command] # "QUIT" /\ WriteRoom(c) \in Nat
  BY ReadyFacts, Requested, RoomIs DEF Ready, Retrieval
<1>2. CASE WriteRoom(c) < 2
  <2>1. PrintedLine(c) = [c EXCEPT !.state = "aborted"] /\ ~(WriteRoom(c) >= 2)
    BY <1>1, <1>2 DEF PrintedLine
  <2>2. QED
    BY <1>1, <2>1, AbortRan
<1>3. CASE ~(WriteRoom(c) < 2)
  <2>1. PrintedLine(c) = SingleLine(c)
    BY <1>3 DEF PrintedLine
  <2>2. QED
    BY <2>1, SingleLineRan
<1>4. QED
  BY <1>2, <1>3

LEMMA QuitRan ==
  ASSUME NEW c, Ready(c), WorldType, request(c.command) = "QUIT"
  PROVE  \E u \in Seq(Unit) : Ran(c, quit(c), u)
<1> DEFINE u == Fit(Units(c.command, 1, 2), WriteRoom(c))
           w == Written(c, u)
           d == quit(c)
<1>1. AnswerLen(c.command) = 2
  BY AnswerLens DEF Ready
<1>2. /\ c.finished /\ Begun(c) = 0 /\ c.filed_fd \in {"none", "stale"}
      /\ c.file_interest = "none" /\ c.finished_reading = FALSE /\ c.written = 0
      /\ c.retrieve_buffer = Q!Empty /\ script[c.command] = "QUIT"
  BY ReadyFacts, Requested DEF Ready, Retrieval
<1>3. /\ u \in Seq(Unit) /\ Len(u) <= WriteRoom(c)
      /\ Steps(u, c.command, 0, 2)
      /\ WriteRoom(c) >= 2 => Run(u, c.command, 0, 2)
  BY <1>1, <1>2, WritesAtOnce
<1> HIDE DEF u
<1>4. Shape(w)
  BY <1>3, WrittenIs DEF Ready
<1>5. Put(c, Units(c.command, 1, 2)) = w
  BY PutWrites DEF Ready, u
<1>6. /\ w.interest = c.interest /\ w.read_buffer = c.read_buffer
      /\ w.command = c.command /\ w.parsing = c.parsing /\ w.finished = c.finished
      /\ w.written = c.written /\ w.retrieve_buffer = c.retrieve_buffer
      /\ w.filed_fd = c.filed_fd /\ w.file_interest = c.file_interest
      /\ w.finished_reading = c.finished_reading /\ w.file_pos = c.file_pos
      /\ w.write_buffer = [gap |-> c.write_buffer.gap, bytes |-> c.write_buffer.bytes \o u]
  BY DEF Written, Ready, Shape, ConnRecord
<1>7. d = [[w EXCEPT !.finished = TRUE] EXCEPT !.state = "CLIENT_FINISHED"]
  BY <1>5 DEF quit, SingleLine
<1> HIDE DEF w, d
<1>8. /\ d \in ConnRecord /\ d.state = "CLIENT_FINISHED" /\ d.finished = TRUE
      /\ d.interest = w.interest /\ d.read_buffer = w.read_buffer /\ d.command = w.command
      /\ d.parsing = w.parsing /\ d.written = w.written /\ d.filed_fd = w.filed_fd
      /\ d.file_interest = w.file_interest /\ d.file_pos = w.file_pos
      /\ d.finished_reading = w.finished_reading /\ d.retrieve_buffer = w.retrieve_buffer
      /\ d.write_buffer = w.write_buffer
  BY <1>4, <1>7 DEF Shape, ConnRecord
<1>9. Progress(d) = 2
  BY <1>1, <1>6, <1>8 DEF Progress
<1>10. Buffered(d)
  BY <1>4, <1>8 DEF Shape, Buffered
<1>11. Files(d) /\ Answering(d)
  BY <1>2, <1>6, <1>8 DEF Files, Answering
<1>12. Ran(c, d, u)
  BY <1>2, <1>3, <1>6, <1>8, <1>9, <1>10, <1>11 DEF Ran, Ample, Shape
<1>13. QED
  BY <1>3, <1>12 DEF d

LEMMA RetrievalFailsRan ==
  ASSUME NEW c, Ready(c), WorldType, request(c.command) \in Retrieval \ {"RETR"},
         c.filed_fd = "none"
  PROVE  \E u \in Seq(Unit) : Ran(c, retrieval_fails(c), u)
<1> DEFINE u == Fit(Units(c.command, 1, 2), WriteRoom(c))
           w == Written(c, u)
           fd == IF request(c.command) = "RETRUNWATCHED" THEN "stale" ELSE "none"
           pos == IF request(c.command) = "RETRUNWATCHED" THEN 0 ELSE c.file_pos
           d == retrieval_fails(c)
<1>1. AnswerLen(c.command) = 2
  BY AnswerLens DEF Ready, Retrieval
<1>2. /\ c.finished /\ Begun(c) = 0 /\ c.file_interest = "none" /\ script[c.command] # "QUIT"
      /\ c.finished_reading = FALSE /\ c.written = 0 /\ c.retrieve_buffer = Q!Empty
  BY ReadyFacts, Requested DEF Ready, Retrieval
<1>3. /\ u \in Seq(Unit) /\ Len(u) <= WriteRoom(c)
      /\ Steps(u, c.command, 0, 2)
      /\ WriteRoom(c) >= 2 => Run(u, c.command, 0, 2)
  BY <1>1, <1>2, WritesAtOnce
<1> HIDE DEF u
<1>4. Shape(w)
  BY <1>3, WrittenIs DEF Ready
<1>5. Put(c, Units(c.command, 1, 2)) = w
  BY PutWrites DEF Ready, u
<1>6. /\ w.interest = c.interest /\ w.read_buffer = c.read_buffer /\ w.state = c.state
      /\ w.command = c.command /\ w.parsing = c.parsing /\ w.finished = c.finished
      /\ w.written = c.written /\ w.retrieve_buffer = c.retrieve_buffer
      /\ w.filed_fd = c.filed_fd /\ w.file_interest = c.file_interest
      /\ w.finished_reading = c.finished_reading /\ w.file_pos = c.file_pos
      /\ w.write_buffer = [gap |-> c.write_buffer.gap, bytes |-> c.write_buffer.bytes \o u]
  BY DEF Written, Ready, Shape, ConnRecord
<1>7. d = [[[w EXCEPT !.finished = TRUE] EXCEPT !.filed_fd = fd] EXCEPT !.file_pos = pos]
  BY <1>4, <1>5, <1>6 DEF retrieval_fails, Shape, ConnRecord
<1> HIDE DEF w, d
<1>8. /\ d \in ConnRecord /\ d.state = w.state /\ d.finished = TRUE
      /\ d.interest = w.interest /\ d.read_buffer = w.read_buffer /\ d.command = w.command
      /\ d.parsing = w.parsing /\ d.written = w.written /\ d.filed_fd = fd
      /\ d.file_interest = w.file_interest /\ d.file_pos = pos
      /\ d.finished_reading = w.finished_reading /\ d.retrieve_buffer = w.retrieve_buffer
      /\ d.write_buffer = w.write_buffer
  BY <1>4, <1>6, <1>7 DEF Shape, ConnRecord
<1>9. Progress(d) = 2
  BY <1>1, <1>6, <1>8 DEF Progress
<1>10. Buffered(d)
  BY <1>4, <1>8 DEF Shape, Buffered
<1>11. Files(d) /\ Answering(d)
  BY <1>2, <1>6, <1>8 DEF Files, Answering
<1>12. Ran(c, d, u)
  BY <1>2, <1>3, <1>6, <1>8, <1>9, <1>10, <1>11 DEF Ran, Ample, Shape, Ready
<1>13. QED
  BY <1>3, <1>12 DEF d

LEMMA MinOfTwo ==
  ASSUME NEW a \in Nat, NEW b \in Nat
  PROVE  /\ Min({a, b}) \in {a, b} /\ Min({a, b}) <= a /\ Min({a, b}) <= b
         /\ Min({a, b}) \in Nat
<1>1. \E m \in {a, b} : \A y \in {a, b} : m =< y
  <2>1. CASE a <= b
    BY <2>1
  <2>2. CASE ~(a <= b)
    BY <2>2
  <2>3. QED
    BY <2>1, <2>2
<1>2. Min({a, b}) \in {a, b} /\ \A y \in {a, b} : Min({a, b}) =< y
  BY <1>1 DEF Min
<1>3. QED
  BY <1>2

(* LIST, begun or gone on with.                                            *)
LEMMA ListRan ==
  ASSUME NEW c, Ready(c), WorldType, request(c.command) = "LIST"
  PROVE  \E u \in Seq(Unit) : Ran(c, list_mails(c), u)
<1> DEFINE k == c.command
           room == WriteRoom(c)
           all == AnswerLen(k)
           p == c.written
           n == Min({all - p, room})
           done == p + n
           v == Units(k, p + 1, done)
           w == Written(c, v)
           d == list_mails(c)
           e == [[w EXCEPT !.finished = (done = all)] EXCEPT
                   !.written = IF done = all THEN 0 ELSE done]
<1>0. /\ c \in ConnRecord /\ c.state = "OPEN" /\ k \in Nat /\ room \in Nat /\ p \in Nat
      /\ all = ListLen + 2 /\ all \in Nat
      /\ c.finished \in BOOLEAN /\ script[k] # "QUIT"
  BY AnswerLens, Requested, RoomIs, SizesTyped DEF Ready, Shape, ConnRecord
<1>1. /\ c.filed_fd \in {"none", "stale"} /\ c.file_interest = "none" /\ c.finished_reading = FALSE
      /\ c.retrieve_buffer = Q!Empty
      /\ Begun(c) = p /\ p < all
      /\ c.finished => p = 0
      /\ ~c.finished => p > 0
  <2>1. CASE c.finished
    <3>1. /\ c.filed_fd \in {"none", "stale"} /\ c.file_interest = "none" /\ c.finished_reading = FALSE
          /\ c.retrieve_buffer = Q!Empty /\ Begun(c) = 0 /\ p = 0
      BY <2>1, ReadyFacts
    <3>2. 0 < all
      BY <1>0, SizesTyped
    <3>3. QED
      BY <2>1, <3>1, <3>2
  <2>2. CASE ~c.finished
    <3>1. InList(c) /\ Files(c) /\ c.finished_reading \in BOOLEAN
      BY <1>0, <2>2 DEF Ready, Shape, Answering, InRetrieval, Stuck, Retrieval, ConnRecord
    <3>2. c.filed_fd \in {"none", "stale"} /\ c.retrieve_buffer = Q!Empty /\ p \in 1 .. ListLen + 1
      BY <1>0, <3>1 DEF InList, ConnRecord
    <3>3. c.file_interest = "none" /\ c.finished_reading = FALSE
      BY <3>1, <3>2 DEF Files
    <3>4. Begun(c) = p
      BY <2>2, <3>2 DEF Begun, Progress
    <3>5. QED
      BY <1>0, <2>2, <3>2, <3>3, <3>4, SizesTyped
  <2>3. QED
    BY <1>0, <2>1, <2>2
<1>2. CASE p = 0 /\ room = 0
  <2>1. d = [c EXCEPT !.state = "aborted"]
    BY <1>2 DEF list_mails
  <2>2. c.finished /\ ~(room >= 2)
    BY <1>1, <1>2
  <2>3. QED
    BY <1>0, <2>1, <2>2, AbortRan
<1>3. CASE ~(p = 0 /\ room = 0)
  <2>1. all - p \in Nat /\ all - p > 0
    BY <1>0, <1>1
  <2>2. n \in Nat /\ n <= all - p /\ n <= room /\ n \in {all - p, room}
    BY <1>0, <2>1, MinOfTwo
  <2> HIDE DEF n
  <2>3. done \in Nat /\ done <= all /\ done > 0
    BY <1>0, <1>3, <2>1, <2>2
  <2>4. Run(v, k, p, n)
    BY <1>0, <2>2, UnitsRun
  <2>5. v \in Seq(Unit) /\ Len(v) = n /\ Len(v) <= room
    BY <2>2, <2>4 DEF Run
  <2>6. Put(c, v) = w
    <3>1. Fit(v, room) = v
      BY <2>5 DEF Fit
    <3>2. QED
      BY <3>1, PutWrites DEF Ready
  <2>7. d = e
    BY <1>3, <2>6 DEF list_mails, n
  <2> HIDE DEF v
  <2>8. Shape(w)
    BY <2>5, WrittenIs DEF Ready
  <2>9. /\ w.interest = c.interest /\ w.read_buffer = c.read_buffer /\ w.state = c.state
        /\ w.command = c.command /\ w.parsing = c.parsing
        /\ w.retrieve_buffer = c.retrieve_buffer
        /\ w.filed_fd = c.filed_fd /\ w.file_interest = c.file_interest
        /\ w.finished_reading = c.finished_reading /\ w.file_pos = c.file_pos
        /\ w.write_buffer = [gap |-> c.write_buffer.gap, bytes |-> c.write_buffer.bytes \o v]
    BY <1>0 DEF Written, ConnRecord
  <2> HIDE DEF w, done
  <2>10. /\ e \in ConnRecord /\ e.finished = (done = all)
         /\ e.written = IF done = all THEN 0 ELSE done
         /\ e.interest = w.interest /\ e.read_buffer = w.read_buffer /\ e.command = w.command
         /\ e.parsing = w.parsing /\ e.state = w.state /\ e.filed_fd = w.filed_fd
         /\ e.file_interest = w.file_interest /\ e.file_pos = w.file_pos
         /\ e.finished_reading = w.finished_reading /\ e.retrieve_buffer = w.retrieve_buffer
         /\ e.write_buffer = w.write_buffer
    BY <2>3, <2>8 DEF Shape, ConnRecord
  <2> HIDE DEF e, d
  <2>11. Progress(e) = done
    BY ZenonT(60), <1>1, <2>9, <2>10 DEF Progress
  <2>12. Buffered(e)
    BY <2>8, <2>10 DEF Shape, Buffered
  <2>13. Files(e)
    BY <1>1, <2>9, <2>10 DEF Files
  <2>14. Answering(e)
    <3>1. CASE done = all
      BY <1>1, <2>9, <2>10, <3>1 DEF Answering
    <3>2. CASE done # all
      <4>1. done \in 1 .. ListLen + 1
        BY <1>0, <2>3, <3>2, SizesTyped
      <4>2. QED
        BY <1>0, <1>1, <2>9, <2>10, <3>2, <4>1 DEF Answering, InList
    <3>3. QED
      BY <3>1, <3>2
  <2>15. Steps(v, k, p, done)
    BY <1>0, <2>2, <2>3, <2>4, RunSteps DEF done
  <2>16. done - p = n
    BY <1>0, <2>2 DEF done
  <2>17. Ran(c, e, v)
    BY <1>0, <1>1, <2>4, <2>9, <2>10, <2>11, <2>12, <2>13, <2>14, <2>15, <2>16 DEF Ran, Shape
  <2>18. QED
    BY <2>5, <2>7, <2>17 DEF d
<1>4. QED
  BY <1>2, <1>3

-----------------------------------------------------------------------------
(* RETR, run for the first time or again: the first line, what was read    *)
(* since, the terminator. *)

(* d is c after it wrote u, which leads from the p-th unit of the answer   *)
(* to the progress of d, without a gap if all is the case.                 *)
Part(c, d, u, p, all) ==
  /\ Shape(d)
  /\ d.interest = c.interest /\ d.read_buffer = c.read_buffer
  /\ d.command = c.command /\ d.parsing = c.parsing /\ d.state = c.state
  /\ d.write_buffer = [gap |-> c.write_buffer.gap, bytes |-> c.write_buffer.bytes \o u]
  /\ Steps(u, c.command, p, Progress(d))
  /\ all => Run(u, c.command, p, Progress(d) - p)

LEMMA PartsConcat ==
  ASSUME NEW c, NEW d, NEW e, NEW u, NEW v, NEW p, NEW all \in BOOLEAN, c.write_buffer.bytes \in Seq(Unit),
         Part(c, d, u, p, all), NEW q, q = Progress(d), Part(d, e, v, q, all)
  PROVE  Part(c, e, u \o v, p, all)
<1> DEFINE r == Progress(e)
<1>1. /\ Steps(u, c.command, p, q) /\ Steps(v, c.command, q, r)
      /\ u \in Seq(Unit) /\ v \in Seq(Unit) /\ c.command \in Nat
      /\ p \in Nat /\ q \in Nat /\ r \in Nat /\ p <= q /\ q <= r
  BY DEF Part, Steps
<1>2. /\ d.write_buffer = [gap |-> c.write_buffer.gap, bytes |-> c.write_buffer.bytes \o u]
      /\ e.write_buffer = [gap |-> d.write_buffer.gap, bytes |-> d.write_buffer.bytes \o v]
  BY DEF Part
<1>3. e.write_buffer = [gap |-> c.write_buffer.gap, bytes |-> c.write_buffer.bytes \o (u \o v)]
  <2> DEFINE b == c.write_buffer.bytes
  <2>0. b \in Seq(Unit)
    OBVIOUS
  <2> HIDE DEF b
  <2>1. (b \o u) \o v = b \o (u \o v)
    <3>1. u \in Seq(Unit) /\ v \in Seq(Unit)
      BY <1>1
    <3>2. QED
      BY <2>0, <3>1, ConcatAssociative
  <2>2. d.write_buffer.gap = c.write_buffer.gap /\ d.write_buffer.bytes = c.write_buffer.bytes \o u
    BY <1>2
  <2>3. QED
    BY <1>2, <2>1, <2>2 DEF b
<1>4. Steps(u \o v, c.command, p, r)
  BY <1>1, StepsConcat
<1>5. ASSUME all PROVE Run(u \o v, c.command, p, r - p)
  <2>1. Run(u, c.command, p, q - p) /\ Run(v, c.command, q, r - q)
    BY <1>5 DEF Part
  <2> HIDE DEF r
  <2>2. q - p \in Nat /\ r - q \in Nat /\ p + (q - p) = q /\ (q - p) + (r - q) = r - p
    BY <1>1
  <2>3. Run(u \o v, c.command, p, (q - p) + (r - q))
    BY <1>1, <2>1, <2>2, RunConcat
  <2>4. QED
    BY <2>2, <2>3
<1>6. QED
  BY <1>3, <1>4, <1>5 DEF Part

(* A retrieval that goes on.                                               *)
Going(c) == Ready(c) /\ ~c.finished /\ c.filed_fd = "open"

LEMMA GoingFacts ==
  ASSUME NEW c, Going(c), WorldType
  PROVE  /\ c \in ConnRecord /\ c.finished = FALSE /\ c.filed_fd = "open" /\ c.written = 0
         /\ c.file_interest \in {"none", "READ", "NOOP"} /\ InRetrieval(c)
         /\ (c.finished_reading <=> c.file_interest = "none")
         /\ c.state = "OPEN" /\ c.command \in Nat /\ c.command \in 1 .. Len(script)
         /\ request(c.command) = "RETR"
         /\ c.write_buffer.bytes \in Seq(Unit)
         /\ c.retrieve_buffer.bytes \in Seq(Unit)
         /\ Len(c.retrieve_buffer.bytes) \in Nat /\ c.file_pos \in Nat
         /\ Len(c.retrieve_buffer.bytes) <= c.file_pos /\ c.file_pos <= MailLen
         /\ Progress(c) = 1 + c.file_pos - Len(c.retrieve_buffer.bytes)
         /\ Progress(c) \in Nat /\ Begun(c) = Progress(c)
         /\ AnswerLen(c.command) = MailLen + 2
         /\ Sized(c.retrieve_buffer, RetrieveSize)
<1>1. /\ c \in ConnRecord /\ c.finished = FALSE /\ c.state = "OPEN" /\ c.command \in Nat
      /\ c.command \in 1 .. Len(script) /\ c.file_interest \in {"none", "READ", "NOOP"}
      /\ c.write_buffer.bytes \in Seq(Unit) /\ c.retrieve_buffer.bytes \in Seq(Unit)
      /\ c.file_pos \in Nat /\ c.finished_reading \in BOOLEAN
      /\ Files(c) /\ Answering(c) /\ Buffered(c) /\ c.filed_fd = "open"
  BY DEF Going, Ready, Shape, ConnRecord, QueueOf
<1>2. InRetrieval(c)
  BY <1>1 DEF Answering, InList, Stuck
<1>3. Len(c.retrieve_buffer.bytes) \in Nat
  BY <1>1
<1>4. /\ c.filed_fd = "open" /\ c.written = 0 /\ request(c.command) = "RETR"
      /\ Len(c.retrieve_buffer.bytes) <= c.file_pos /\ c.file_pos <= MailLen
  BY <1>2 DEF InRetrieval
<1>5. Progress(c) = 1 + c.file_pos - Len(c.retrieve_buffer.bytes)
  BY <1>1, <1>4 DEF Progress
<1>6. Progress(c) \in Nat /\ Begun(c) = Progress(c)
  BY <1>1, <1>3, <1>4, <1>5 DEF Begun
<1>7. AnswerLen(c.command) = MailLen + 2
  BY <1>1, <1>4, AnswerLens
<1>8. (c.finished_reading <=> c.file_interest = "none")
  BY <1>1, <1>4 DEF Files
<1>9. QED
  BY <1>1, <1>2, <1>3, <1>4, <1>5, <1>6, <1>7, <1>8 DEF Buffered

(* RETR writes its first line and opens the file.                          *)
LEMMA RetrievalStarts ==
  ASSUME NEW c, Ready(c), WorldType, request(c.command) = "RETR", c.finished, c.filed_fd = "none"
  PROVE  LET s == [setup_mail_retrieval(Put(c, Units(c.command, 1, 1))) EXCEPT !.finished = FALSE]
         IN /\ Going(s) /\ Progress(s) = 1 /\ s.finished_reading = FALSE
            /\ \E u \in Seq(Unit) : Part(c, s, u, 0, WriteRoom(c) >= 2)
<1> DEFINE k == c.command
           v == Units(k, 1, 1)
           room == WriteRoom(c)
           u == Fit(v, room)
           w == Written(c, u)
           s == [setup_mail_retrieval(Put(c, v)) EXCEPT !.finished = FALSE]
<1>0. /\ c \in ConnRecord /\ c.state = "OPEN" /\ k \in Nat /\ room \in Nat
  BY RoomIs DEF Ready, Shape, ConnRecord
<1>1. /\ c.filed_fd = "none" /\ c.file_interest = "none" /\ c.finished_reading = FALSE
      /\ c.written = 0 /\ c.retrieve_buffer = Q!Empty
  BY ReadyFacts
<1>2. Run(v, k, 0, 1)
  <2>1. 1 \in Nat /\ 0 \in Nat /\ 1 = 0 + 1
    OBVIOUS
  <2>2. QED
    BY <1>0, <2>1, UnitsRun
<1> HIDE DEF v
<1>3. v \in Seq(Unit) /\ Len(v) = 1
  BY <1>2 DEF Run
<1>4. u \in Seq(Unit) /\ Len(u) <= room
  BY <1>0, <1>3, FitIs
<1>5. Steps(v, k, 0, 1)
  BY <1>0, <1>2, RunSteps
<1>6. Steps(u, k, 0, 1) /\ (room >= 2 => Run(u, k, 0, 1))
  <2>1. CASE room >= 1
    BY <1>0, <1>2, <1>3, <1>5, <2>1 DEF Fit
  <2>2. CASE ~(room >= 1)
    <3>1. u = SubSeq(v, 1, room) /\ room \in 0 .. Len(v)
      BY <1>0, <1>3, <2>2 DEF Fit
    <3>2. Steps(u, k, 0, 1)
      BY <1>5, <3>1, StepsPrefix
    <3>3. QED
      BY <1>0, <2>2, <3>2
  <2>3. QED
    BY <2>1, <2>2
<1>7. Put(c, v) = w
  BY PutWrites DEF Ready
<1> HIDE DEF u
<1>8. Shape(w)
  BY <1>4, WrittenIs DEF Ready
<1>9. /\ w.interest = c.interest /\ w.read_buffer = c.read_buffer /\ w.state = c.state
      /\ w.command = c.command /\ w.parsing = c.parsing /\ w.written = c.written
      /\ w.finished_reading = c.finished_reading /\ w.retrieve_buffer = c.retrieve_buffer
      /\ w.write_buffer = [gap |-> c.write_buffer.gap, bytes |-> c.write_buffer.bytes \o u]
  BY <1>0 DEF Written, ConnRecord
<1> HIDE DEF w
<1>10. /\ s \in ConnRecord /\ s.finished = FALSE /\ s.filed_fd = "open" /\ s.file_interest = "READ"
       /\ s.file_pos = 0 /\ s.interest = w.interest /\ s.read_buffer = w.read_buffer
       /\ s.command = w.command /\ s.parsing = w.parsing /\ s.state = w.state
       /\ s.written = w.written /\ s.finished_reading = w.finished_reading
       /\ s.retrieve_buffer = w.retrieve_buffer /\ s.write_buffer = w.write_buffer
  BY <1>7, <1>8 DEF setup_mail_retrieval, Shape, ConnRecord
<1> HIDE DEF s
<1>11. s.retrieve_buffer.bytes = <<>> /\ Len(s.retrieve_buffer.bytes) = 0
  BY <1>1, <1>9, <1>10 DEF Q!Empty
<1>12. Buffered(s)
  BY <1>8, <1>10 DEF Shape, Buffered
<1>13. Files(s)
  BY <1>0, <1>1, <1>9, <1>10 DEF Files
<1>14. InRetrieval(s)
  <2>1. Run(<<>>, k, 1, 0)
    BY DEF Run
  <2>2. 0 <= MailLen /\ 0 <= 0 /\ 1 + 0 - 0 = 1
    BY SizesTyped
  <2>3. QED
    BY <1>1, <1>9, <1>10, <1>11, <2>1, <2>2 DEF InRetrieval
<1>15. Shape(s)
  BY <1>0, <1>9, <1>10, <1>12, <1>13, <1>14 DEF Shape, Answering
<1>16. Going(s)
  BY <1>0, <1>9, <1>10, <1>15 DEF Going, Ready
<1>17. Progress(s) = 1
  BY <1>10, <1>11 DEF Progress
<1>18. Part(c, s, u, 0, room >= 2)
  BY <1>6, <1>9, <1>10, <1>15, <1>17 DEF Part
<1>19. s.finished_reading = FALSE
  BY <1>1, <1>9, <1>10
<1>20. QED
  BY <1>4, <1>16, <1>17, <1>18, <1>19 DEF s, v

(* buffer_read_adv() leaves the rest of the queue.                         *)
LEMMA ReadAdvIs ==
  ASSUME NEW S, NEW size \in Nat, NEW q \in QueueOf(S), Sized(q, size), NEW n \in 0 .. Len(q.bytes)
  PROVE  /\ Q!ReadAdv(q, n) \in QueueOf(S) /\ Sized(Q!ReadAdv(q, n), size)
         /\ Q!ReadAdv(q, n).bytes = SubSeq(q.bytes, n + 1, Len(q.bytes))
         /\ SubSeq(q.bytes, 1, n) \in Seq(S) /\ Len(SubSeq(q.bytes, 1, n)) = n
<1>1. q.bytes \in Seq(S) /\ q.gap \in Nat /\ n \in Nat /\ n <= Len(q.bytes) /\ Len(q.bytes) \in Nat
  BY DEF QueueOf
<1> DEFINE t == SubSeq(q.bytes, n + 1, Len(q.bytes))
<1>2. t \in Seq(S) /\ Len(t) = Len(q.bytes) - n
  BY <1>1
<1>3. SubSeq(q.bytes, 1, n) \in Seq(S) /\ Len(SubSeq(q.bytes, 1, n)) = n
  BY <1>1
<1> HIDE DEF t
<1>4. CASE n = Len(q.bytes)
  <2>1. t = <<>>
    BY <1>1, <1>2, <1>4
  <2>2. Q!ReadAdv(q, n) = [gap |-> 0, bytes |-> <<>>]
    BY <1>4 DEF Q!ReadAdv, Q!Empty
  <2>3. <<>> \in Seq(S) /\ Len(<<>>) = 0 /\ 0 + 0 <= size
    OBVIOUS
  <2> DEFINE y == Q!ReadAdv(q, n)
  <2>4. y = Q!Empty /\ y.gap = 0 /\ y.bytes = <<>> /\ y \in [gap : Nat, bytes : Seq(S)]
    BY <2>2, <2>3 DEF Q!Empty
  <2> HIDE DEF y
  <2>5. Sized(y, size)
    BY <2>3, <2>4 DEF Sized
  <2>6. QED
    BY <1>3, <2>1, <2>4, <2>5 DEF QueueOf, y, t
<1>5. CASE n # Len(q.bytes)
  <2>1. t # <<>>
    BY <1>1, <1>2, <1>5
  <2>2. Q!ReadAdv(q, n) = [gap |-> q.gap + n, bytes |-> t]
    BY <1>5 DEF Q!ReadAdv, t
  <2>3. (q.gap + n) + Len(t) <= size
    BY <1>1, <1>2 DEF Sized
  <2>4. QED
    BY <1>1, <1>2, <1>3, <2>1, <2>2, <2>3 DEF QueueOf, Sized, t
<1>6. QED
  BY <1>4, <1>5

(* What was read and fits moves from one buffer to the other.              *)
LEMMA Moved ==
  ASSUME NEW c, Going(c), WorldType, NEW all \in BOOLEAN
  PROVE  LET d == IF WriteRoom(c) = 0 THEN c ELSE transfer(watch_file(c))
         IN /\ Going(d) /\ d.finished_reading = c.finished_reading /\ d.file_pos = c.file_pos
            /\ WriteRoom(d) > 0 => d.retrieve_buffer.bytes = <<>>
            /\ \E u \in Seq(Unit) : Part(c, d, u, Progress(c), all)
<1> DEFINE k == c.command
           b == c.retrieve_buffer
           room == WriteRoom(c)
           n == Min({Len(b.bytes), room})
           u == SubSeq(b.bytes, 1, n)
           p == Progress(c)
           w == Written(c, u)
           d == IF room = 0 THEN c ELSE transfer(watch_file(c))
<1>0. /\ c \in ConnRecord /\ k \in Nat /\ room \in Nat /\ b.bytes \in Seq(Unit)
      /\ b \in QueueOf(Unit) /\ b.gap \in Nat
      /\ c.write_buffer.bytes \in Seq(Unit) /\ c.write_buffer \in QueueOf(Unit)
      /\ Len(b.bytes) \in Nat /\ p \in Nat /\ p = 1 + c.file_pos - Len(b.bytes)
      /\ c.file_pos \in Nat /\ Len(b.bytes) <= c.file_pos
  BY GoingFacts, RoomIs DEF Going, Ready, Shape, ConnRecord, QueueOf
<1>1. n \in Nat /\ n <= Len(b.bytes) /\ n <= room /\ n \in {Len(b.bytes), room}
  BY <1>0, MinOfTwo
<1>2. CASE room = 0
  <2>1. d = c
    BY <1>2
  <2>2. Part(c, c, <<>>, p, all)
    <3>1. c.write_buffer = [gap |-> c.write_buffer.gap, bytes |-> c.write_buffer.bytes \o <<>>]
      BY <1>0, ConcatEmptySeq DEF QueueOf
    <3>2. Steps(<<>>, k, p, p)
      BY <1>0, NoSteps
    <3>3. Run(<<>>, k, p, p - p)
      BY <1>0 DEF Run
    <3>4. QED
      BY <3>1, <3>2, <3>3 DEF Part, Going, Ready
  <2>3. <<>> \in Seq(Unit)
    OBVIOUS
  <2>4. ~(room > 0)
    BY <1>2
  <2> HIDE DEF p
  <2>5. Going(c) /\ (WriteRoom(c) > 0 => c.retrieve_buffer.bytes = <<>>)
    BY <2>4
  <2> HIDE DEF d
  <2>6. QED
    BY <2>1, <2>2, <2>3, <2>5 DEF d, p
<1>3. CASE room # 0
  <2> DEFINE x == Q!ReadAdv(b, n)
  <2> HIDE DEF n
  <2>0. /\ x \in QueueOf(Unit) /\ Sized(x, RetrieveSize)
        /\ x.bytes = SubSeq(b.bytes, n + 1, Len(b.bytes))
        /\ u \in Seq(Unit) /\ Len(u) = n
    <3>1. Sized(b, RetrieveSize)
      BY GoingFacts
    <3> HIDE DEF b
    <3>3. n \in 0 .. Len(b.bytes)
      BY <1>0, <1>1
    <3>2. QED
      BY SMTT(30), <1>0, <3>1, <3>3, SizesTyped, ReadAdvIs DEF x
  <2> HIDE DEF x
  <2>1. /\ u \in Seq(Unit) /\ Len(u) = n
        /\ InRetrieval(c) /\ p = 1 + c.file_pos - Len(b.bytes)
    BY <1>0, <2>0, GoingFacts
  <2>2. Run(b.bytes, k, p, Len(b.bytes))
    BY <2>1 DEF InRetrieval
  <2>3. /\ Run(u, k, p, n)
        /\ Run(SubSeq(b.bytes, n + 1, Len(b.bytes)), k, p + n, Len(b.bytes) - n)
    <3>1. n \in 0 .. Len(b.bytes)
      BY <1>0, <1>1
    <3> HIDE DEF b, k, p
    <3>2. QED
      BY <1>0, <2>2, <3>1, RunCut
  <2>4. Shape(w) /\ WriteRoom(w) = room - n
    BY <1>1, <2>1, WrittenIs DEF Going, Ready
  <2> DEFINE e == watch_file(c)
             i == IF c.file_interest = "none" THEN "none" ELSE "READ"
  <2>5. /\ e = [c EXCEPT !.file_interest = i] /\ e \in ConnRecord
        /\ e.retrieve_buffer = b /\ e.write_buffer = c.write_buffer /\ WriteRoom(e) = room
    BY <1>0 DEF watch_file, ConnRecord, WriteRoom
  <2>6. Put(e, u) = [e EXCEPT !.write_buffer = w.write_buffer]
    <3>1. Fit(u, room) = u
      BY <1>1, <2>1 DEF Fit
    <3>2. Put(c, u) = w
      BY <3>1, PutWrites DEF Going, Ready
    <3>3. Put(c, u) = [c EXCEPT !.write_buffer = Q!WriteN(c.write_buffer, u, WriteSize)]
      BY DEF Put
    <3>4. w.write_buffer = Q!WriteN(c.write_buffer, u, WriteSize)
      BY <1>0, <3>2, <3>3 DEF ConnRecord
    <3>5. QED
      BY <2>5, <3>4 DEF Put
  <2>8. d = [[[c EXCEPT !.file_interest = i] EXCEPT !.write_buffer = w.write_buffer]
                EXCEPT !.retrieve_buffer = x]
    <3>1. d = transfer(e)
      BY <1>3
    <3>2. transfer(e) = [Put(e, u) EXCEPT !.retrieve_buffer = Q!ReadAdv(@, n)]
      BY <2>5 DEF transfer, n, x
    <3>3. Put(e, u).retrieve_buffer = b
      BY <2>5, <2>6 DEF ConnRecord
    <3> HIDE DEF d, e
    <3>4. QED
      BY <2>5, <2>6, <3>1, <3>2, <3>3 DEF x
  <2>9. w.write_buffer = [gap |-> c.write_buffer.gap, bytes |-> c.write_buffer.bytes \o u]
    BY <1>0 DEF Written, ConnRecord
  <2>10. w.write_buffer \in QueueOf(Unit) /\ Sized(w.write_buffer, WriteSize)
    BY <2>4 DEF Shape, ConnRecord, Buffered
  <2> HIDE DEF w, u, e, d
  <2>11. /\ d \in ConnRecord /\ d.file_interest = i /\ d.write_buffer = w.write_buffer
         /\ d.retrieve_buffer = x /\ d.state = c.state /\ d.interest = c.interest
         /\ d.read_buffer = c.read_buffer /\ d.parsing = c.parsing /\ d.command = c.command
         /\ d.finished = c.finished /\ d.written = c.written /\ d.filed_fd = c.filed_fd
         /\ d.file_pos = c.file_pos /\ d.finished_reading = c.finished_reading
    BY <1>0, <2>0, <2>8, <2>10 DEF ConnRecord
  <2> HIDE DEF i
  <2>12. Len(x.bytes) = Len(b.bytes) - n
    BY <2>3, <2>0 DEF Run
  <2>22. /\ p + n = 1 + c.file_pos - Len(x.bytes)
         /\ Len(x.bytes) <= c.file_pos /\ Len(x.bytes) \in Nat
    <3> DEFINE lb == Len(b.bytes)
               lx == Len(x.bytes)
               f == c.file_pos
    <3>1. lb \in Nat /\ f \in Nat /\ lb <= f /\ p = 1 + f - lb
      BY <1>0
    <3>2. n \in Nat /\ n <= lb /\ lx = lb - n
      BY <1>1, <2>12
    <3> HIDE DEF lb, lx, f, p
    <3>3. p + n = 1 + f - lx /\ lx <= f /\ lx \in Nat
      BY <3>1, <3>2
    <3>4. QED
      BY <3>3 DEF lb, lx, f
  <2>13. Buffered(d)
    BY <2>0, <2>10, <2>11 DEF Buffered, Going, Ready, Shape
  <2>14. Files(d)
    BY <2>11, GoingFacts DEF Files, i
  <2>15. Progress(d) = p + n
    <3>1. Progress(d) = 1 + c.file_pos - Len(x.bytes)
      BY <2>11, GoingFacts DEF Progress
    <3>2. QED
      BY <2>22, <3>1
  <2>16. InRetrieval(d)
    <3>2. Run(x.bytes, k, p + n, Len(x.bytes))
      BY <2>3, <2>0, <2>12
    <3>3. QED
      BY <2>11, <2>22, <3>2, GoingFacts DEF InRetrieval, Going
  <2>17. Shape(d)
    BY <2>11, <2>13, <2>14, <2>16, GoingFacts DEF Shape, Answering
  <2>18. Going(d)
    BY <2>11, <2>17, GoingFacts DEF Going, Ready
  <2>19. WriteRoom(d) > 0 => d.retrieve_buffer.bytes = <<>>
    <3>1. WriteRoom(d) = room - n
      BY <2>4, <2>11 DEF WriteRoom
    <3>2. room - n > 0 => n = Len(b.bytes)
      BY <1>0, <1>1
    <3>3. n = Len(b.bytes) => Len(x.bytes) = 0
      BY <1>0, <2>12
    <3>4. x.bytes \in Seq(Unit)
      BY <2>3, <2>0 DEF Run
    <3>5. QED
      BY <2>11, <3>1, <3>2, <3>3, <3>4
  <2>20. Part(c, d, u, p, all)
    <3>1. Steps(u, k, p, p + n)
      BY SMTT(30), <1>0, <1>1, <2>3, RunSteps
    <3>2. (p + n) - p = n
      <4> HIDE DEF p
      <4>1. QED
        BY <1>0, <1>1
    <3>3. QED
      BY <2>3, <2>9, <2>11, <2>15, <2>17, <3>1, <3>2 DEF Part
  <2>21. QED
    BY <2>1, <2>11, <2>18, <2>19, <2>20 DEF d
<1>4. QED
  BY <1>2, <1>3

LEMMA UnfinishedCommutes ==
  ASSUME NEW c \in ConnRecord
  PROVE  LET s == [c EXCEPT !.finished = FALSE]
         IN /\ WriteRoom(s) = WriteRoom(c)
            /\ [transfer(watch_file(c)) EXCEPT !.finished = FALSE] = transfer(watch_file(s))
<1> DEFINE s == [c EXCEPT !.finished = FALSE]
           i == IF c.file_interest = "none" THEN "none" ELSE "READ"
           wc == [c EXCEPT !.file_interest = i]
           ws == [s EXCEPT !.file_interest = i]
           b == c.retrieve_buffer
           n == Min({Len(b.bytes), WriteRoom(c)})
           v == SubSeq(b.bytes, 1, n)
           q == Q!WriteN(c.write_buffer, v, WriteSize)
           x == Q!ReadAdv(b, n)
<1>1. watch_file(c) = wc /\ watch_file(s) = ws
  BY DEF watch_file, ConnRecord
<1>2. /\ WriteRoom(s) = WriteRoom(c) /\ WriteRoom(wc) = WriteRoom(c) /\ WriteRoom(ws) = WriteRoom(c)
      /\ wc.retrieve_buffer = b /\ ws.retrieve_buffer = b
      /\ wc.write_buffer = c.write_buffer /\ ws.write_buffer = c.write_buffer
  BY DEF WriteRoom, ConnRecord
<1>3. transfer(wc) = [[wc EXCEPT !.write_buffer = q] EXCEPT !.retrieve_buffer = x]
  <2>1. transfer(wc) = [Put(wc, v) EXCEPT !.retrieve_buffer = Q!ReadAdv(@, n)]
    BY <1>2 DEF transfer
  <2>2. Put(wc, v) = [wc EXCEPT !.write_buffer = q]
    BY <1>2 DEF Put
  <2>3. [wc EXCEPT !.write_buffer = q].retrieve_buffer = b
    BY <1>2 DEF ConnRecord
  <2> HIDE DEF wc, v, n, q
  <2>4. QED
    BY <2>1, <2>2, <2>3
<1>4. transfer(ws) = [[ws EXCEPT !.write_buffer = q] EXCEPT !.retrieve_buffer = x]
  <2>1. transfer(ws) = [Put(ws, v) EXCEPT !.retrieve_buffer = Q!ReadAdv(@, n)]
    BY <1>2 DEF transfer
  <2>2. Put(ws, v) = [ws EXCEPT !.write_buffer = q]
    BY <1>2 DEF Put
  <2>3. [ws EXCEPT !.write_buffer = q].retrieve_buffer = b
    BY <1>2 DEF ConnRecord
  <2> HIDE DEF ws, v, n, q
  <2>4. QED
    BY <2>1, <2>2, <2>3
<1> HIDE DEF q, x, i
<1>5. [[[wc EXCEPT !.write_buffer = q] EXCEPT !.retrieve_buffer = x] EXCEPT !.finished = FALSE]
        = [[ws EXCEPT !.write_buffer = q] EXCEPT !.retrieve_buffer = x]
  BY DEF ConnRecord
<1> HIDE DEF s, wc, ws
<1>6. QED
  BY <1>1, <1>2, <1>3, <1>4, <1>5 DEF s

(* The terminator, when there is room for it.                              *)
LEMMA RetrievalFinishes ==
  ASSUME NEW c, Going(c), WorldType, NEW all \in BOOLEAN, c.finished_reading = TRUE,
         WriteRoom(c) > 0 => c.retrieve_buffer.bytes = <<>>,
         all => c.file_pos = MailLen
  PROVE  LET d == finish_mail_retrieval(c)
         IN /\ d.finished_reading => d = c
            /\ \E u \in Seq(Unit) : Part(c, d, u, Progress(c), all)
<1> DEFINE k == c.command
           m == MailLen + 2
           v == Units(k, m, m)
           p == Progress(c)
           w == Written(c, v)
           d == finish_mail_retrieval(c)
<1>0. /\ c \in ConnRecord /\ k \in Nat /\ p \in Nat /\ WriteRoom(c) \in Nat
      /\ c.write_buffer.bytes \in Seq(Unit) /\ c.write_buffer \in QueueOf(Unit)
      /\ c.file_pos \in Nat /\ c.file_pos <= MailLen /\ c.written = 0
      /\ c.file_interest = "none" /\ AnswerLen(k) = m
      /\ p = 1 + c.file_pos - Len(c.retrieve_buffer.bytes)
  BY GoingFacts, RoomIs DEF Going, Ready, Shape, ConnRecord
<1>1. CASE WriteRoom(c) = 0
  <2>1. d = c
    BY <1>1 DEF finish_mail_retrieval
  <2> HIDE DEF p
  <2>2. Part(c, c, <<>>, p, all)
    <3>1. c.write_buffer = [gap |-> c.write_buffer.gap, bytes |-> c.write_buffer.bytes \o <<>>]
      BY <1>0, ConcatEmptySeq DEF QueueOf
    <3>2. Steps(<<>>, k, p, p)
      BY <1>0, NoSteps
    <3>3. Run(<<>>, k, p, p - p)
      BY <1>0 DEF Run
    <3>4. QED
      BY <3>1, <3>2, <3>3 DEF Part, Going, Ready, p
  <2>3. <<>> \in Seq(Unit)
    OBVIOUS
  <2> HIDE DEF d
  <2>4. QED
    BY <2>1, <2>2, <2>3 DEF d, p
<1>2. CASE WriteRoom(c) # 0
  <2>1. c.retrieve_buffer.bytes = <<>> /\ Len(c.retrieve_buffer.bytes) = 0
    BY <1>0, <1>2
  <2>2. c.retrieve_buffer = Q!Empty
    BY <2>1, GoingFacts DEF Sized
  <2>3. p = 1 + c.file_pos
    BY <1>0, <2>1
  <2>4. Run(v, k, MailLen + 1, 1) /\ MailLen + 1 \in Nat /\ m \in Nat
    <3>1. MailLen + 1 \in Nat /\ m = (MailLen + 1) + 1 /\ m \in Nat /\ 1 \in Nat
      BY SizesTyped
    <3>2. QED
      BY <1>0, <3>1, UnitsRun
  <2> HIDE DEF v
  <2>5. v \in Seq(Unit) /\ Len(v) = 1 /\ Len(v) <= WriteRoom(c)
    BY <1>0, <1>2, <2>4 DEF Run
  <2>6. Put(c, v) = w
    <3>1. Fit(v, WriteRoom(c)) = v
      BY <2>5 DEF Fit
    <3>2. QED
      BY <3>1, PutWrites DEF Going, Ready
  <2>7. Shape(w)
    BY <2>5, WrittenIs DEF Going, Ready
  <2>8. d = [[[w EXCEPT !.filed_fd = "none"] EXCEPT !.finished_reading = FALSE] EXCEPT !.finished = TRUE]
    BY <1>2, <2>6 DEF finish_mail_retrieval, v
  <2>9. /\ w.interest = c.interest /\ w.read_buffer = c.read_buffer /\ w.state = c.state
        /\ w.command = c.command /\ w.parsing = c.parsing /\ w.written = c.written
        /\ w.file_interest = c.file_interest /\ w.retrieve_buffer = c.retrieve_buffer
        /\ w.write_buffer = [gap |-> c.write_buffer.gap, bytes |-> c.write_buffer.bytes \o v]
    BY <1>0 DEF Written, ConnRecord
  <2> HIDE DEF w, d
  <2>10. /\ d \in ConnRecord /\ d.finished = TRUE /\ d.filed_fd = "none" /\ d.finished_reading = FALSE
         /\ d.interest = w.interest /\ d.read_buffer = w.read_buffer /\ d.state = w.state
         /\ d.command = w.command /\ d.parsing = w.parsing /\ d.written = w.written
         /\ d.file_interest = w.file_interest /\ d.retrieve_buffer = w.retrieve_buffer
         /\ d.write_buffer = w.write_buffer
    BY <2>7, <2>8 DEF Shape, ConnRecord
  <2>11. Buffered(d)
    BY <2>7, <2>10 DEF Shape, Buffered
  <2>12. Files(d) /\ Answering(d)
    BY <1>0, <2>2, <2>9, <2>10 DEF Files, Answering
  <2>13. Shape(d)
    BY <2>10, <2>11, <2>12 DEF Shape
  <2>14. Progress(d) = m
    BY <1>0, <2>9, <2>10 DEF Progress
  <2>15. Steps(v, k, p, m)
    <3>1. /\ v \in Seq(Unit) /\ Len(v) = 1 /\ v[1] = <<k, m>>
      <4>1. (MailLen + 1) + 1 = m
        BY SizesTyped
      <4>2. v[1] = <<k, (MailLen + 1) + 1>>
        BY <2>4 DEF Run
      <4>3. QED
        BY <2>5, <4>1, <4>2
    <3>2. p < m /\ p <= m /\ m <= m
      BY <1>0, <2>3, SizesTyped
    <3>3. \A i \in 1 .. Len(v) : i = 1
      BY <3>1
    <3>4. v[1][1] = k /\ v[1][2] = m
      BY <3>1
    <3> HIDE DEF m, p, k
    <3>5. QED
      BY <1>0, <2>4, <3>1, <3>2, <3>3, <3>4 DEF Steps
  <2>16. ASSUME all PROVE Run(v, k, p, m - p)
    <3>1. p = MailLen + 1 /\ m - p = 1
      BY <2>3, <2>16, SizesTyped
    <3>2. QED
      BY <2>4, <3>1
  <2>17. Part(c, d, v, p, all)
    BY <2>9, <2>10, <2>13, <2>14, <2>15, <2>16 DEF Part
  <2>18. QED
    BY <2>5, <2>10, <2>17 DEF d
<1>3. QED
  BY <1>1, <1>2

(* What RETR does after its first line was written.                        *)
LEMMA RetrievalGoesOn ==
  ASSUME NEW c, Going(c), WorldType, NEW all \in BOOLEAN,
         all => (c.finished_reading => c.file_pos = MailLen)
  PROVE  LET e == IF WriteRoom(c) = 0 THEN c ELSE transfer(watch_file(c))
             d == IF e.finished_reading THEN finish_mail_retrieval(e) ELSE e
         IN /\ \E u \in Seq(Unit) : Part(c, d, u, Progress(c), all)
            /\ all => (d.finished_reading => d.file_pos = MailLen)
<1> DEFINE e == IF WriteRoom(c) = 0 THEN c ELSE transfer(watch_file(c))
           d == IF e.finished_reading THEN finish_mail_retrieval(e) ELSE e
<1>1. /\ Going(e) /\ e.finished_reading = c.finished_reading /\ e.file_pos = c.file_pos
      /\ WriteRoom(e) > 0 => e.retrieve_buffer.bytes = <<>>
      /\ \E u \in Seq(Unit) : Part(c, e, u, Progress(c), all)
  BY Moved
<1> HIDE DEF e
<1>2. PICK u \in Seq(Unit) : Part(c, e, u, Progress(c), all)
  BY <1>1
<1>3. e.finished_reading \in BOOLEAN
  <2>1. e \in ConnRecord
    BY <1>1, GoingFacts
  <2>2. QED
    BY <2>1 DEF ConnRecord
<1>4. CASE e.finished_reading = FALSE
  <2>1. d = e
    BY <1>4
  <2>2. QED
    BY <1>2, <1>4, <2>1 DEF e
<1>5. CASE e.finished_reading = TRUE
  <2>1. d = finish_mail_retrieval(e)
    BY <1>5
  <2>2. all => e.file_pos = MailLen
    BY <1>1, <1>5
  <2> HIDE DEF d
  <2>3. /\ d.finished_reading => d = e
        /\ \E v \in Seq(Unit) : Part(e, d, v, Progress(e), all)
    BY <1>1, <1>5, <2>1, <2>2, RetrievalFinishes
  <2>4. PICK v \in Seq(Unit) : Part(e, d, v, Progress(e), all)
    BY <2>3
  <2>5. c.write_buffer.bytes \in Seq(Unit)
    BY GoingFacts
  <2>6. Part(c, d, u \o v, Progress(c), all)
    BY <1>2, <2>4, <2>5, PartsConcat
  <2>7. u \o v \in Seq(Unit)
    BY ConcatProperties
  <2>8. all => (d.finished_reading => d.file_pos = MailLen)
    BY <2>2, <2>3
  <2>9. QED
    BY <2>6, <2>7, <2>8 DEF d, e
<1>6. QED
  BY <1>3, <1>4, <1>5

(* A retrieval that goes on, and one that was just begun: d is what        *)
(* transfer_mail() makes of s0, which is c after it wrote u.               *)
LEMMA TransferRan ==
  ASSUME NEW c, Ready(c), WorldType, NEW s0 \in ConnRecord,
         LET s == [s0 EXCEPT !.finished = FALSE]
         IN /\ Going(s)
            /\ Ample(c) => (s.finished_reading => s.file_pos = MailLen)
            /\ \E u \in Seq(Unit) : Part(c, s, u, Begun(c), IF Ample(c) THEN TRUE ELSE FALSE),
         script[c.command] # "QUIT"
  PROVE  \E u \in Seq(Unit) : Ran(c, transfer_mail(s0), u)
<1> DEFINE s == [s0 EXCEPT !.finished = FALSE]
           m0 == IF WriteRoom(s0) = 0 THEN s0 ELSE transfer(watch_file(s0))
           e == IF WriteRoom(s) = 0 THEN s ELSE transfer(watch_file(s))
           e0 == [m0 EXCEPT !.finished = FALSE]
           d == transfer_mail(s0)
           all == IF Ample(c) THEN TRUE ELSE FALSE
<1>0. /\ c \in ConnRecord /\ c.state = "OPEN" /\ c.write_buffer.bytes \in Seq(Unit)
      /\ all \in BOOLEAN
  BY DEF Ready, Shape, ConnRecord, QueueOf
<1>1. /\ Going(s)
      /\ all => (s.finished_reading => s.file_pos = MailLen)
      /\ \E u \in Seq(Unit) : Part(c, s, u, Begun(c), all)
  OBVIOUS
<1>2. e0 = e
  <2>1. WriteRoom(s) = WriteRoom(s0) /\ [transfer(watch_file(s0)) EXCEPT !.finished = FALSE] = transfer(watch_file(s))
    BY UnfinishedCommutes
  <2>2. CASE WriteRoom(s0) = 0
    BY <2>1, <2>2
  <2>3. CASE WriteRoom(s0) # 0
    BY <2>1, <2>3
  <2>4. QED
    BY <2>2, <2>3
<1>3. d = IF e0.finished_reading THEN finish_mail_retrieval(e0) ELSE e0
  BY DEF transfer_mail
<1>4. d = IF e.finished_reading THEN finish_mail_retrieval(e) ELSE e
  BY <1>2, <1>3
<1> HIDE DEF s, d, all, e0
<1>5. /\ \E v \in Seq(Unit) : Part(s, d, v, Progress(s), all)
      /\ all => (d.finished_reading => d.file_pos = MailLen)
  BY <1>0, <1>1, <1>4, RetrievalGoesOn
<1>6. PICK u \in Seq(Unit) : Part(c, s, u, Begun(c), all)
  BY <1>1
<1>7. PICK v \in Seq(Unit) : Part(s, d, v, Progress(s), all)
  BY <1>5
<1>8. Part(c, d, u \o v, Begun(c), all)
  BY <1>0, <1>6, <1>7, PartsConcat
<1>9. u \o v \in Seq(Unit)
  BY ConcatProperties
<1>10. Ran(c, d, u \o v)
  BY <1>0, <1>5, <1>8 DEF Ran, Part, all
<1>11. QED
  BY <1>9, <1>10 DEF d

(* RETR, begun.                                                            *)
LEMMA RetrieveBegins ==
  ASSUME NEW c, Ready(c), WorldType, request(c.command) = "RETR", c.filed_fd = "none"
  PROVE  \E u \in Seq(Unit) : Ran(c, retrieve_mail(c), u)
<1> DEFINE k == c.command
           w == Put(c, Units(k, 1, 1))
           s0 == setup_mail_retrieval(w)
           s == [s0 EXCEPT !.finished = FALSE]
           all == IF Ample(c) THEN TRUE ELSE FALSE
<1>0. k \in Nat /\ c.finished /\ Begun(c) = 0 /\ script[k] # "QUIT"
  BY ReadyFacts, Requested DEF Ready
<1>1. s0 \in ConnRecord
  <2> DEFINE u == Fit(Units(k, 1, 1), WriteRoom(c))
  <2>1. w = Written(c, u)
    BY PutWrites DEF Ready
  <2>2. Units(k, 1, 1) \in Seq(Unit)
    <3>1. 1 = 0 + 1 /\ 0 \in Nat /\ 1 \in Nat
      OBVIOUS
    <3>2. Run(Units(k, 1, 1), k, 0, 1)
      BY <1>0, <3>1, UnitsRun
    <3>3. QED
      BY <3>2 DEF Run
  <2>3. u \in Seq(Unit) /\ Len(u) <= WriteRoom(c)
    BY <2>2, RoomIs, FitIs DEF Ready
  <2>4. w \in ConnRecord
    BY <2>1, <2>3, WrittenIs DEF Ready, Shape
  <2> HIDE DEF w
  <2>5. QED
    BY <2>4 DEF setup_mail_retrieval, ConnRecord
<1>2. /\ Going(s) /\ s.finished_reading = FALSE
      /\ \E u \in Seq(Unit) : Part(c, s, u, 0, WriteRoom(c) >= 2)
  BY <1>0, RetrievalStarts
<1>3. retrieve_mail(c) = transfer_mail(s0)
  BY DEF retrieve_mail
<1> HIDE DEF s0
<1>4. \E u \in Seq(Unit) : Part(c, s, u, Begun(c), all)
  <2>1. PICK u \in Seq(Unit) : Part(c, s, u, 0, WriteRoom(c) >= 2)
    BY <1>2
  <2>2. all => WriteRoom(c) >= 2
    BY <1>0 DEF Ample
  <2> HIDE DEF s, all
  <2>3. Part(c, s, u, 0, all)
    BY <2>1, <2>2 DEF Part
  <2>4. QED
    BY <1>0, <2>3
<1>5. QED
  BY <1>0, <1>1, <1>2, <1>3, <1>4, TransferRan

(* RETR, gone on with.                                                     *)
LEMMA RetrieveContinues ==
  ASSUME NEW c, Going(c), WorldType
  PROVE  \E u \in Seq(Unit) : Ran(c, retrieve_mail(c), u)
<1> DEFINE p == Progress(c)
           all == IF Ample(c) THEN TRUE ELSE FALSE
           s == [c EXCEPT !.finished = FALSE]
<1>1. /\ c \in ConnRecord /\ c.finished = FALSE /\ p \in Nat /\ Begun(c) = p
      /\ request(c.command) = "RETR" /\ c.filed_fd = "open" /\ Ready(c)
      /\ c.command \in Nat
  BY GoingFacts DEF Going
<1>2. script[c.command] # "QUIT"
  BY <1>1, Requested DEF Ready
<1>3. retrieve_mail(c) = transfer_mail(c)
  BY <1>1 DEF retrieve_mail
<1>4. s = c
  BY <1>1 DEF ConnRecord
<1> HIDE DEF p, s
<1>5. Part(c, c, <<>>, p, all)
  <2>1. c.write_buffer = [gap |-> c.write_buffer.gap, bytes |-> c.write_buffer.bytes \o <<>>]
    BY <1>1, ConcatEmptySeq DEF ConnRecord, QueueOf
  <2>2. Steps(<<>>, c.command, p, p)
    BY <1>1, NoSteps
  <2>3. Run(<<>>, c.command, p, p - p)
    BY <1>1 DEF Run
  <2>4. QED
    BY <1>1, <2>1, <2>2, <2>3 DEF Part, Ready, p
<1>6. <<>> \in Seq(Unit)
  OBVIOUS
<1>7. Ample(c) => (c.finished_reading => c.file_pos = MailLen)
  BY DEF Ample
<1> HIDE DEF all
<1>8. \E u \in Seq(Unit) : Part(c, s, u, Begun(c), all)
  BY <1>1, <1>4, <1>5, <1>6
<1>9. QED
  BY <1>1, <1>2, <1>3, <1>4, <1>7, <1>8, TransferRan DEF s, all

(* RETR, when the number of a file that was never registered is in its     *)
(* way: nothing is written, now or later.                                  *)
LEMMA RetrieveStops ==
  ASSUME NEW c, Ready(c), WorldType, request(c.command) \in Retrieval, c.filed_fd = "stale"
  PROVE  \E u \in Seq(Unit) : Ran(c, retrieve_mail(c), u)
<1> DEFINE d == [c EXCEPT !.finished = FALSE]
<1>0. /\ c \in ConnRecord /\ c.state = "OPEN" /\ c.command \in Nat
      /\ c.finished_reading \in BOOLEAN /\ WriteRoom(c) \in Nat
      /\ c.file_interest \in {"none", "READ", "NOOP"}
      /\ c.finished \in BOOLEAN /\ Files(c) /\ Buffered(c) /\ Answering(c)
      /\ script[c.command] # "QUIT"
  BY Requested, RoomIs DEF Ready, Shape, ConnRecord, Retrieval
<1>1. c.written = 0 /\ c.retrieve_buffer = Q!Empty
  BY <1>0 DEF Answering, InList, InRetrieval, Stuck, Retrieval
<1>2. c.file_interest = "none" /\ c.finished_reading = FALSE /\ Begun(c) = 0
  BY <1>0, <1>1 DEF Files, Begun, Progress
<1>3. watch_file(c) = c
  BY <1>0, <1>2 DEF watch_file, ConnRecord
<1>4. transfer(c) = c
  <2> DEFINE n == Min({Len(c.retrieve_buffer.bytes), WriteRoom(c)})
             v == SubSeq(c.retrieve_buffer.bytes, 1, n)
  <2>1. c.retrieve_buffer.bytes = <<>> /\ Len(c.retrieve_buffer.bytes) = 0
    BY <1>1 DEF Q!Empty
  <2>2. n = 0
    BY <1>0, <2>1, MinOfTwo
  <2>3. v = <<>>
    BY <2>1, <2>2
  <2>4. Q!ReadAdv(c.retrieve_buffer, n) = c.retrieve_buffer
    BY <1>1, <2>1, <2>2 DEF Q!ReadAdv
  <2>5. Put(c, v) = c
    <3>1. Fit(<<>>, WriteRoom(c)) = <<>>
      BY <1>0 DEF Fit
    <3>2. Put(c, v) = Written(c, <<>>)
      BY <2>3, <3>1, PutWrites DEF Ready
    <3>3. c.write_buffer = [gap |-> c.write_buffer.gap, bytes |-> c.write_buffer.bytes \o <<>>]
      BY <1>0, ConcatEmptySeq DEF ConnRecord, QueueOf
    <3>4. QED
      BY <1>0, <3>2, <3>3 DEF Written, ConnRecord
  <2>6. transfer(c) = [Put(c, v) EXCEPT !.retrieve_buffer = Q!ReadAdv(@, n)]
    BY DEF transfer
  <2> HIDE DEF v, n
  <2>7. QED
    BY <1>0, <2>4, <2>5, <2>6 DEF ConnRecord
<1>5. /\ d \in ConnRecord /\ d.finished = FALSE
      /\ d.state = c.state /\ d.interest = c.interest /\ d.read_buffer = c.read_buffer
      /\ d.command = c.command /\ d.parsing = c.parsing /\ d.written = c.written
      /\ d.filed_fd = c.filed_fd /\ d.file_interest = c.file_interest
      /\ d.file_pos = c.file_pos /\ d.finished_reading = c.finished_reading
      /\ d.retrieve_buffer = c.retrieve_buffer /\ d.write_buffer = c.write_buffer
  BY <1>0 DEF ConnRecord
<1>6. retrieve_mail(c) = d
  <2>1. retrieve_mail(c) = transfer_mail(c)
    BY DEF retrieve_mail
  <2>2. transfer_mail(c) = IF d.finished_reading THEN finish_mail_retrieval(d) ELSE d
    BY <1>3, <1>4 DEF transfer_mail
  <2>3. QED
    BY <1>2, <1>5, <2>1, <2>2
<1> HIDE DEF d
<1>7. Buffered(d) /\ Files(d)
  BY <1>0, <1>2, <1>5 DEF Buffered, Files
<1>8. Answering(d) /\ Progress(d) = 0
  BY <1>0, <1>1, <1>5 DEF Answering, Stuck, Progress
<1>9. c.write_buffer = [gap |-> c.write_buffer.gap, bytes |-> c.write_buffer.bytes \o <<>>]
  BY <1>0, ConcatEmptySeq DEF ConnRecord, QueueOf
<1>10. Steps(<<>>, c.command, 0, 0) /\ Run(<<>>, c.command, 0, 0 - 0)
  BY <1>0, NoSteps DEF Run
<1>11. Ran(c, d, <<>>)
  BY <1>0, <1>2, <1>5, <1>7, <1>8, <1>9, <1>10 DEF Ran, Shape
<1>12. <<>> \in Seq(Unit)
  OBVIOUS
<1>13. QED
  BY <1>6, <1>11, <1>12

(* RETR, whatever becomes of it.                                           *)
LEMMA RetrieveRan ==
  ASSUME NEW c, Ready(c), WorldType, request(c.command) \in Retrieval
  PROVE  \E u \in Seq(Unit) : Ran(c, retrieve_mail(c), u)
<1>1. c.filed_fd \in {"none", "open", "stale"}
  BY DEF Ready, Shape, ConnRecord
<1>2. CASE c.filed_fd = "open"
  <2>1. Going(c)
    BY <1>2, ReadyFacts DEF Going
  <2>2. QED
    BY <2>1, RetrieveContinues
<1>3. CASE c.filed_fd = "stale"
  BY <1>3, RetrieveStops
<1>4. CASE c.filed_fd = "none" /\ request(c.command) = "RETR"
  BY <1>4, RetrieveBegins
<1>5. CASE c.filed_fd = "none" /\ request(c.command) # "RETR"
  <2>1. retrieve_mail(c) = retrieval_fails(c)
    BY <1>5 DEF retrieve_mail
  <2>2. QED
    BY <1>5, <2>1, RetrievalFailsRan
<1>6. QED
  BY <1>1, <1>2, <1>3, <1>4, <1>5

(* Whatever the command: it is run within the buffers, writes units of its *)
(* answer in order, and all of those that follow if there is room at once. *)
LEMMA ActionRan ==
  ASSUME NEW c, Ready(c), WorldType
  PROVE  \E u \in Seq(Unit) : Ran(c, run_action(c), u)
<1>1. c.state = "OPEN" /\ request(c.command) \in Kind
  BY AnswerLens DEF Ready
<1>2. CASE request(c.command) = "NOOP"
  <2>1. run_action(c) = SingleLine(c)
    BY <1>1, <1>2 DEF run_action, Retrieval
  <2>2. QED
    BY <1>2, <2>1, SingleLineRan
<1>3. CASE request(c.command) = "STAT"
  <2>1. run_action(c) = PrintedLine(c)
    BY <1>1, <1>3 DEF run_action, Retrieval
  <2>2. QED
    BY <1>3, <2>1, PrintedLineRan
<1>4. CASE request(c.command) = "LIST"
  <2>1. run_action(c) = list_mails(c)
    BY <1>1, <1>4 DEF run_action, Retrieval
  <2>2. QED
    BY <1>4, <2>1, ListRan
<1>5. CASE request(c.command) \in Retrieval
  <2>1. run_action(c) = retrieve_mail(c)
    BY <1>1, <1>5 DEF run_action, Retrieval
  <2>2. QED
    BY <1>5, <2>1, RetrieveRan
<1>6. CASE request(c.command) = "QUIT"
  <2>1. run_action(c) = quit(c)
    BY <1>1, <1>6 DEF run_action, Retrieval
  <2>2. QED
    BY <1>6, <2>1, QuitRan
<1>7. QED
  BY <1>1, <1>2, <1>3, <1>4, <1>5, <1>6 DEF Kind, Retrieval

-----------------------------------------------------------------------------
(* What parsing a command does. *)

(* The fragments of f follow the m-th that the client sent.                *)
Numbered(f, m) ==
  f \in Seq(Frag) /\ \A i \in 1 .. Len(f) : f[i] = Fragment(m + i)

(* The fragments of the k-th command are the (2k - 1)-th and the 2k-th.    *)
LEMMA Halves ==
  ASSUME NEW k \in Nat
  PROVE  /\ Fragment(2 * k + 1) = [command |-> k + 1, last |-> FALSE]
         /\ Fragment(2 * k + 2) = [command |-> k + 1, last |-> TRUE]
<1>1. ((2 * k + 1) + 1) \div 2 = k + 1 /\ ((2 * k + 2) + 1) \div 2 = k + 1
  OBVIOUS
<1>2. (((2 * k + 1) % 2) = 0) = FALSE /\ (((2 * k + 2) % 2) = 0) = TRUE
  OBVIOUS
<1> DEFINE n1 == 2 * k + 1
           n2 == 2 * k + 2
<1>3. (n1 + 1) \div 2 = k + 1 /\ (n2 + 1) \div 2 = k + 1 /\ ((n1 % 2) = 0) = FALSE /\ ((n2 % 2) = 0) = TRUE
  BY <1>1, <1>2
<1> HIDE DEF n1, n2
<1>4. Fragment(n1) = [command |-> k + 1, last |-> FALSE] /\ Fragment(n2) = [command |-> k + 1, last |-> TRUE]
  BY <1>3, Zenon DEF Fragment
<1>5. QED
  BY <1>4 DEF n1, n2

(* What is left after the first j of a numbered stream is numbered.        *)
LEMMA NumberedDrop ==
  ASSUME NEW b \in Seq(Frag), NEW t \in Seq(Frag), NEW m \in Nat, Numbered(b \o t, m),
         NEW j \in 0 .. Len(b)
  PROVE  Numbered(SubSeq(b, j + 1, Len(b)) \o t, m + j)
<1> DEFINE r == SubSeq(b, j + 1, Len(b))
           lb == Len(b)
           lt == Len(t)
<1>1. /\ r \in Seq(Frag) /\ Len(r) = lb - j /\ lb \in Nat /\ lt \in Nat
      /\ \A i \in 1 .. lb - j : r[i] = b[j + i]
  OBVIOUS
<1> HIDE DEF r
<1>2. /\ r \o t \in Seq(Frag) /\ Len(r \o t) = (lb - j) + lt
      /\ \A i \in 1 .. (lb - j) + lt : (r \o t)[i] = IF i <= lb - j THEN r[i] ELSE t[i - (lb - j)]
  <2> DEFINE lr == Len(r)
  <2>1. /\ r \o t \in Seq(Frag) /\ Len(r \o t) = lr + lt
        /\ \A i \in 1 .. lr + lt : (r \o t)[i] = IF i <= lr THEN r[i] ELSE t[i - lr]
    BY <1>1, ConcatProperties
  <2>2. lr = lb - j
    BY <1>1
  <2> HIDE DEF lr, lb, lt
  <2>3. QED
    BY <2>1, <2>2
<1>3. /\ Len(b \o t) = lb + lt
      /\ \A i \in 1 .. lb + lt : (b \o t)[i] = IF i <= lb THEN b[i] ELSE t[i - lb]
  BY ConcatProperties
<1>4. \A i \in 1 .. lb + lt : (b \o t)[i] = Fragment(m + i)
  BY <1>3 DEF Numbered
<1> HIDE DEF lb, lt
<1>5. j \in Nat /\ j <= lb
  BY <1>1 DEF lb
<1>6. ASSUME NEW i \in 1 .. (lb - j) + lt PROVE (r \o t)[i] = Fragment((m + j) + i)
  <2>1. j + i \in 1 .. lb + lt /\ m + (j + i) = (m + j) + i
    BY <1>1, <1>5
  <2>2. (b \o t)[j + i] = Fragment((m + j) + i)
    BY <1>4, <2>1
  <2>3. CASE i <= lb - j
    <3>1. i \in 1 .. lb - j /\ j + i <= lb
      BY <1>1, <1>5, <2>3
    <3>2. QED
      BY <1>1, <1>2, <1>3, <2>1, <2>2, <2>3, <3>1
  <2>4. CASE ~(i <= lb - j)
    <3>1. ~(j + i <= lb) /\ (j + i) - lb = i - (lb - j)
      BY <1>1, <1>5, <2>4
    <3>2. QED
      BY <1>2, <1>3, <2>1, <2>2, <2>4, <3>1
  <2>5. QED
    BY <2>3, <2>4
<1>7. QED
  BY <1>2, <1>6 DEF Numbered, r, lb

(* c after a part of a command was parsed, and when it is about to be run. *)
Parsed(c, i, r) == [c EXCEPT !.interest = i, !.read_buffer = r, !.parsing = c.command + 1]
Asked(c, i, r) == [Parsed(c, i, r) EXCEPT !.command = c.command + 1]

(* parser_consume() takes the rest of the command that is under way.       *)
LEMMA Consumes ==
  ASSUME NEW c \in ConnRecord, Sized(c.read_buffer, ReadSize), NEW t \in Seq(Frag),
         NEW m \in {2 * c.command, 2 * c.command + 1},
         Numbered(c.read_buffer.bytes \o t, m), c.read_buffer.bytes # <<>>
  PROVE  \/ /\ Complete(c)
            /\ \E j \in 1 .. Len(c.read_buffer.bytes) :
                 /\ m + j = 2 * (c.command + 1)
                 /\ consume(c) = Parsed(c, c.interest, Q!ReadAdv(c.read_buffer, j))
         \/ /\ ~Complete(c) /\ m = 2 * c.command /\ Len(c.read_buffer.bytes) = 1
            /\ consume(c) = Parsed(c, c.interest, Q!Empty)
<1> DEFINE k == c.command
           b == c.read_buffer.bytes
           lb == Len(b)
           f == 2 * (k + 1) - m
<1>1. k \in Nat /\ b \in Seq(Frag) /\ lb \in Nat /\ m \in Nat
  BY SMTT(30) DEF ConnRecord, QueueOf
<1>2. lb > 0
  BY <1>1
<1>3. \A i \in 1 .. lb : b[i] = Fragment(m + i)
  <2>1. /\ Len(b \o t) = lb + Len(t) /\ Len(t) \in Nat
        /\ \A i \in 1 .. lb + Len(t) : (b \o t)[i] = IF i <= lb THEN b[i] ELSE t[i - lb]
    BY <1>1, ConcatProperties
  <2>2. \A i \in 1 .. lb : i \in 1 .. lb + Len(t) /\ i <= lb
    BY <1>1, <2>1
  <2>3. \A i \in 1 .. lb + Len(t) : (b \o t)[i] = Fragment(m + i)
    BY <2>1 DEF Numbered
  <2>4. QED
    BY <2>1, <2>2, <2>3
<1>4. f \in 1 .. 2 /\ m + f = 2 * k + 2 /\ f \in Nat /\ (f = 2 => m = 2 * k)
  <2>1. CASE m = 2 * k
    <3>1. f = 2
      BY <1>1, <2>1
    <3> HIDE DEF f
    <3>2. QED
      BY <1>1, <2>1, <3>1
  <2>2. CASE m = 2 * k + 1
    <3>1. f = 1
      BY <1>1, <2>2
    <3> HIDE DEF f
    <3>2. QED
      BY <1>1, <2>2, <3>1
  <2>3. QED
    BY <2>1, <2>2
<1>5. Fragment(m + f) = [command |-> k + 1, last |-> TRUE]
  BY <1>1, <1>4, Halves
<1>6. f = 2 => m = 2 * k /\ Fragment(m + 1) = [command |-> k + 1, last |-> FALSE]
  <2>1. f = 2 => m = 2 * k
    BY <1>4
  <2>2. Fragment(2 * k + 1) = [command |-> k + 1, last |-> FALSE]
    BY <1>1, Halves
  <2> HIDE DEF f, k
  <2>3. QED
    BY <2>1, <2>2
<1> HIDE DEF k, b, lb, f
<1>7. CASE f <= lb
  <2>1. f \in 1 .. lb /\ b[f] = [command |-> k + 1, last |-> TRUE]
    <3>1. f \in 1 .. lb
      BY <1>1, <1>4, <1>7
    <3>2. b[f] = Fragment(m + f)
      BY <1>3, <3>1
    <3>3. QED
      BY <1>5, <3>1, <3>2
  <2>2. \A j \in 1 .. f - 1 : ~b[j].last
    <3>1. CASE f = 1
      BY <3>1
    <3>2. CASE f = 2
      <4>1. \A j \in 1 .. f - 1 : j = 1
        BY <3>2
      <4>2. b[1] = [command |-> k + 1, last |-> FALSE]
        BY <1>1, <1>3, <1>6, <1>7, <3>2
      <4>3. ~b[1].last
        BY <4>2
      <4>4. QED
        BY <4>1, <4>3
    <3>3. QED
      BY <1>4, <3>1, <3>2
  <2>3. Complete(c)
    BY <2>1 DEF Complete, b, lb
  <2>4. (CHOOSE i \in 1 .. lb : b[i].last /\ \A j \in 1 .. i - 1 : ~b[j].last) = f
    <3> DEFINE P(i) == b[i].last /\ \A j \in 1 .. i - 1 : ~b[j].last
    <3>1. P(f)
      BY <2>1, <2>2
    <3>2. \A i \in 1 .. lb : P(i) => i = f
      <4>1. SUFFICES ASSUME NEW i \in 1 .. lb, P(i) PROVE i = f
        OBVIOUS
      <4>2. CASE i < f
        <5>1. i \in 1 .. f - 1
          BY <1>4, <4>2
        <5>2. QED
          BY <2>2, <4>1, <5>1
      <4>3. CASE f < i
        <5>1. f \in 1 .. i - 1
          BY <1>4, <4>3
        <5>2. QED
          BY <2>1, <4>1, <5>1
      <4>4. QED
        BY <1>4, <4>2, <4>3
    <3>3. (CHOOSE i \in 1 .. lb : P(i)) = f
      <4> HIDE DEF P
      <4>1. QED
        BY <2>1, <3>1, <3>2
    <3>4. QED
      BY <3>3
  <2>5. consume(c) = [c EXCEPT !.read_buffer = Q!ReadAdv(c.read_buffer, f), !.parsing = b[f].command]
    BY <2>3, <2>4 DEF consume, b, lb
  <2>6. consume(c) = [c EXCEPT !.read_buffer = Q!ReadAdv(c.read_buffer, f), !.parsing = k + 1]
    BY <2>1, <2>5
  <2>7. consume(c) = Parsed(c, c.interest, Q!ReadAdv(c.read_buffer, f))
    <3> DEFINE x == Q!ReadAdv(c.read_buffer, f)
    <3> HIDE DEF x
    <3>1. [c EXCEPT !.read_buffer = x, !.parsing = k + 1]
            = [c EXCEPT !.interest = c.interest, !.read_buffer = x, !.parsing = k + 1]
      BY DEF ConnRecord
    <3>2. QED
      BY <2>6, <3>1 DEF Parsed, x, k
  <2>8. m + f = 2 * (k + 1)
    BY <1>1, <1>4
  <2>9. QED
    BY <2>1, <2>3, <2>7, <2>8 DEF b, lb, k
<1>8. CASE ~(f <= lb)
  <2>1. f = 2 /\ lb = 1
    BY <1>1, <1>2, <1>4, <1>8
  <2>2. b[1] = [command |-> k + 1, last |-> FALSE]
    BY <1>3, <1>6, <2>1
  <2>3. \A i \in 1 .. lb : ~b[i].last
    <3>1. \A i \in 1 .. lb : i = 1
      BY <2>1
    <3>2. QED
      BY <2>2, <3>1
  <2>4. ~Complete(c)
    BY <2>3 DEF Complete, b, lb
  <2>5. consume(c) = [c EXCEPT !.read_buffer = Q!ReadAdv(c.read_buffer, lb), !.parsing = b[lb].command]
    BY <2>4 DEF consume, b, lb
  <2>6. Q!ReadAdv(c.read_buffer, lb) = Q!Empty
    BY DEF Q!ReadAdv, b, lb
  <2>7. consume(c) = [c EXCEPT !.read_buffer = Q!Empty, !.parsing = k + 1]
    <3>1. b[lb].command = k + 1
      BY <2>1, <2>2
    <3>2. QED
      BY <2>5, <2>6, <3>1
  <2>8. consume(c) = Parsed(c, c.interest, Q!Empty)
    <3> DEFINE x == Q!Empty
    <3> HIDE DEF x
    <3>1. [c EXCEPT !.read_buffer = x, !.parsing = k + 1]
            = [c EXCEPT !.interest = c.interest, !.read_buffer = x, !.parsing = k + 1]
      BY DEF ConnRecord
    <3>2. QED
      BY <2>7, <3>1 DEF Parsed, x, k
  <2>9. QED
    BY <1>6, <2>1, <2>4, <2>8 DEF b, lb, k
<1>9. QED
  BY <1>7, <1>8

(* A command that was parsed is ready to run, and is the next one.         *)
LEMMA AskedIs ==
  ASSUME NEW c, Shape(c), c.finished, NEW i \in {"READ", "WRITE"},
         NEW r \in QueueOf(Frag), Sized(r, ReadSize),
         NEW d \in {Parsed(c, i, r), Asked(c, i, r)}
  PROVE  /\ Shape(d) /\ d.interest = i /\ d.read_buffer = r /\ d.parsing = c.command + 1
         /\ d.state = c.state /\ d.finished = c.finished /\ d.write_buffer = c.write_buffer
         /\ d.finished_reading = c.finished_reading /\ d.file_pos = c.file_pos
         /\ d = Parsed(c, i, r) => d.command = c.command
         /\ d = Asked(c, i, r) => d.command = c.command + 1
<1>1. c \in ConnRecord /\ c.command \in Nat /\ c.command + 1 \in Nat /\ i \in {"none", "READ", "WRITE"}
  BY DEF Shape, ConnRecord
<1>2. /\ d \in ConnRecord /\ d.interest = i /\ d.read_buffer = r /\ d.parsing = c.command + 1
      /\ d.state = c.state /\ d.finished = c.finished /\ d.write_buffer = c.write_buffer
      /\ d.finished_reading = c.finished_reading /\ d.file_pos = c.file_pos
      /\ d.written = c.written /\ d.filed_fd = c.filed_fd /\ d.file_interest = c.file_interest
      /\ d.retrieve_buffer = c.retrieve_buffer
      /\ d = Parsed(c, i, r) => d.command = c.command
      /\ d = Asked(c, i, r) => d.command = c.command + 1
  BY ZenonT(60), <1>1 DEF Parsed, Asked, ConnRecord
<1>3. Buffered(d) /\ Files(d) /\ Answering(d)
  BY <1>2 DEF Shape, Buffered, Files, Answering
<1>4. QED
  BY <1>2, <1>3 DEF Shape

(* c when send() took n units.                                             *)
Sent(c, n) == [c EXCEPT !.write_buffer = Q!ReadAdv(@, n)]

(* After send() took n units the shape is what it was.                     *)
LEMMA SentIs ==
  ASSUME NEW c, Shape(c), WorldType, NEW n \in 0 .. Len(c.write_buffer.bytes)
  PROVE  LET d == Sent(c, n) IN
         /\ Shape(d) /\ d.interest = c.interest /\ d.read_buffer = c.read_buffer
         /\ d.parsing = c.parsing /\ d.state = c.state /\ d.finished = c.finished
         /\ d.command = c.command /\ Progress(d) = Progress(c)
         /\ d.finished_reading = c.finished_reading /\ d.file_pos = c.file_pos
         /\ d.filed_fd = c.filed_fd
         /\ d.write_buffer = Q!ReadAdv(c.write_buffer, n)
         /\ d.write_buffer.bytes = SubSeq(c.write_buffer.bytes, n + 1, Len(c.write_buffer.bytes))
<1> DEFINE d == Sent(c, n)
           x == Q!ReadAdv(c.write_buffer, n)
<1>1. c \in ConnRecord /\ c.write_buffer \in QueueOf(Unit) /\ Sized(c.write_buffer, WriteSize)
      /\ WriteSize \in Nat
  BY DEF Shape, ConnRecord, Buffered, WorldType
<1>2. /\ x \in QueueOf(Unit) /\ Sized(x, WriteSize)
      /\ x.bytes = SubSeq(c.write_buffer.bytes, n + 1, Len(c.write_buffer.bytes))
  BY <1>1, ReadAdvIs
<1>3. d = [c EXCEPT !.write_buffer = x]
  BY <1>1 DEF Sent, ConnRecord
<1> HIDE DEF x, d
<1>4. /\ d \in ConnRecord /\ d.interest = c.interest /\ d.read_buffer = c.read_buffer
      /\ d.parsing = c.parsing /\ d.state = c.state /\ d.finished = c.finished
      /\ d.command = c.command
      /\ d.finished_reading = c.finished_reading /\ d.file_pos = c.file_pos
      /\ d.written = c.written /\ d.filed_fd = c.filed_fd /\ d.file_interest = c.file_interest
      /\ d.retrieve_buffer = c.retrieve_buffer /\ d.write_buffer = x
  BY <1>1, <1>2, <1>3 DEF ConnRecord
<1>5. Progress(d) = Progress(c)
  BY <1>4 DEF Progress
<1>6. Buffered(d)
  BY <1>2, <1>4 DEF Shape, Buffered
<1>7. Files(d) /\ Answering(d)
  BY <1>4 DEF Shape, Files, Answering, InList, InRetrieval, Stuck
<1>8. QED
  BY <1>2, <1>4, <1>5, <1>6, <1>7 DEF Shape, x, d

(* What the client sent is what was parsed, what the read buffer holds and *)
(* what is on its way.                                                     *)
StreamOf(c, inb, nx) ==
  \E m \in {2 * c.command, 2 * c.command + 1} :
    /\ Numbered(c.read_buffer.bytes \o inb, m)
    /\ m + Len(c.read_buffer.bytes \o inb) = nx

LEMMA Asks ==
  ASSUME NEW c, Shape(c), WorldType, c.state = "OPEN", c.finished,
         NEW inb \in Seq(Frag), NEW nx \in Nat, nx <= 2 * Len(script),
         StreamOf(c, inb, nx), c.read_buffer.bytes # <<>>
  PROVE  \/ /\ Complete(c)
            /\ \E r \in QueueOf(Frag) :
                 /\ Sized(r, ReadSize) /\ consume(c) = Parsed(c, c.interest, r)
                 /\ \A i \in {"READ", "WRITE"} :
                      Ready(Asked(c, i, r)) /\ StreamOf(Asked(c, i, r), inb, nx)
         \/ /\ ~Complete(c) /\ consume(c) = Parsed(c, c.interest, Q!Empty)
            /\ StreamOf(Parsed(c, "READ", Q!Empty), inb, nx)
<1> DEFINE k == c.command
           q == c.read_buffer
           b == q.bytes
           lb == Len(b)
           li == Len(inb)
<1>1. /\ c \in ConnRecord /\ k \in Nat /\ q \in QueueOf(Frag) /\ b \in Seq(Frag) /\ lb \in Nat
      /\ li \in Nat /\ Sized(q, ReadSize) /\ Len(b \o inb) = lb + li /\ Len(script) \in Nat
  BY SMTT(30), ConcatProperties DEF Shape, ConnRecord, QueueOf, Buffered, WorldType
<1>2. PICK m \in {2 * k, 2 * k + 1} : Numbered(b \o inb, m) /\ m + Len(b \o inb) = nx
  BY DEF StreamOf
<1>3. m \in Nat
  BY <1>1
<1> HIDE DEF k, b, lb, li
<1>4. CASE Complete(c)
  <2>1. PICK j \in 1 .. lb :
            m + j = 2 * (k + 1) /\ consume(c) = Parsed(c, c.interest, Q!ReadAdv(q, j))
    BY <1>1, <1>2, <1>4, Consumes DEF k, b, lb
  <2>2. j \in 0 .. lb /\ j \in Nat
    BY <1>1
  <2> DEFINE r == Q!ReadAdv(q, j)
  <2>3. r \in QueueOf(Frag) /\ Sized(r, ReadSize) /\ r.bytes = SubSeq(b, j + 1, lb)
    <3>1. j \in 0 .. Len(q.bytes)
      BY <2>2 DEF b, lb
    <3> HIDE DEF q
    <3>2. r \in QueueOf(Frag) /\ Sized(r, ReadSize) /\ r.bytes = SubSeq(q.bytes, j + 1, Len(q.bytes))
      BY <1>1, <3>1, SizesTyped, ReadAdvIs
    <3>3. QED
      BY <3>2 DEF b, lb
  <2> HIDE DEF r
  <2>4. Numbered(r.bytes \o inb, m + j)
    <3>1. Numbered(SubSeq(b, j + 1, Len(b)) \o inb, m + j)
      BY <1>1, <1>2, <1>3, <2>2, NumberedDrop DEF lb
    <3>2. QED
      BY <2>3, <3>1 DEF lb
  <2>5. Len(r.bytes \o inb) = (lb - j) + li
    <3>1. r.bytes \in Seq(Frag) /\ Len(r.bytes) = lb - j
      BY <1>1, <2>2, <2>3 DEF lb
    <3>2. Len(r.bytes \o inb) = Len(r.bytes) + Len(inb)
      BY <3>1, ConcatProperties
    <3>3. QED
      BY <3>1, <3>2 DEF li
  <2>6. (m + j) + ((lb - j) + li) = nx /\ m + j <= nx
    BY <1>1, <1>2, <1>3, <2>2
  <2>7. k + 1 \in 1 .. Len(script)
    BY <1>1, <1>3, <2>1, <2>2, <2>6
  <2>8. ASSUME NEW i \in {"READ", "WRITE"}
        PROVE Ready(Asked(c, i, r)) /\ StreamOf(Asked(c, i, r), inb, nx)
    <3> DEFINE d == Asked(c, i, r)
    <3>1. Shape(d) /\ d.read_buffer = r /\ d.state = "OPEN" /\ d.command = k + 1
      BY <2>3, AskedIs DEF k
    <3> HIDE DEF d
    <3>2. m + j \in {2 * d.command, 2 * d.command + 1}
      BY <2>1, <3>1
    <3>3. StreamOf(d, inb, nx)
      <4>1. Numbered(d.read_buffer.bytes \o inb, m + j) /\ (m + j) + Len(d.read_buffer.bytes \o inb) = nx
        BY <2>4, <2>5, <2>6, <3>1
      <4>2. QED
        BY <3>2, <4>1 DEF StreamOf
    <3>4. QED
      BY <2>7, <3>1, <3>3 DEF Ready, d
  <2>9. consume(c) = Parsed(c, c.interest, r)
    BY <2>1 DEF r
  <2>10. QED
    BY <1>4, <2>3, <2>8, <2>9
<1>5. CASE ~Complete(c)
  <2>1. m = 2 * k /\ lb = 1 /\ consume(c) = Parsed(c, c.interest, Q!Empty)
    BY <1>1, <1>2, <1>5, Consumes DEF k, b, lb
  <2>2. Q!Empty \in QueueOf(Frag) /\ Sized(Q!Empty, ReadSize) /\ Q!Empty.bytes = <<>>
    <3>1. <<>> \in Seq(Frag) /\ Len(<<>>) = 0 /\ 0 + 0 <= ReadSize
      BY SizesTyped
    <3>2. Q!Empty = [gap |-> 0, bytes |-> <<>>]
      BY DEF Q!Empty
    <3>3. QED
      BY <3>1, <3>2 DEF QueueOf, Sized
  <2> DEFINE d == Parsed(c, "READ", Q!Empty)
  <2>3. d.read_buffer = Q!Empty /\ d.command = k
    BY <2>2, AskedIs DEF k
  <2> HIDE DEF d
  <2>4. Numbered(<<>> \o inb, m + 1)
    <3>1. SubSeq(b, 1 + 1, Len(b)) = <<>>
      <4>1. SubSeq(b, 2, 1) = <<>>
        BY <1>1
      <4>2. QED
        BY <2>1, <4>1 DEF lb
    <3>2. Numbered(SubSeq(b, 1 + 1, Len(b)) \o inb, m + 1)
      <4>1. 1 \in 0 .. Len(b)
        BY <2>1 DEF lb
      <4>2. QED
        BY <1>1, <1>2, <1>3, <4>1, NumberedDrop
    <3>3. QED
      BY <3>1, <3>2
  <2>5. Len(<<>> \o inb) = li
    BY ConcatEmptySeq DEF li
  <2>6. (m + 1) + li = nx /\ m + 1 \in {2 * d.command, 2 * d.command + 1}
    BY <1>1, <1>2, <1>3, <2>1, <2>3
  <2>7. StreamOf(d, inb, nx)
    BY <2>2, <2>3, <2>4, <2>5, <2>6 DEF StreamOf
  <2>8. QED
    BY <1>5, <2>1, <2>7 DEF d
<1>6. QED
  BY <1>4, <1>5

(* What the write handler does after send(), in a session that goes on.    *)
AfterSend(c, e) ==
  \/ ~c.finished /\ Ready(c) /\ \E u \in Seq(Unit) : Ran(c, e, u)
  \/ /\ c.finished /\ c.read_buffer.bytes # <<>>
     /\ \E r \in QueueOf(Frag), u \in Seq(Unit) :
          Ready(Asked(c, "WRITE", r)) /\ Ran(Asked(c, "WRITE", r), e, u)
  \/ c.finished /\ e = Parsed(c, "READ", Q!Empty) /\ c.read_buffer.bytes # <<>>
  \/ /\ c.finished /\ e = [c EXCEPT !.interest = "READ"]
     /\ c.read_buffer.bytes = <<>> /\ c.write_buffer.bytes = <<>>
  \/ c.finished /\ e = c /\ c.read_buffer.bytes = <<>> /\ c.write_buffer.bytes # <<>>

(* What after_send() returns is one of the cases of AfterSend.             *)
LEMMA AfterSendIs ==
  ASSUME NEW c, Shape(c), WorldType, c.state = "OPEN", c.interest = "WRITE",
         ~c.finished => c.command > 0,
         NEW inb \in Seq(Frag), NEW nx \in Nat, nx <= 2 * Len(script), StreamOf(c, inb, nx)
  PROVE  AfterSend(c, after_send(c)) /\ StreamOf(after_send(c), inb, nx)
<1> DEFINE e == after_send(c)
           k == c.command
<1>1. c \in ConnRecord /\ k \in Nat /\ c.finished \in BOOLEAN /\ c.read_buffer.bytes \in Seq(Frag)
      /\ Len(script) \in Nat
  BY DEF Shape, ConnRecord, QueueOf, WorldType
<1>2. CASE ~c.finished
  <2>1. e = run_action(c)
    BY <1>2 DEF after_send
  <2>2. k <= Len(script)
    <3>1. PICK m \in {2 * k, 2 * k + 1} : m + Len(c.read_buffer.bytes \o inb) = nx
      BY DEF StreamOf
    <3>2. Len(c.read_buffer.bytes \o inb) \in Nat
      BY <1>1, ConcatProperties
    <3>3. m \in Nat /\ 2 * k <= m
      BY <1>1
    <3> DEFINE l == Len(c.read_buffer.bytes \o inb)
    <3> HIDE DEF l, k
    <3>4. l \in Nat /\ m + l = nx /\ k \in Nat
      BY <1>1, <3>1, <3>2 DEF l, k
    <3>5. QED
      BY <1>1, <3>3, <3>4
  <2>3. Ready(c)
    BY <1>1, <1>2, <2>2 DEF Ready
  <2>4. PICK u \in Seq(Unit) : Ran(c, e, u)
    BY <2>1, <2>3, ActionRan
  <2>5. e.command = c.command /\ e.read_buffer = c.read_buffer
    BY <2>4 DEF Ran
  <2> HIDE DEF e
  <2>6. StreamOf(e, inb, nx)
    BY <2>5 DEF StreamOf
  <2>7. QED
    BY <1>2, <2>3, <2>4, <2>6 DEF AfterSend, e
<1>3. CASE c.finished /\ c.read_buffer.bytes = <<>>
  <2>1. CASE c.write_buffer.bytes = <<>>
    <3>1. e = [c EXCEPT !.interest = "READ"]
      BY <1>3, <2>1 DEF after_send, Q!CanRead
    <3>2. e.command = c.command /\ e.read_buffer = c.read_buffer
      BY <1>1, <3>1 DEF ConnRecord
    <3> HIDE DEF e
    <3>3. StreamOf(e, inb, nx)
      BY <3>2 DEF StreamOf
    <3>4. QED
      BY <1>3, <2>1, <3>1, <3>3 DEF AfterSend, e
  <2>2. CASE c.write_buffer.bytes # <<>>
    <3>1. e = c
      BY <1>3, <2>2 DEF after_send, Q!CanRead
    <3> HIDE DEF e
    <3>2. QED
      BY <1>3, <2>2, <3>1 DEF AfterSend, e
  <2>3. QED
    BY <2>1, <2>2
<1>4. CASE c.finished /\ c.read_buffer.bytes # <<>>
  <2>1. CASE Complete(c)
    <3>1. PICK r \in QueueOf(Frag) :
            /\ Sized(r, ReadSize) /\ consume(c) = Parsed(c, c.interest, r)
            /\ Ready(Asked(c, "WRITE", r)) /\ StreamOf(Asked(c, "WRITE", r), inb, nx)
      BY <1>4, <2>1, Asks
    <3> DEFINE d == Asked(c, "WRITE", r)
    <3>2. e = pop3_action_handler(consume(c))
      BY <1>4, <2>1 DEF after_send, Q!CanRead
    <3>3. Parsed(c, "WRITE", r).parsing = k + 1
      BY <1>4, <3>1, AskedIs
    <3>4. e = run_action(d)
      BY <3>1, <3>2, <3>3 DEF pop3_action_handler, Asked
    <3> HIDE DEF d
    <3>5. PICK u \in Seq(Unit) : Ran(d, e, u)
      BY <3>1, <3>4, ActionRan DEF d
    <3>6. e.command = d.command /\ e.read_buffer = d.read_buffer
      BY <3>5 DEF Ran
    <3> HIDE DEF e
    <3>7. StreamOf(e, inb, nx)
      BY <3>1, <3>6 DEF StreamOf, d
    <3>8. QED
      BY <1>4, <3>1, <3>5, <3>7 DEF AfterSend, d, e
  <2>2. CASE ~Complete(c)
    <3>1. consume(c) = Parsed(c, "WRITE", Q!Empty) /\ StreamOf(Parsed(c, "READ", Q!Empty), inb, nx)
      BY <1>4, <2>2, Asks
    <3>2. e = [consume(c) EXCEPT !.interest = "READ"]
      BY <1>4, <2>2 DEF after_send, Q!CanRead
    <3>3. e = Parsed(c, "READ", Q!Empty)
      <4> DEFINE x == Q!Empty
      <4> HIDE DEF x, e
      <4>1. [Parsed(c, "WRITE", x) EXCEPT !.interest = "READ"] = Parsed(c, "READ", x)
        BY <1>1 DEF Parsed, ConnRecord
      <4>2. QED
        BY <3>1, <3>2, <4>1 DEF x
    <3> HIDE DEF e
    <3>4. QED
      BY <1>4, <3>1, <3>3 DEF AfterSend, e
  <2>3. QED
    BY <2>1, <2>2
<1>5. QED
  BY <1>1, <1>2, <1>3, <1>4

(* After QUIT the write handler ends the session, whatever it does before. *)
LEMMA AfterQuit ==
  ASSUME NEW c \in ConnRecord, c.finished, c.state = "CLIENT_FINISHED"
  PROVE  after_send(c).state = "CLIENT_FINISHED"
<1>1. consume(c).state = "CLIENT_FINISHED" /\ [consume(c) EXCEPT !.interest = "READ"].state = "CLIENT_FINISHED"
  <2> DEFINE x == consume(c).read_buffer
  <2>1. ASSUME NEW x1, NEW y1 PROVE
           LET d == [c EXCEPT !.read_buffer = x1, !.parsing = y1]
           IN d.state = "CLIENT_FINISHED" /\ [d EXCEPT !.interest = "READ"].state = "CLIENT_FINISHED"
    BY DEF ConnRecord
  <2>2. QED
    BY <2>1 DEF consume
<1>2. pop3_action_handler(consume(c)).state = "CLIENT_FINISHED"
  <2>1. ASSUME NEW x1, NEW y1, NEW z1, NEW w1 PROVE
           LET d == [[c EXCEPT !.read_buffer = x1, !.parsing = y1] EXCEPT !.command = z1]
           IN d.state = "CLIENT_FINISHED"
              /\ [[d EXCEPT !.write_buffer = w1] EXCEPT !.finished = TRUE].state = "CLIENT_FINISHED"
    BY DEF ConnRecord
  <2> DEFINE d == [consume(c) EXCEPT !.command = consume(c).parsing]
  <2>2. d.state = "CLIENT_FINISHED"
    BY <2>1 DEF consume
  <2>3. SingleLine(d).state = "CLIENT_FINISHED"
    BY <2>1 DEF consume, SingleLine, Put
  <2>4. pop3_action_handler(consume(c)) = run_action(d)
    BY DEF pop3_action_handler
  <2> HIDE DEF d
  <2>5. run_action(d) = SingleLine(d)
    BY <2>2 DEF run_action
  <2>6. QED
    BY <2>3, <2>4, <2>5
<1>3. [c EXCEPT !.interest = "READ"].state = "CLIENT_FINISHED"
  BY DEF ConnRecord
<1>4. QED
  BY <1>1, <1>2, <1>3 DEF after_send

-----------------------------------------------------------------------------
(* The invariant of client_data and of the stream of commands, and what    *)
(* each handler does to it. *)

(* The handlers wait for input only between commands and with nothing      *)
(* unread.                                                                 *)
Waiting(c) ==
  /\ c.interest = "READ" => c.finished /\ c.read_buffer = Q!Empty
  /\ c.state = "CLIENT_FINISHED" => c.interest = "WRITE" /\ c.finished
  /\ ~c.finished => c.command > 0

Stream ==
  /\ inbound \in Seq(Frag) /\ next \in Nat /\ next <= 2 * Len(script)
  /\ Open => StreamOf(conn, inbound, next)

(* The inductive invariant that the session and the order of answers build *)
(* on.                                                                     *)
Base == world \in Worlds /\ Shape(conn) /\ Waiting(conn) /\ Stream

LEMMA EmptyIs ==
  ASSUME NEW S, NEW size \in Nat
  PROVE  /\ Q!Empty \in QueueOf(S) /\ Sized(Q!Empty, size) /\ Q!Empty.bytes = <<>>
         /\ Q!Empty = [gap |-> 0, bytes |-> <<>>]
<1>1. <<>> \in Seq(S) /\ Len(<<>>) = 0 /\ 0 + 0 <= size
  OBVIOUS
<1>2. Q!Empty = [gap |-> 0, bytes |-> <<>>]
  BY DEF Q!Empty
<1>3. QED
  BY <1>1, <1>2 DEF QueueOf, Sized

(* A connection that was closed, whatever it was before, has this shape.   *)
LEMMA ClosedIs ==
  ASSUME WorldType
  PROVE  Shape(Closed) /\ Waiting(Closed) /\ Closed.state = "closed" /\ Closed.interest = "none"
<1> DEFINE x == Q!Empty
<1>1. /\ x \in QueueOf(Frag) /\ x \in QueueOf(Unit)
      /\ Sized(x, ReadSize) /\ Sized(x, WriteSize) /\ Sized(x, RetrieveSize)
  BY SizesTyped, EmptyIs DEF WorldType
<1> HIDE DEF x
<1>2. Closed = [state |-> "closed", interest |-> "none", read_buffer |-> x, write_buffer |-> x,
           parsing |-> 0, command |-> 0, finished |-> TRUE, written |-> 0,
           filed_fd |-> "none", file_interest |-> "none", file_pos |-> 0,
           finished_reading |-> FALSE, retrieve_buffer |-> x]
  BY DEF Closed, x
<1>3. Closed \in ConnRecord
  BY <1>1, <1>2 DEF ConnRecord
<1>4. Buffered(Closed) /\ Files(Closed) /\ Answering(Closed)
  BY <1>1, <1>2 DEF Buffered, Files, Answering, x
<1>5. QED
  BY <1>2, <1>3, <1>4 DEF Shape, Waiting

(* The read handler: it hangs up, parses half a command, or runs one.      *)
ReadTo(d) ==
  \/ d = Parsed(conn, "READ", Q!Empty)
  \/ \E r \in QueueOf(Frag), u \in Seq(Unit) :
       Ready(Asked(conn, "WRITE", r)) /\ Ran(Asked(conn, "WRITE", r), d, u)

LEMMA ReadStep ==
  ASSUME Base, WorldType, pop3_read_handler, NEW d, d = conn', NEW inb, inb = inbound'
  PROVE  /\ inb \in Seq(Frag)
         /\ \/ d = Closed /\ gone
            \/ /\ conn.state = "OPEN" /\ conn.interest = "READ" /\ conn.finished
               /\ conn.read_buffer = Q!Empty
               /\ ReadTo(d) /\ StreamOf(d, inb, next)
<1>1. /\ conn \in ConnRecord /\ Shape(conn) /\ conn.interest = "READ" /\ Open
      /\ inbound \in Seq(Frag) /\ next \in Nat /\ next <= 2 * Len(script)
      /\ StreamOf(conn, inbound, next)
  BY DEF Base, Stream, Shape, pop3_read_handler
<1>2. conn.state = "OPEN" /\ conn.finished /\ conn.read_buffer = Q!Empty
  BY <1>1 DEF Base, Waiting, Open
<1>3. Q!Room(conn.read_buffer, ReadSize) = ReadSize
  <2>1. Q!Empty.gap = 0 /\ Len(Q!Empty.bytes) = 0
    BY DEF Q!Empty
  <2>2. ReadSize - (0 + 0) = ReadSize
    BY SizesTyped
  <2>3. QED
    BY <1>2, <2>1, <2>2 DEF Q!Room
<1>4. CASE conn' = Closed /\ inbound' = inbound /\ (gone \/ ReadSize = 0)
  BY <1>1, <1>4, SizesTyped
<1>5. ASSUME NEW n \in 1 .. Min({Len(inbound), ReadSize}),
             LET c1 == [conn EXCEPT !.read_buffer = Q!WriteN(@, SubSeq(inbound, 1, n), ReadSize)]
             IN /\ inb = SubSeq(inbound, n + 1, Len(inbound))
                /\ d = IF Complete(c1)
                       THEN pop3_action_handler([consume(c1) EXCEPT !.interest = "WRITE"])
                       ELSE consume(c1)
      PROVE  inb \in Seq(Frag) /\ ReadTo(d) /\ StreamOf(d, inb, next)
  <2> DEFINE s == SubSeq(inbound, 1, n)
             q == [gap |-> 0, bytes |-> s]
             c == [conn EXCEPT !.read_buffer = q]
  <2>1. n \in Nat /\ n > 0 /\ n <= Len(inbound) /\ n <= ReadSize
    <3>1. Len(inbound) \in Nat
      BY <1>1
    <3>2. Min({Len(inbound), ReadSize}) \in Nat /\ Min({Len(inbound), ReadSize}) <= Len(inbound)
          /\ Min({Len(inbound), ReadSize}) <= ReadSize
      BY <3>1, SizesTyped, MinOfTwo
    <3> DEFINE mn == Min({Len(inbound), ReadSize})
    <3>3. mn \in Nat /\ mn <= Len(inbound) /\ mn <= ReadSize /\ n \in 1 .. mn
      BY <3>2
    <3> HIDE DEF mn
    <3>4. QED
      BY <3>1, <3>3, SizesTyped
  <2>2. /\ s \in Seq(Frag) /\ Len(s) = n /\ s # <<>>
        /\ inb \in Seq(Frag) /\ s \o inb = inbound
    <3>1. n \in 0 .. Len(inbound)
      BY <2>1
    <3>2. <<>> \in Seq(Frag)
      OBVIOUS
    <3>3. (<<>> \o SubSeq(inbound, 1, n)) \o SubSeq(inbound, n + 1, Len(inbound)) = <<>> \o inbound
      BY <1>1, <3>1, <3>2, Resplit
    <3>4. s \in Seq(Frag) /\ Len(s) = n /\ SubSeq(inbound, n + 1, Len(inbound)) \in Seq(Frag)
      BY <1>1, <2>1
    <3>5. <<>> \o s = s /\ <<>> \o inbound = inbound
      BY <1>1, <3>4, ConcatEmptySeq
    <3>6. s # <<>>
      BY <2>1, <3>4
    <3>7. QED
      BY <1>5, <3>3, <3>4, <3>5, <3>6
  <2> HIDE DEF s
  <2>3. Q!WriteN(conn.read_buffer, s, ReadSize) = q
    <3>1. Q!WriteN(conn.read_buffer, s, ReadSize) = [Q!Empty EXCEPT !.bytes = @ \o s]
      BY <1>2, <1>3, <2>1, <2>2 DEF Q!WriteN, Q!Append_
    <3>2. <<>> \o s = s
      BY <2>2, ConcatEmptySeq
    <3>3. QED
      BY <3>1, <3>2 DEF Q!Empty
  <2>4. q \in QueueOf(Frag) /\ Sized(q, ReadSize)
    BY <2>1, <2>2 DEF QueueOf, Sized
  <2> HIDE DEF q
  <2>5. d = IF Complete(c) THEN pop3_action_handler([consume(c) EXCEPT !.interest = "WRITE"])
            ELSE consume(c)
    BY <1>5, <2>3 DEF s
  <2>6. /\ Shape(c) /\ c.state = "OPEN" /\ c.finished /\ c.interest = "READ"
        /\ c.read_buffer = q /\ c.command = conn.command /\ c \in ConnRecord
    <3>1. /\ c \in ConnRecord /\ c.read_buffer = q /\ c.interest = conn.interest
          /\ c.state = conn.state /\ c.finished = conn.finished /\ c.command = conn.command
          /\ c.write_buffer = conn.write_buffer /\ c.retrieve_buffer = conn.retrieve_buffer
          /\ c.filed_fd = conn.filed_fd /\ c.file_interest = conn.file_interest
          /\ c.finished_reading = conn.finished_reading /\ c.written = conn.written
      BY <1>1, <2>4 DEF ConnRecord
    <3>2. Buffered(c) /\ Files(c) /\ Answering(c)
      BY <1>1, <1>2, <2>4, <3>1 DEF Shape, Buffered, Files, Answering
    <3>3. QED
      BY <1>1, <1>2, <3>1, <3>2 DEF Shape
  <2>7. ASSUME NEW i \in {"READ", "WRITE"}, NEW r \in QueueOf(Frag)
        PROVE  Parsed(c, i, r) = Parsed(conn, i, r) /\ Asked(c, i, r) = Asked(conn, i, r)
    <3>1. Parsed(c, i, r) = Parsed(conn, i, r)
      BY <1>1, <2>6 DEF Parsed, ConnRecord
    <3>2. QED
      BY <2>6, <3>1 DEF Asked
  <2> HIDE DEF c
  <2>8. c.read_buffer.bytes = s
    BY <2>6 DEF q
  <2>9. StreamOf(c, inb, next)
    <3>1. PICK m \in {2 * conn.command, 2 * conn.command + 1} :
             /\ Numbered(conn.read_buffer.bytes \o inbound, m)
             /\ m + Len(conn.read_buffer.bytes \o inbound) = next
      BY <1>1 DEF StreamOf
    <3>2. conn.read_buffer.bytes \o inbound = inbound
      BY <1>1, <1>2, ConcatEmptySeq DEF Q!Empty
    <3>3. QED
      BY <2>2, <2>6, <2>8, <3>1, <3>2 DEF StreamOf
  <2>10. CASE Complete(c)
    <3>1. PICK r \in QueueOf(Frag) :
            /\ Sized(r, ReadSize) /\ consume(c) = Parsed(c, "READ", r)
            /\ Ready(Asked(c, "WRITE", r)) /\ StreamOf(Asked(c, "WRITE", r), inb, next)
      BY <1>1, <2>2, <2>6, <2>8, <2>9, <2>10, Asks
    <3> DEFINE a == Asked(conn, "WRITE", r)
    <3>2. Asked(c, "WRITE", r) = a
      BY <2>7
    <3>3. [consume(c) EXCEPT !.interest = "WRITE"] = Parsed(c, "WRITE", r)
      BY <2>6, <3>1 DEF Parsed, ConnRecord
    <3>4. Parsed(c, "WRITE", r).parsing = c.command + 1
      BY <2>6, <3>1, AskedIs
    <3>5. d = run_action(a)
      BY <2>5, <2>10, <3>2, <3>3, <3>4 DEF pop3_action_handler, Asked
    <3> HIDE DEF a
    <3>6. Ready(a) /\ StreamOf(a, inb, next)
      BY <3>1, <3>2
    <3>7. PICK u \in Seq(Unit) : Ran(a, d, u)
      BY <3>5, <3>6, ActionRan
    <3>8. d.command = a.command /\ d.read_buffer = a.read_buffer
      BY <3>7 DEF Ran
    <3>9. StreamOf(d, inb, next)
      BY <3>6, <3>8 DEF StreamOf
    <3>10. ReadTo(d)
      BY <3>6, <3>7 DEF ReadTo, a
    <3>11. QED
      BY <2>2, <3>9, <3>10
  <2>11. CASE ~Complete(c)
    <3>1. consume(c) = Parsed(c, "READ", Q!Empty) /\ StreamOf(Parsed(c, "READ", Q!Empty), inb, next)
      BY <1>1, <2>2, <2>6, <2>8, <2>9, <2>11, Asks
    <3>2. Parsed(c, "READ", Q!Empty) = Parsed(conn, "READ", Q!Empty)
      BY <2>7, SizesTyped, EmptyIs
    <3>3. d = Parsed(conn, "READ", Q!Empty)
      BY <2>5, <2>11, <3>1, <3>2
    <3>4. QED
      BY <2>2, <3>1, <3>2, <3>3 DEF ReadTo
  <2>12. QED
    BY <2>10, <2>11
<1>6. QED
  <2>1. \/ conn' = Closed /\ inbound' = inbound /\ (gone \/ ReadSize = 0)
        \/ \E n \in 1 .. Min({Len(inbound), ReadSize}) :
             LET c1 == [conn EXCEPT !.read_buffer = Q!WriteN(@, SubSeq(inbound, 1, n), ReadSize)]
             IN /\ inbound' = SubSeq(inbound, n + 1, Len(inbound))
                /\ conn' = IF Complete(c1)
                       THEN pop3_action_handler([consume(c1) EXCEPT !.interest = "WRITE"])
                       ELSE consume(c1)
    BY <1>3 DEF pop3_read_handler
  <2>2. QED
    BY <1>1, <1>2, <1>4, <1>5, <2>1

(* The write handler.                                                      *)
WriteTo(d, s) ==
  \/ gone /\ d = Closed /\ s = sent
  \/ /\ ~gone
     /\ \E n \in 0 .. Len(conn.write_buffer.bytes) :
          /\ ~PartialSend => n = Len(conn.write_buffer.bytes)
          /\ Len(conn.write_buffer.bytes) > 0 => n > 0
          /\ s = sent \o SubSeq(conn.write_buffer.bytes, 1, n)
          /\ \/ conn.state = "CLIENT_FINISHED" /\ d = Closed
             \/ /\ conn.state = "OPEN"
                /\ \E e : /\ AfterSend(Sent(conn, n), e) /\ StreamOf(e, inbound, next)
                          /\ d = IF e.state = "CLIENT_FINISHED" THEN Closed ELSE e

LEMMA WriteStep ==
  ASSUME Base, WorldType, pop3_write_handler, NEW d, d = conn', NEW s, s = sent'
  PROVE  WriteTo(d, s) /\ conn.interest = "WRITE"
<1>1. /\ Shape(conn) /\ Waiting(conn) /\ conn.interest = "WRITE" /\ Open
      /\ inbound \in Seq(Frag) /\ next \in Nat /\ next <= 2 * Len(script)
      /\ StreamOf(conn, inbound, next)
  BY DEF Base, Stream, pop3_write_handler
<1>2. ASSUME ~gone, NEW n \in 0 .. Len(conn.write_buffer.bytes),
             IF PartialSend THEN Len(conn.write_buffer.bytes) > 0 => n > 0
             ELSE n = Len(conn.write_buffer.bytes),
             s = sent \o SubSeq(conn.write_buffer.bytes, 1, n),
             NEW e, e = after_send(Sent(conn, n)),
             d = IF e.state = "CLIENT_FINISHED" THEN Closed ELSE e
      PROVE  WriteTo(d, s)
  <2> DEFINE c == Sent(conn, n)
  <2>1. /\ Shape(c) /\ c.interest = "WRITE" /\ c.state = conn.state /\ c.finished = conn.finished
        /\ c.command = conn.command /\ c.read_buffer = conn.read_buffer
    BY <1>1, SentIs
  <2> HIDE DEF c
  <2>2. CASE conn.state = "OPEN"
    <3>1. StreamOf(c, inbound, next)
      BY <1>1, <2>1 DEF StreamOf
    <3>2. ~c.finished => c.command > 0
      BY <1>1, <2>1 DEF Waiting
    <3>3. AfterSend(c, e) /\ StreamOf(e, inbound, next)
      BY <1>1, <1>2, <2>1, <2>2, <3>1, <3>2, AfterSendIs DEF c
    <3>4. QED
      BY <1>2, <2>2, <3>3 DEF WriteTo, c
  <2>3. CASE conn.state = "CLIENT_FINISHED"
    <3>1. c.finished /\ c \in ConnRecord
      BY <1>1, <2>1, <2>3 DEF Waiting, Shape
    <3>2. e.state = "CLIENT_FINISHED"
      BY <1>2, <2>1, <2>3, <3>1, AfterQuit DEF c
    <3>3. QED
      BY <1>2, <2>3, <3>2 DEF WriteTo
  <2>4. QED
    BY <1>1, <2>2, <2>3 DEF Open
<1>3. CASE gone /\ conn' = Closed /\ UNCHANGED sent
  BY <1>1, <1>3 DEF WriteTo
<1>4. \/ gone /\ conn' = Closed /\ UNCHANGED sent
      \/ /\ ~gone
         /\ \E n \in 0 .. Len(conn.write_buffer.bytes) :
              /\ IF PartialSend THEN Len(conn.write_buffer.bytes) > 0 => n > 0
                 ELSE n = Len(conn.write_buffer.bytes)
              /\ sent' = sent \o SubSeq(conn.write_buffer.bytes, 1, n)
              /\ conn' = IF after_send(Sent(conn, n)).state = "CLIENT_FINISHED" THEN Closed
                         ELSE after_send(Sent(conn, n))
  BY DEF pop3_write_handler, Sent
<1>5. QED
  BY <1>1, <1>2, <1>3, <1>4

(* The write handler keeps what Base says.                                 *)
LEMMA AfterSendKeeps ==
  ASSUME NEW c, Shape(c), c.state = "OPEN", c.interest = "WRITE",
         ~c.finished => c.command > 0, NEW e, AfterSend(c, e)
  PROVE  Shape(e) /\ Waiting(e)
<1>1. c \in ConnRecord /\ Sized(c.read_buffer, ReadSize)
  BY DEF Shape, Buffered
<1>2. CASE ~c.finished /\ Ready(c) /\ \E u \in Seq(Unit) : Ran(c, e, u)
  <2>1. Shape(e) /\ e.interest = "WRITE" /\ e.command = c.command
    BY <1>2 DEF Ran
  <2>2. e.state = "CLIENT_FINISHED" => e.finished
    BY <2>1 DEF Shape, Answering
  <2>3. QED
    BY <1>2, <2>1, <2>2 DEF Waiting
<1>3. ASSUME NEW r \in QueueOf(Frag), NEW u \in Seq(Unit), c.finished,
             Ready(Asked(c, "WRITE", r)), Ran(Asked(c, "WRITE", r), e, u)
      PROVE  Shape(e) /\ Waiting(e)
  <2> DEFINE a == Asked(c, "WRITE", r)
  <2>1. a.interest = "WRITE"
    BY <1>1 DEF Asked, Parsed, ConnRecord
  <2>2. a.command > 0
    BY <1>3, ReadyFacts DEF Ready
  <2> HIDE DEF a
  <2>3. Shape(e) /\ e.interest = "WRITE" /\ e.command = a.command
    BY <1>3, <2>1 DEF Ran, a
  <2>4. e.state = "CLIENT_FINISHED" => e.finished
    BY <2>3 DEF Shape, Answering
  <2>5. QED
    BY <2>2, <2>3, <2>4 DEF Waiting
<1>4. CASE c.finished /\ e = Parsed(c, "READ", Q!Empty)
  <2>1. /\ Shape(e) /\ e.read_buffer = Q!Empty /\ e.state = "OPEN" /\ e.finished
    BY <1>4, SizesTyped, EmptyIs, AskedIs
  <2>2. QED
    BY <2>1 DEF Waiting
<1>5. CASE c.finished /\ e = [c EXCEPT !.interest = "READ"] /\ c.read_buffer.bytes = <<>>
  <2>1. /\ e \in ConnRecord /\ e.interest = "READ"
        /\ e.read_buffer = c.read_buffer
        /\ e.state = c.state /\ e.finished = c.finished /\ e.command = c.command
        /\ e.write_buffer = c.write_buffer /\ e.retrieve_buffer = c.retrieve_buffer
        /\ e.filed_fd = c.filed_fd /\ e.file_interest = c.file_interest
        /\ e.finished_reading = c.finished_reading /\ e.written = c.written
    BY <1>1, <1>5 DEF ConnRecord
  <2>2. Buffered(e) /\ Files(e) /\ Answering(e)
    BY <1>5, <2>1 DEF Shape, Buffered, Files, Answering
  <2>3. c.read_buffer = Q!Empty
    BY <1>1, <1>5 DEF Sized
  <2>4. QED
    BY <1>5, <2>1, <2>2, <2>3 DEF Shape, Waiting
<1>6. CASE c.finished /\ e = c
  BY <1>6 DEF Waiting
<1>7. QED
  BY <1>2, <1>3, <1>4, <1>5, <1>6 DEF AfterSend

(* Reading the file changes nothing that the socket's handlers look at.    *)
Calm(c, d) ==
  /\ Shape(d) /\ d.interest = c.interest /\ d.read_buffer = c.read_buffer
  /\ d.parsing = c.parsing /\ d.state = c.state /\ d.finished = c.finished
  /\ d.command = c.command /\ d.write_buffer = c.write_buffer
  /\ Progress(d) = Progress(c)
  /\ ~FileErrors => (d.finished_reading => d.file_pos = MailLen)

(* The mail handler, which only fills the retrieve buffer, does too.       *)
LEMMA MailStep ==
  ASSUME Shape(conn), WorldType, mail_read_handler, NEW d, d = conn'
  PROVE  Calm(conn, d)
<1> DEFINE c == conn
           k == c.command
           b == c.retrieve_buffer.bytes
           pos == c.file_pos
           room == Q!Room(c.retrieve_buffer, RetrieveSize)
           n == Min({room, MailLen - pos})
           v == Units(k, pos + 2, pos + n + 1)
           ended == [c EXCEPT !.finished_reading = TRUE, !.file_interest = "none"]
           more == [c EXCEPT !.file_pos = @ + n, !.retrieve_buffer = Q!Append_(@, v)]
<1>1. /\ c \in ConnRecord /\ c.file_interest = "READ"
      /\ c.filed_fd = "open" /\ c.state = "OPEN" /\ c.finished = FALSE
      /\ c.finished_reading = FALSE /\ c.retrieve_buffer \in QueueOf(Unit)
      /\ Sized(c.retrieve_buffer, RetrieveSize) /\ Buffered(c) /\ Answering(c)
      /\ k \in Nat /\ b \in Seq(Unit) /\ pos \in Nat /\ c.retrieve_buffer.gap \in Nat
  <2>1. c \in ConnRecord /\ c.file_interest = "READ" /\ Files(c) /\ Buffered(c) /\ Answering(c)
    BY DEF mail_read_handler, Shape
  <2>2. c.filed_fd = "open" /\ c.state = "OPEN" /\ ~c.finished /\ ~c.finished_reading
    BY <2>1 DEF Files
  <2>3. c.finished \in BOOLEAN /\ c.finished_reading \in BOOLEAN
    BY <2>1 DEF ConnRecord
  <2>4. QED
    BY <2>1, <2>2, <2>3 DEF ConnRecord, QueueOf, Buffered
<1>2. InRetrieval(c)
  BY <1>1 DEF Answering, InList, Stuck
<1>3. /\ room \in Nat /\ Len(b) \in Nat /\ room = RetrieveSize - (c.retrieve_buffer.gap + Len(b))
      /\ pos <= MailLen /\ Len(b) <= pos
  <2>1. Len(b) \in Nat
    BY <1>1
  <2>2. c.retrieve_buffer.gap + Len(b) <= RetrieveSize
        /\ room = RetrieveSize - (c.retrieve_buffer.gap + Len(b))
    BY <1>1 DEF Q!Room, Sized
  <2>3. pos <= MailLen /\ Len(b) <= pos
    BY <1>2 DEF InRetrieval
  <2> DEFINE g == c.retrieve_buffer.gap
             lb == Len(b)
  <2>4. g \in Nat /\ lb \in Nat /\ g + lb <= RetrieveSize /\ room = RetrieveSize - (g + lb)
    BY <1>1, <2>1, <2>2
  <2> HIDE DEF g, lb, room
  <2>5. room \in Nat
    BY <2>4, SizesTyped
  <2>6. QED
    BY <2>1, <2>2, <2>3, <2>5
<1>4. ASSUME NEW i \in {"none", "NOOP"}, NEW r \in BOOLEAN, r <=> i = "none",
             ~FileErrors => (r => pos = MailLen),
             NEW x, x = [c EXCEPT !.finished_reading = r, !.file_interest = i]
      PROVE  Calm(c, x)
  <2>1. i \in {"none", "READ", "NOOP"}
    OBVIOUS
  <2>2. /\ x \in ConnRecord /\ x.finished_reading = r /\ x.file_interest = i
        /\ x.interest = c.interest /\ x.read_buffer = c.read_buffer
        /\ x.parsing = c.parsing /\ x.state = c.state /\ x.finished = c.finished
        /\ x.command = c.command /\ x.write_buffer = c.write_buffer
        /\ x.written = c.written /\ x.filed_fd = c.filed_fd
        /\ x.file_pos = c.file_pos /\ x.retrieve_buffer = c.retrieve_buffer
    BY <1>1, <1>4, <2>1 DEF ConnRecord
  <2>3. Buffered(x) /\ Answering(x)
    BY <1>1, <1>2, <2>2 DEF Buffered, Answering, InRetrieval
  <2>4. Files(x)
    BY <1>1, <1>4, <2>2 DEF Files
  <2>5. Progress(x) = Progress(c)
    BY <2>2 DEF Progress
  <2>6. QED
    BY <1>4, <2>2, <2>3, <2>4, <2>5 DEF Shape, Calm
<1>5. CASE room = 0
  <2>1. d = [c EXCEPT !.file_interest = "NOOP"]
    BY <1>5 DEF mail_read_handler
  <2>2. d = [c EXCEPT !.finished_reading = FALSE, !.file_interest = "NOOP"]
    BY <1>1, <2>1 DEF ConnRecord
  <2>3. QED
    BY <1>4, <2>2
<1>6. CASE room # 0 /\ n = 0 /\ d = ended
  <2>1. MailLen - pos \in Nat
    BY <1>3, <1>1, SizesTyped
  <2>2. n \in {room, MailLen - pos}
    BY <1>3, <2>1, MinOfTwo
  <2>3. MailLen - pos = 0
    BY <1>6, <2>2
  <2>4. pos = MailLen
    BY <1>1, <2>3, SizesTyped
  <2>5. QED
    BY <1>4, <1>6, <2>4
<1>7. CASE FileErrors /\ d = ended
  BY <1>4, <1>7
<1>8. CASE room # 0 /\ n # 0 /\ d = more
  <2>1. n \in Nat /\ n <= room /\ n <= MailLen - pos
    <3>1. MailLen - pos \in Nat
      BY <1>1, <1>3, SizesTyped
    <3>2. QED
      BY <1>3, <3>1, MinOfTwo
  <2>2. Run(v, k, pos + 1, n)
    <3> HIDE DEF n
    <3>1. pos + 1 \in Nat /\ pos + 2 = (pos + 1) + 1 /\ pos + n + 1 = (pos + 1) + n
      BY <1>1, <2>1
    <3>2. QED
      BY <1>1, <2>1, <3>1, UnitsRun
  <2> HIDE DEF n, v
  <2>3. v \in Seq(Unit) /\ Len(v) = n
    BY <2>2 DEF Run
  <2> DEFINE x == [gap |-> c.retrieve_buffer.gap, bytes |-> b \o v]
             lb == Len(b)
  <2>4. Q!Append_(c.retrieve_buffer, v) = x
    <3>1. ASSUME NEW q \in [gap : Nat, bytes : Seq(Unit)], NEW w
          PROVE  [q EXCEPT !.bytes = w] = [gap |-> q.gap, bytes |-> w]
      OBVIOUS
    <3>2. Q!Append_(c.retrieve_buffer, v) = [c.retrieve_buffer EXCEPT !.bytes = b \o v]
      BY DEF Q!Append_
    <3>3. QED
      BY <1>1, <3>1, <3>2 DEF QueueOf
  <2>5. b \o v \in Seq(Unit) /\ Len(b \o v) = lb + n
    BY <1>1, <2>3, ConcatProperties
  <2>6. x \in QueueOf(Unit) /\ x.bytes = b \o v
    BY <1>1, <2>5 DEF QueueOf
  <2>7. Sized(x, RetrieveSize)
    <3>1. b \o v # <<>>
      BY <1>3, <1>8, <2>1, <2>5
    <3>2. x.gap + Len(x.bytes) <= RetrieveSize
      <4>1. x.gap = c.retrieve_buffer.gap /\ Len(x.bytes) = lb + n
        BY <2>5
      <4> DEFINE g == c.retrieve_buffer.gap
      <4>2. g \in Nat /\ lb \in Nat /\ room = RetrieveSize - (g + lb)
        BY <1>1, <1>3
      <4> HIDE DEF g, lb, room, x
      <4>3. g + (lb + n) <= RetrieveSize
        BY <2>1, <4>2, SizesTyped
      <4>4. QED
        BY <4>1, <4>3 DEF g
    <3>3. QED
      BY <3>1, <3>2 DEF Sized
  <2> HIDE DEF x
  <2>8. d = [c EXCEPT !.file_pos = pos + n, !.retrieve_buffer = x]
    BY <1>1, <1>8, <2>4 DEF ConnRecord
  <2>9. pos + n \in Nat /\ pos + n <= MailLen
    BY <1>1, <2>1, SizesTyped
  <2>10. /\ d \in ConnRecord /\ d.finished_reading = c.finished_reading /\ d.file_interest = c.file_interest
         /\ d.interest = c.interest /\ d.read_buffer = c.read_buffer
         /\ d.parsing = c.parsing /\ d.state = c.state /\ d.finished = c.finished
         /\ d.command = c.command /\ d.write_buffer = c.write_buffer
         /\ d.written = c.written /\ d.filed_fd = c.filed_fd
         /\ d.file_pos = pos + n /\ d.retrieve_buffer = x
    BY <1>1, <2>6, <2>8, <2>9 DEF ConnRecord
  <2>11. Buffered(d) /\ Files(d)
    BY <1>1, <2>7, <2>10 DEF Buffered, Files
  <2>12. /\ 1 + (pos + n) - (lb + n) = 1 + pos - lb /\ lb + n <= pos + n
         /\ (1 + pos - lb) + lb = pos + 1 /\ 1 + pos - lb \in Nat
    <3>1. lb \in Nat /\ lb <= pos
      BY <1>3
    <3> HIDE DEF lb, pos
    <3>2. pos \in Nat
      BY <1>1 DEF pos
    <3>3. QED
      BY <2>1, <3>1, <3>2
  <2>13. Run(b \o v, k, 1 + pos - lb, lb + n)
    <3>1. Run(b, k, 1 + pos - lb, lb)
      BY <1>2 DEF InRetrieval
    <3>2. Run(v, k, (1 + pos - lb) + lb, n)
      BY <2>2, <2>12
    <3>3. lb \in Nat
      BY <1>3
    <3> HIDE DEF lb, b, pos
    <3>4. QED
      BY <1>1, <2>1, <2>12, <3>1, <3>2, <3>3, RunConcat
  <2>14. d.retrieve_buffer.bytes = b \o v /\ Len(d.retrieve_buffer.bytes) = lb + n
    BY <2>5, <2>6, <2>10
  <2>15. InRetrieval(d)
    <3>1. request(c.command) = "RETR" /\ c.written = 0
      BY <1>2 DEF InRetrieval
    <3> HIDE DEF lb, b, pos
    <3>2. QED
      BY <1>1, <2>9, <2>10, <2>12, <2>13, <2>14, <3>1 DEF InRetrieval
  <2>16. Progress(d) = Progress(c)
    <3>1. Progress(c) = 1 + pos - lb
      BY <1>1 DEF Progress
    <3>2. Progress(d) = 1 + (pos + n) - (lb + n)
      BY <1>1, <2>10, <2>14 DEF Progress
    <3>3. QED
      BY <2>12, <3>1, <3>2
  <2>17. Shape(d)
    BY <1>1, <2>10, <2>11, <2>15 DEF Shape, Answering
  <2>18. QED
    BY <1>1, <2>10, <2>16, <2>17 DEF Calm
<1>9. QED
  <2>1. IF room = 0 THEN conn' = [c EXCEPT !.file_interest = "NOOP"]
        ELSE \/ FileErrors /\ conn' = ended
             \/ conn' = IF n = 0 THEN ended ELSE more
    BY DEF mail_read_handler
  <2> HIDE DEF room, n, ended, more
  <2>2. QED
    BY <1>5, <1>6, <1>7, <1>8, <2>1

-----------------------------------------------------------------------------
(* The surroundings never change, so what holds of client_data does not. *)

LEMMA SameScript ==
  ASSUME world' = world
  PROVE  /\ script' = script /\ WriteSize' = WriteSize
         /\ (Pipelining <=> Pipelining') /\ (PartialSend <=> PartialSend')
         /\ (FileErrors <=> FileErrors') /\ (is_dir_valid <=> is_dir_valid')
BY DEF script, WriteSize, Pipelining, PartialSend, FileErrors, is_dir_valid

LEMMA SameRequest ==
  ASSUME world' = world, NEW k, NEW l, l = request(k)
  PROVE  request(k)' = l
BY DEF request, script, is_dir_valid, Retrieval

LEMMA SameLens ==
  ASSUME world' = world, NEW k, NEW l, l = AnswerLen(k)
  PROVE  AnswerLen(k)' = l
BY SameRequest DEF AnswerLen

LEMMA SameShape ==
  ASSUME world' = world, NEW d, Shape(d), d = conn'
  PROVE  Shape(conn)'
<1>1. script' = script /\ WriteSize' = WriteSize
  BY SameScript
<1>2. (conn \in ConnRecord)'
  BY DEF Shape, ConnRecord, QueueOf, Frag, Unit
<1>3. Buffered(conn)'
  BY <1>1 DEF Shape, Buffered, Sized, Q!Empty
<1>4. Files(conn)'
  BY DEF Shape, Files
<1>5. Answering(conn)'
  <2> DEFINE r == request(d.command)
  <2>1. request(conn.command)' = r
    BY SameRequest
  <2> HIDE DEF r
  <2>2. \/ d.finished /\ d.written = 0 /\ d.retrieve_buffer = Q!Empty
        \/ /\ ~d.finished /\ d.state = "OPEN"
           /\ InList(d) \/ InRetrieval(d) \/ Stuck(d)
    BY DEF Shape, Answering
  <2>3. CASE d.finished /\ d.written = 0 /\ d.retrieve_buffer = Q!Empty
    BY <2>3 DEF Answering, Q!Empty
  <2>4. CASE ~d.finished /\ d.state = "OPEN" /\ InList(d)
    BY <2>1, <2>4 DEF Answering, InList, Q!Empty, r
  <2>5. CASE ~d.finished /\ d.state = "OPEN" /\ InRetrieval(d)
    BY <2>1, <2>5 DEF Answering, InRetrieval, Run, Unit, r
  <2>6. CASE ~d.finished /\ d.state = "OPEN" /\ Stuck(d)
    BY <2>1, <2>6 DEF Answering, Stuck, Retrieval, Q!Empty, r
  <2>7. QED
    BY <2>2, <2>3, <2>4, <2>5, <2>6
<1>6. QED
  BY <1>2, <1>3, <1>4, <1>5 DEF Shape

LEMMA SameProgress ==
  ASSUME world' = world, NEW d, d = conn', NEW p, p = Progress(d)
  PROVE  Progress(conn)' = p
BY SameLens DEF Progress

LEMMA SameStream ==
  ASSUME NEW d, d = conn', NEW inb, inb = inbound', NEW nx, nx = next', StreamOf(d, inb, nx)
  PROVE  StreamOf(conn, inbound, next)'
BY DEF StreamOf, Numbered, Frag, Fragment

(* Base after a step, from what the step makes of each variable.           *)
LEMMA BaseNext ==
  ASSUME Base, world' = world, NEW d, d = conn', NEW inb, inb = inbound', NEW nx, nx = next',
         Shape(d), Waiting(d), inb \in Seq(Frag), nx \in Nat, nx <= 2 * Len(script),
         d.state \in {"OPEN", "CLIENT_FINISHED"} => StreamOf(d, inb, nx)
  PROVE  Base'
<1>1. Shape(conn)'
  BY SameShape
<1>2. Waiting(conn)'
  BY DEF Waiting, Q!Empty
<1>3. (world \in Worlds)'
  BY DEF Base
<1>4. (inbound \in Seq(Frag) /\ next \in Nat /\ next <= 2 * Len(script))'
  BY SameScript DEF Frag
<1>5. Open' => StreamOf(conn, inbound, next)'
  BY SameStream DEF Open
<1>6. QED
  BY <1>1, <1>2, <1>3, <1>4, <1>5 DEF Base, Stream

(* What is written at once is a pair of units.                             *)
LEMMA PairIs ==
  ASSUME NEW k \in Nat, NEW u, Run(u, k, 0, 2)
  PROVE  u = <<<<k, 1>>, <<k, 2>>>>
<1> DEFINE a == <<k, 1>>
           b == <<k, 2>>
<1>1. u \in Seq(Unit) /\ Len(u) = 2 /\ u[1] = a /\ u[2] = b
  BY DEF Run
<1>2. a \in Unit /\ b \in Unit
  BY DEF Unit
<1> HIDE DEF a, b
<1>3. <<a, b>> \in Seq(Unit) /\ Len(<<a, b>>) = 2 /\ <<a, b>>[1] = a /\ <<a, b>>[2] = b
  BY <1>2
<1>4. \A i \in 1 .. 2 : u[i] = <<a, b>>[i]
  BY <1>1, <1>3
<1>5. u = <<a, b>>
  BY <1>1, <1>3, <1>4, SeqEqual
<1>6. QED
  BY <1>5 DEF a, b

(* A connection that was just accepted.                                    *)
LEMMA AcceptedIs ==
  ASSUME WorldType
  PROVE  /\ Shape(Accepted) /\ Waiting(Accepted) /\ Accepted.state = "OPEN"
         /\ Accepted.interest = "WRITE" /\ Accepted.finished = TRUE /\ Accepted.command = 0
         /\ Accepted.read_buffer = Q!Empty /\ Accepted.finished_reading = FALSE
         /\ Accepted.write_buffer = [gap |-> 0, bytes |-> <<<<0, 1>>, <<0, 2>>>>]
<1> DEFINE x == Q!Empty
           g == [gap |-> 0, bytes |-> <<<<0, 1>>, <<0, 2>>>>]
<1>1. /\ x \in QueueOf(Frag) /\ x \in QueueOf(Unit) /\ x.bytes = <<>> /\ x.gap = 0
      /\ Sized(x, ReadSize) /\ Sized(x, WriteSize) /\ Sized(x, RetrieveSize)
  BY SizesTyped, EmptyIs DEF WorldType
<1>0. Units(0, 1, 2) = <<<<0, 1>>, <<0, 2>>>> /\ Run(Units(0, 1, 2), 0, 0, 2)
  <2>1. Run(Units(0, 1, 2), 0, 0, 2)
    <3>1. 1 = 0 + 1 /\ 2 = 0 + 2 /\ 0 \in Nat /\ 2 \in Nat
      OBVIOUS
    <3>2. QED
      BY <3>1, UnitsRun
  <2>2. QED
    BY <2>1, PairIs
<1>2. g \in QueueOf(Unit) /\ Sized(g, WriteSize) /\ Len(g.bytes) = 2
  <2> DEFINE v == <<<<0, 1>>, <<0, 2>>>>
  <2>1. v \in Seq(Unit) /\ Len(v) = 2 /\ v # <<>>
    BY <1>0 DEF Run
  <2>2. 0 + 2 <= WriteSize
    BY DEF WorldType
  <2>3. g = [gap |-> 0, bytes |-> v]
    OBVIOUS
  <2> HIDE DEF v, g
  <2>4. g.gap = 0 /\ g.bytes = v /\ g \in [gap : Nat, bytes : Seq(Unit)]
    BY <2>1, <2>3
  <2>5. QED
    BY <2>1, <2>2, <2>4 DEF QueueOf, Sized
<1>3. Q!WriteN(x, Units(0, 1, 2), WriteSize) = g
  <2> DEFINE v == Units(0, 1, 2)
  <2>1. Q!Room(x, WriteSize) = WriteSize - (0 + 0)
    BY <1>1 DEF Q!Room
  <2>0. v \in Seq(Unit) /\ Len(v) = 2
    BY <1>0 DEF Run
  <2>5. v = <<<<0, 1>>, <<0, 2>>>>
    BY <1>0
  <2> HIDE DEF v
  <2>7. WriteSize \in Nat /\ 2 <= WriteSize
    BY DEF WorldType
  <2>2. Q!Room(x, WriteSize) = WriteSize /\ Len(v) <= WriteSize /\ v \in Seq(Unit)
    BY <2>0, <2>1, <2>7
  <2>3. Q!WriteN(x, v, WriteSize) = [x EXCEPT !.bytes = x.bytes \o v]
    BY <2>2 DEF Q!WriteN, Q!Append_
  <2>4. <<>> \o v = v
    BY <2>2, ConcatEmptySeq
  <2>6. QED
    BY <2>3, <2>4, <2>5 DEF Q!Empty, v
<1> HIDE DEF g
<1>4. Accepted = [state |-> "OPEN", interest |-> "WRITE", read_buffer |-> x, write_buffer |-> g,
           parsing |-> 0, command |-> 0, finished |-> TRUE, written |-> 0,
           filed_fd |-> "none", file_interest |-> "none", file_pos |-> 0,
           finished_reading |-> FALSE, retrieve_buffer |-> x]
  <2>1. Accepted = [Closed EXCEPT !.state = "OPEN", !.interest = "WRITE", !.write_buffer = g]
    BY <1>3 DEF Accepted
  <2> HIDE DEF x
  <2>2. Closed = [state |-> "closed", interest |-> "none", read_buffer |-> x, write_buffer |-> x,
           parsing |-> 0, command |-> 0, finished |-> TRUE, written |-> 0,
           filed_fd |-> "none", file_interest |-> "none", file_pos |-> 0,
           finished_reading |-> FALSE, retrieve_buffer |-> x]
    BY DEF Closed, x
  <2>3. QED
    BY <2>1, <2>2
<1> HIDE DEF x
<1>5. Accepted \in ConnRecord
  BY <1>1, <1>2, <1>4 DEF ConnRecord
<1>6. Buffered(Accepted) /\ Files(Accepted) /\ Answering(Accepted)
  BY <1>1, <1>2, <1>4 DEF Buffered, Files, Answering, x
<1>7. QED
  BY <1>4, <1>5, <1>6 DEF Shape, Waiting, x, g

LEMMA BaseInit == Init => Base
<1> SUFFICES ASSUME Init PROVE Base
  OBVIOUS
<1>1. WorldType
  BY WorldTyped DEF Init
<1>2. Shape(conn) /\ Waiting(conn) /\ conn.command = 0 /\ conn.read_buffer = Q!Empty
  BY <1>1, AcceptedIs DEF Init
<1>3. inbound \in Seq(Frag) /\ next \in Nat /\ next <= 2 * Len(script)
  BY <1>1 DEF Init, WorldType
<1>4. StreamOf(conn, inbound, next)
  <2>1. conn.read_buffer.bytes \o inbound = <<>>
    BY <1>2 DEF Init, Q!Empty
  <2>2. Numbered(<<>>, 0) /\ 0 + Len(<<>>) = 0
    BY DEF Numbered
  <2>3. 0 \in {2 * conn.command, 2 * conn.command + 1} /\ next = 0
    BY <1>2 DEF Init
  <2>4. QED
    BY <2>1, <2>2, <2>3 DEF StreamOf
<1>5. QED
  BY <1>2, <1>3, <1>4 DEF Init, Base, Stream

(* What the client sends next continues the stream.                        *)
LEMMA StreamGrows ==
  ASSUME NEW c \in ConnRecord, NEW inb \in Seq(Frag), NEW nx \in Nat, StreamOf(c, inb, nx)
  PROVE  Append(inb, Fragment(nx + 1)) \in Seq(Frag)
         /\ StreamOf(c, Append(inb, Fragment(nx + 1)), nx + 1)
<1> DEFINE b == c.read_buffer.bytes
           f == Fragment(nx + 1)
           s == b \o inb
           l == Len(s)
<1>1. b \in Seq(Frag) /\ s \in Seq(Frag) /\ l \in Nat /\ c.command \in Nat
  BY ConcatProperties DEF ConnRecord, QueueOf
<1>2. f \in Frag
  <2>1. (nx + 1) + 1 \in Nat /\ ((nx + 1) + 1) \div 2 \in Nat
    OBVIOUS
  <2>2. (((nx + 1) % 2) = 0) \in BOOLEAN
    OBVIOUS
  <2>3. QED
    BY <2>1, <2>2 DEF Fragment, Frag
<1>3. PICK m \in {2 * c.command, 2 * c.command + 1} : Numbered(s, m) /\ m + l = nx
  BY DEF StreamOf
<1>4. m \in Nat
  BY <1>1
<1> HIDE DEF b, f
<1>5. Append(inb, f) \in Seq(Frag) /\ b \o Append(inb, f) = Append(s, f)
  <2>1. Append(inb, f) = inb \o <<f>> /\ Append(s, f) = s \o <<f>> /\ <<f>> \in Seq(Frag)
    BY <1>1, <1>2, AppendIsConcat
  <2>2. (b \o inb) \o <<f>> = b \o (inb \o <<f>>)
    BY <1>1, <2>1, ConcatAssociative
  <2>3. Append(inb, f) \in Seq(Frag)
    BY <1>2
  <2>4. QED
    BY <2>1, <2>2, <2>3
<1> HIDE DEF s, l
<1>6. Numbered(Append(s, f), m) /\ m + Len(Append(s, f)) = nx + 1
  <2>1. /\ Append(s, f) \in Seq(Frag) /\ Len(Append(s, f)) = l + 1
        /\ \A i \in 1 .. l : Append(s, f)[i] = s[i]
        /\ Append(s, f)[l + 1] = f
    BY <1>1, <1>2 DEF l
  <2>2. \A i \in 1 .. l : s[i] = Fragment(m + i)
    BY <1>3 DEF Numbered, l
  <2>3. m + (l + 1) = nx + 1
    BY <1>1, <1>3, <1>4
  <2>4. Append(s, f)[l + 1] = Fragment(m + (l + 1))
    BY <2>1, <2>3 DEF f
  <2>5. \A i \in 1 .. l + 1 : i \in 1 .. l \/ i = l + 1
    BY <1>1
  <2>6. QED
    BY <2>1, <2>2, <2>3, <2>4, <2>5 DEF Numbered
<1>7. QED
  BY <1>3, <1>5, <1>6 DEF StreamOf, b, f

(* A step of each kind.                                                    *)
LEMMA ClientSendsStep ==
  ASSUME Base, ClientSends
  PROVE  Base'
<1>1. /\ conn' = conn /\ world' = world /\ next' = next + 1 /\ inbound' = Append(inbound, Fragment(next + 1))
      /\ next < 2 * Len(script)
  BY DEF ClientSends
<1>2. Shape(conn) /\ Waiting(conn) /\ conn \in ConnRecord
      /\ inbound \in Seq(Frag) /\ next \in Nat /\ (Open => StreamOf(conn, inbound, next))
      /\ WorldType
  BY WorldTyped DEF Base, Shape, Stream
<1> DEFINE inb == Append(inbound, Fragment(next + 1))
           nx == next + 1
<1>3. nx \in Nat /\ nx <= 2 * Len(script)
  BY <1>1, <1>2 DEF WorldType
<1>4. Open => inb \in Seq(Frag) /\ StreamOf(conn, inb, nx)
  BY <1>2, StreamGrows
<1>5. inb \in Seq(Frag)
  <2>1. Fragment(next + 1) \in Frag
    <3>1. (next + 1) + 1 \in Nat /\ ((next + 1) + 1) \div 2 \in Nat /\ (((next + 1) % 2) = 0) \in BOOLEAN
      BY <1>2
    <3>2. QED
      BY <3>1 DEF Fragment, Frag
  <2>2. QED
    BY <1>2, <2>1
<1> HIDE DEF inb, nx
<1>6. inbound' = inb /\ next' = nx
  BY <1>1 DEF inb, nx
<1>7. conn.state \in {"OPEN", "CLIENT_FINISHED"} => StreamOf(conn, inb, nx)
  BY <1>4 DEF Open
<1>8. QED
  BY <1>1, <1>2, <1>3, <1>5, <1>6, <1>7, BaseNext

(* Every action keeps Base.                                                *)
LEMMA ReadBase ==
  ASSUME Base, pop3_read_handler
  PROVE  Base'
<1> DEFINE d == conn'
           inb == inbound'
<1>1. WorldType /\ Shape(conn) /\ conn \in ConnRecord /\ next \in Nat /\ next <= 2 * Len(script)
  BY WorldTyped DEF Base, Shape, Stream
<1>2. world' = world /\ next' = next
  BY DEF pop3_read_handler
<1>3. /\ inb \in Seq(Frag)
      /\ \/ d = Closed /\ gone
         \/ /\ conn.state = "OPEN" /\ conn.interest = "READ" /\ conn.finished
            /\ ReadTo(d) /\ StreamOf(d, inb, next)
  BY <1>1, ReadStep
<1>4. Shape(d) /\ Waiting(d) /\ (d.state \in {"OPEN", "CLIENT_FINISHED"} => StreamOf(d, inb, next))
  <2>1. CASE d = Closed
    BY <1>1, <2>1, ClosedIs
  <2>2. CASE conn.state = "OPEN" /\ conn.finished /\ d = Parsed(conn, "READ", Q!Empty)
             /\ StreamOf(d, inb, next)
    <3>1. Shape(d) /\ d.read_buffer = Q!Empty /\ d.state = "OPEN" /\ d.finished
      BY <1>1, <2>2, SizesTyped, EmptyIs, AskedIs
    <3>2. QED
      BY <2>2, <3>1 DEF Waiting
  <2>3. ASSUME NEW r \in QueueOf(Frag), NEW u \in Seq(Unit), StreamOf(d, inb, next),
               Ready(Asked(conn, "WRITE", r)), Ran(Asked(conn, "WRITE", r), d, u)
        PROVE  Shape(d) /\ Waiting(d) /\ StreamOf(d, inb, next)
    <3> DEFINE a == Asked(conn, "WRITE", r)
    <3>1. a.interest = "WRITE"
      BY <1>1 DEF Asked, Parsed, ConnRecord
    <3>2. a.command > 0
      BY <2>3, <1>1, ReadyFacts
    <3> HIDE DEF a
    <3>3. Shape(d) /\ d.interest = "WRITE" /\ d.command = a.command
      BY <2>3, <3>1 DEF Ran, a
    <3>4. d.state = "CLIENT_FINISHED" => d.finished
      BY <3>3 DEF Shape, Answering
    <3>5. QED
      BY <2>3, <3>2, <3>3, <3>4 DEF Waiting
  <2>4. QED
    BY <1>3, <2>1, <2>2, <2>3 DEF ReadTo
<1> HIDE DEF d, inb
<1>5. d = conn' /\ inb = inbound'
  BY DEF d, inb
<1>6. QED
  BY <1>1, <1>2, <1>3, <1>4, <1>5, BaseNext

LEMMA WriteBase ==
  ASSUME Base, pop3_write_handler
  PROVE  Base'
<1> DEFINE d == conn'
           s == sent'
<1>1. /\ WorldType /\ Shape(conn) /\ Waiting(conn) /\ next \in Nat /\ next <= 2 * Len(script)
      /\ inbound \in Seq(Frag)
  BY WorldTyped DEF Base, Stream
<1>2. world' = world /\ next' = next /\ inbound' = inbound
  BY DEF pop3_write_handler
<1>3. WriteTo(d, s) /\ conn.interest = "WRITE"
  BY <1>1, WriteStep
<1> HIDE DEF d, s
<1>4. Shape(d) /\ Waiting(d) /\ (d.state \in {"OPEN", "CLIENT_FINISHED"} => StreamOf(d, inbound, next))
  <2>1. CASE d = Closed
    BY <1>1, <2>1, ClosedIs
  <2>2. ASSUME NEW n \in 0 .. Len(conn.write_buffer.bytes), conn.state = "OPEN",
               NEW e, AfterSend(Sent(conn, n), e), StreamOf(e, inbound, next), d = e
        PROVE  Shape(d) /\ Waiting(d) /\ StreamOf(d, inbound, next)
    <3> DEFINE c == Sent(conn, n)
    <3>1. /\ Shape(c) /\ c.interest = "WRITE" /\ c.state = "OPEN" /\ c.finished = conn.finished
          /\ c.command = conn.command
      BY <1>1, <1>3, <2>2, SentIs
    <3> HIDE DEF c
    <3>2. ~c.finished => c.command > 0
      BY <1>1, <3>1 DEF Waiting
    <3>3. QED
      BY <2>2, <3>1, <3>2, AfterSendKeeps DEF c
  <2>3. QED
    BY <1>3, <2>1, <2>2 DEF WriteTo
<1>5. d = conn'
  BY DEF d
<1>6. QED
  BY <1>1, <1>2, <1>4, <1>5, BaseNext

LEMMA MailBase ==
  ASSUME Base, mail_read_handler
  PROVE  Base'
<1> DEFINE d == conn'
<1>1. /\ WorldType /\ Shape(conn) /\ Waiting(conn) /\ next \in Nat /\ next <= 2 * Len(script)
      /\ inbound \in Seq(Frag)
  BY WorldTyped DEF Base, Stream
<1>2. world' = world /\ next' = next /\ inbound' = inbound
  BY DEF mail_read_handler
<1>3. Calm(conn, d)
  BY <1>1, MailStep
<1> HIDE DEF d
<1>4. Shape(d) /\ Waiting(d)
  BY <1>1, <1>3 DEF Calm, Waiting
<1>5. d.state \in {"OPEN", "CLIENT_FINISHED"} => StreamOf(d, inbound, next)
  BY <1>3 DEF Base, Stream, Open, StreamOf, Calm
<1>6. d = conn'
  BY DEF d
<1>7. QED
  BY <1>1, <1>2, <1>4, <1>5, <1>6, BaseNext

LEMMA BaseStep == Base /\ [Next]_vars => Base'
<1> SUFFICES ASSUME Base, [Next]_vars PROVE Base'
  OBVIOUS
<1>1. CASE pop3_read_handler
  BY <1>1, ReadBase
<1>2. CASE pop3_write_handler
  BY <1>2, WriteBase
<1>3. CASE mail_read_handler
  BY <1>3, MailBase
<1>4. CASE ClientSends
  BY <1>4, ClientSendsStep
<1>5. CASE conn' = conn /\ world' = world /\ next' = next /\ inbound' = inbound
  BY <1>5, BaseNext DEF Base, Stream, Open
<1>6. QED
  BY <1>1, <1>2, <1>3, <1>4, <1>5 DEF Next, ClientCloses, vars

(* In every reachable state client_data has its shape: buffers within      *)
(* their sizes and reset when empty, a file open and watched exactly while *)
(* RETR needs it, progress within the answer, and the parser at the place  *)
(* in the stream of commands that the connection has come to.              *)
THEOREM ConnectionTypes == Spec => []Base
<1>1. Init => Base
  BY BaseInit
<1>2. Base /\ [Next]_vars => Base'
  BY BaseStep
<1>3. QED
  BY <1>1, <1>2, PTL DEF Spec

(* select() never watches a mail file that is closed, and a connection     *)
(* that ends in the middle of RETR leaves none open, whatever the client,  *)
(* send() and the file do (mail_info of pop3_actions.c).                   *)
THEOREM FilesStayBalanced == Spec => []FilesBalanced
<1>1. Base => FilesBalanced
  BY DEF Base, Shape, Files, FilesBalanced, Open
<1>2. QED
  BY <1>1, ConnectionTypes, PTL

(* The read handler of pop3.c waits for input only with an empty read      *)
(* buffer, so recv() never has a length of zero and no complete command is *)
(* left unexecuted.                                                        *)
THEOREM ReadsHaveRoom == Spec => []ReadsIntoEmptyBuffer
<1>1. Base => ReadsIntoEmptyBuffer
  BY DEF Base, Waiting, ReadsIntoEmptyBuffer
<1>2. QED
  BY <1>1, ConnectionTypes, PTL

LEMMA BusyHolds == Base /\ [Next]_vars => [HoldsParser]_vars
<1> SUFFICES ASSUME Base, Next PROVE HoldsParser
  OBVIOUS
<1>1. /\ WorldType /\ Shape(conn) /\ Waiting(conn)
  BY WorldTyped DEF Base
<1> SUFFICES ASSUME Open, ~conn.finished, conn'.state # "closed"
             PROVE  conn'.parsing = conn.parsing /\ conn'.read_buffer = conn.read_buffer
  BY DEF HoldsParser
<1> DEFINE d == conn'
           s == sent'
<1>2. CASE pop3_read_handler
  BY <1>1, <1>2 DEF pop3_read_handler, Waiting
<1>3. CASE pop3_write_handler
  <2>1. WriteTo(d, s)
    BY <1>1, <1>3, WriteStep
  <2> HIDE DEF s
  <2>2. d # Closed
    BY <1>1, ClosedIs
  <2> HIDE DEF d
  <2>3. PICK n \in 0 .. Len(conn.write_buffer.bytes) : AfterSend(Sent(conn, n), d)
    BY <2>1, <2>2 DEF WriteTo
  <2> DEFINE c == Sent(conn, n)
  <2>4. ~c.finished /\ c.parsing = conn.parsing /\ c.read_buffer = conn.read_buffer
    BY <1>1, SentIs
  <2> HIDE DEF c
  <2>5. \E u \in Seq(Unit) : Ran(c, d, u)
    BY <2>3, <2>4 DEF AfterSend, c
  <2>6. QED
    BY <2>4, <2>5 DEF Ran, d
<1>4. CASE mail_read_handler
  <2>1. Calm(conn, d)
    BY <1>1, <1>4, MailStep
  <2>2. QED
    BY <2>1 DEF Calm
<1>5. CASE ClientSends \/ ClientCloses
  BY <1>5 DEF ClientSends, ClientCloses
<1>6. QED
  BY <1>2, <1>3, <1>4, <1>5 DEF Next

(* While an answer is unfinished no step parses anything: LIST and RETR    *)
(* find the argument of their command each time they go on (pop3.c, the    *)
(* write handler).                                                         *)
THEOREM BusyParserIsHeld == Spec => ParserHeldWhileBusy
<1>1. Base /\ [Next]_vars => [HoldsParser]_vars
  BY BusyHolds
<1>2. QED
  BY <1>1, ConnectionTypes, PTL DEF Spec, ParserHeldWhileBusy

-----------------------------------------------------------------------------
(* The session: what left, what the client may send, what QUIT does. *)

Alive(c) == c.state \in {"OPEN", "CLIENT_FINISHED"}

(* What left and what waits goes up, and no further than the progress.     *)
Up(c, s) ==
  /\ s \in Seq(Unit) /\ Increasing(s \o c.write_buffer.bytes)
  /\ Alive(c) => Reached(s \o c.write_buffer.bytes, c.command, Progress(c))

(* A client that does not pipeline has one command under way.              *)
One(c, nx) ==
  ~Pipelining /\ Alive(c) =>
    /\ c.read_buffer.bytes = <<>>
    /\ nx <= 2 * c.command + 2
    /\ nx > 2 * c.command => c.finished /\ c.write_buffer.bytes = <<>>

(* What the write buffer holds when the handlers wait; the connection      *)
(* before its first command; and what QUIT leaves.                         *)
Drained(c) ==
  ~(Pipelining /\ PartialSend) \/ c.command = 0 =>
    (Alive(c) /\ c.interest = "READ" => c.write_buffer.bytes = <<>>)

BeforeFirst(c) ==
  Alive(c) /\ c.command = 0 => c.read_buffer.bytes = <<>> /\ c.state = "OPEN" /\ c.finished

Quits(c) ==
  /\ c.state = "OPEN" => \A j \in 1 .. c.command : script[j] # "QUIT"
  /\ c.state = "CLIENT_FINISHED" =>
       /\ c.command \in 1 .. Len(script) /\ script[c.command] = "QUIT"
       /\ \A j \in 1 .. c.command - 1 : script[j] # "QUIT"
       /\ ~Pipelining \/ c.command = 1 => c.write_buffer.bytes = <<<<c.command, 1>>, <<c.command, 2>>>>

(* The invariant of the session.                                           *)
Session(c, s, nx) == Up(c, s) /\ One(c, nx) /\ Drained(c) /\ BeforeFirst(c) /\ Quits(c)

LEMMA StreamBounds ==
  ASSUME NEW c \in ConnRecord, NEW inb \in Seq(Frag), NEW nx \in Nat, StreamOf(c, inb, nx)
  PROVE  /\ 2 * c.command <= nx
         /\ nx <= 2 * c.command => c.read_buffer.bytes = <<>>
<1> DEFINE k == c.command
           lb == Len(c.read_buffer.bytes)
           li == Len(inb)
<1>1. k \in Nat /\ lb \in Nat /\ li \in Nat /\ c.read_buffer.bytes \in Seq(Frag)
  BY DEF ConnRecord, QueueOf
<1>2. PICK m \in {2 * k, 2 * k + 1} : m + Len(c.read_buffer.bytes \o inb) = nx
  BY DEF StreamOf
<1>3. Len(c.read_buffer.bytes \o inb) = lb + li
  BY <1>1, ConcatProperties
<1>4. m \in Nat /\ 2 * k <= m /\ m + (lb + li) = nx
  BY <1>1, <1>2, <1>3
<1>5. lb = 0 => c.read_buffer.bytes = <<>>
  BY <1>1
<1> HIDE DEF k, lb, li
<1>6. 2 * k <= nx /\ (nx <= 2 * k => lb = 0)
  BY <1>1, <1>4
<1>7. QED
  BY <1>5, <1>6 DEF k

LEMMA LensTyped ==
  ASSUME WorldType, NEW k \in 0 .. Len(script)
  PROVE  AnswerLen(k) \in Nat /\ AnswerLen(k) > 0
<1>1. CASE k = 0
  <2>1. AnswerLen(k) = 2
    BY <1>1 DEF AnswerLen
  <2>2. QED
    BY <2>1
<1>2. CASE k \in 1 .. Len(script)
  BY <1>2, AnswerLens, SizesTyped
<1>3. QED
  BY <1>1, <1>2 DEF WorldType

(* An answer that goes on is not at its end.                               *)
LEMMA Unfinished ==
  ASSUME NEW c, Ready(c), WorldType, ~c.finished
  PROVE  Progress(c) \in Nat /\ Progress(c) < AnswerLen(c.command)
<1>1. Answering(c) /\ c \in ConnRecord /\ c.command \in 1 .. Len(script)
  BY DEF Ready, Shape
<1>2. CASE InList(c)
  <2>1. Progress(c) = c.written /\ c.written \in 1 .. ListLen + 1 /\ AnswerLen(c.command) = ListLen + 2
    BY <1>1, <1>2, AnswerLens DEF InList, Progress
  <2>2. QED
    BY <2>1, SizesTyped
<1>3. CASE InRetrieval(c)
  <2>1. Going(c)
    BY <1>3 DEF Going, InRetrieval
  <2> DEFINE l == Len(c.retrieve_buffer.bytes)
             f == c.file_pos
  <2>2. /\ l \in Nat /\ f \in Nat /\ f <= MailLen /\ l <= f /\ Progress(c) = 1 + f - l
        /\ AnswerLen(c.command) = MailLen + 2
    BY <2>1, GoingFacts
  <2> HIDE DEF l, f
  <2>3. 1 + f - l \in Nat /\ 1 + f - l < MailLen + 2
    BY <2>2, SizesTyped
  <2>4. QED
    BY <2>2, <2>3
<1>4. CASE Stuck(c)
  <2>1. Progress(c) = 0
    BY <1>4 DEF Stuck, Progress
  <2>2. QED
    BY <1>1, <2>1, AnswerLens, SizesTyped
<1>5. QED
  BY <1>1, <1>2, <1>3, <1>4 DEF Answering

LEMMA PrefixIncreases ==
  ASSUME NEW s \in Seq(Unit), NEW t \in Seq(Unit), Increasing(s \o t)
  PROVE  Increasing(s)
<1> DEFINE w == s \o t
           n == Len(s)
           m == Len(t)
<1>1. /\ n \in Nat /\ m \in Nat /\ Len(w) = n + m
      /\ \A i \in 1 .. n + m : w[i] = IF i <= n THEN s[i] ELSE t[i - n]
  BY ConcatProperties
<1> HIDE DEF w, n, m
<1>2. \A i \in 1 .. n : i \in 1 .. n + m /\ w[i] = s[i]
  BY <1>1
<1>3. \A i, j \in 1 .. n + m : i < j => Less(w[i], w[j])
  BY <1>1 DEF Increasing, w
<1>4. \A i, j \in 1 .. n : i < j => Less(s[i], s[j])
  BY <1>2, <1>3
<1>5. QED
  BY <1>4 DEF Increasing, n

LEMMA NextReached ==
  ASSUME NEW s \in Seq(Unit), NEW k \in Nat, NEW p, Reached(s, k, p)
  PROVE  Reached(s, k + 1, 0)
<1>1. \A i \in 1 .. Len(s) : s[i][1] \in Nat
  BY UnitFields
<1>2. QED
  BY <1>1 DEF Reached

(* Running a command keeps what left and what waits going up.              *)
LEMMA UpRan ==
  ASSUME NEW a, Ready(a), WorldType, NEW s \in Seq(Unit),
         Increasing(s \o a.write_buffer.bytes),
         Reached(s \o a.write_buffer.bytes, a.command, Begun(a)),
         NEW d, NEW u \in Seq(Unit), Ran(a, d, u)
  PROVE  Up(d, s) /\ s \o d.write_buffer.bytes = (s \o a.write_buffer.bytes) \o u
<1> DEFINE b == a.write_buffer.bytes
           o == s \o b
           p == Begun(a)
           r == Progress(d)
<1>1. b \in Seq(Unit) /\ o \in Seq(Unit)
  BY ConcatProperties DEF Ready, Shape, ConnRecord, QueueOf
<1>2. d.write_buffer.bytes = b \o u /\ d.command = a.command /\ Steps(u, a.command, p, r)
  BY DEF Ran
<1> HIDE DEF b, p, r
<1>3. s \o (b \o u) = o \o u
  <2> DEFINE T == ListsOf(Unit)
  <2>1. s \in T /\ b \in T /\ u \in T
    BY <1>1 DEF ListsOf
  <2>2. \A x, y, z \in T : (x \o y) \o z = x \o (y \o z)
    BY Associative
  <2> HIDE DEF T
  <2>3. QED
    BY <2>1, <2>2, Zenon
<1>4. Increasing(o) /\ Reached(o, a.command, p)
  BY DEF b, p
<1> HIDE DEF o
<1>5. Increasing(o \o u) /\ Reached(o \o u, a.command, r)
  BY <1>1, <1>2, <1>4, Extend
<1>6. QED
  BY <1>2, <1>3, <1>5 DEF Up, r, o, b

(* A conn that is about to be asked the next command.                      *)
LEMMA AskedReached ==
  ASSUME NEW c, Shape(c), c.finished, NEW s, Up(c, s), c.state = "OPEN",
         NEW r \in QueueOf(Frag), Ready(Asked(c, "WRITE", r)), WorldType
  PROVE  LET a == Asked(c, "WRITE", r) IN
         /\ a.command = c.command + 1 /\ a.read_buffer = r /\ a.state = "OPEN" /\ a.finished
         /\ a.write_buffer = c.write_buffer /\ a.interest = "WRITE" /\ Begun(a) = 0
         /\ a.finished_reading = FALSE /\ a.command \in 1 .. Len(script)
         /\ Reached(s \o a.write_buffer.bytes, a.command, 0)
<1> DEFINE a == Asked(c, "WRITE", r)
<1>1. c \in ConnRecord /\ c.command \in Nat /\ c.write_buffer.bytes \in Seq(Unit)
  BY DEF Shape, ConnRecord, QueueOf
<1>2. /\ a.command = c.command + 1 /\ a.read_buffer = r /\ a.state = c.state
      /\ a.finished = c.finished /\ a.write_buffer = c.write_buffer /\ a.interest = "WRITE"
  BY <1>1 DEF Asked, Parsed, ConnRecord
<1> HIDE DEF a
<1>3. Ready(a)
  BY DEF a
<1>4. Begun(a) = 0 /\ a.finished_reading = FALSE
  BY <1>2, <1>3, ReadyFacts
<1>5. s \o c.write_buffer.bytes \in Seq(Unit)
  BY <1>1, ConcatProperties DEF Up
<1>6. Reached(s \o c.write_buffer.bytes, c.command + 1, 0)
  BY <1>1, <1>5, NextReached DEF Up, Alive
<1>7. QED
  BY <1>2, <1>3, <1>4, <1>6 DEF Ready, a

LEMMA SentUp ==
  ASSUME NEW c, Shape(c), WorldType, NEW s, Up(c, s),
         NEW n \in 0 .. Len(c.write_buffer.bytes)
  PROVE  LET t == s \o SubSeq(c.write_buffer.bytes, 1, n) IN
         /\ Up(Sent(c, n), t) /\ Up(Closed, t)
         /\ t \o Sent(c, n).write_buffer.bytes = s \o c.write_buffer.bytes
<1> DEFINE b == c.write_buffer.bytes
           h == SubSeq(b, 1, n)
           t == s \o h
           d == Sent(c, n)
<1>1. b \in Seq(Unit) /\ s \in Seq(Unit)
  BY DEF Shape, ConnRecord, QueueOf, Up
<1>2. /\ d.state = c.state /\ d.command = c.command /\ Progress(d) = Progress(c)
      /\ d.write_buffer.bytes = SubSeq(b, n + 1, Len(b))
  BY SentIs
<1> HIDE DEF d
<1>3. t \in Seq(Unit) /\ t \o SubSeq(b, n + 1, Len(b)) = s \o b
  BY <1>1, Resplit
<1>4. SubSeq(b, n + 1, Len(b)) \in Seq(Unit)
  BY <1>1
<1> HIDE DEF t
<1>5. Up(d, t)
  BY <1>2, <1>3 DEF Up, Alive
<1>6. Increasing(t)
  BY <1>3, <1>4, PrefixIncreases DEF Up
<1>7. Closed.write_buffer.bytes = <<>> /\ Closed.state = "closed"
  BY DEF Closed, Q!Empty
<1>8. t \o <<>> = t
  BY <1>3, ConcatEmptySeq
<1>9. Up(Closed, t)
  BY <1>3, <1>6, <1>7, <1>8 DEF Up, Alive
<1>10. QED
  BY <1>2, <1>3, <1>5, <1>9 DEF d, t

LEMMA ClosedUp == ASSUME NEW c, c.write_buffer.bytes \in Seq(Unit), NEW s, Up(c, s) PROVE Up(Closed, s)
<1>1. Closed.write_buffer.bytes = <<>> /\ Closed.state = "closed"
  BY DEF Closed, Q!Empty
<1>2. s \in Seq(Unit) /\ s \o <<>> = s
  BY ConcatEmptySeq DEF Up
<1>3. Increasing(s)
  BY <1>2, PrefixIncreases DEF Up
<1>4. QED
  BY <1>1, <1>2, <1>3 DEF Up, Alive

LEMMA ClosedSession ==
  ASSUME NEW s, Up(Closed, s), NEW nx
  PROVE  Session(Closed, s, nx)
<1>1. Closed.state = "closed"
  BY DEF Closed
<1>2. QED
  BY <1>1 DEF Session, One, Drained, BeforeFirst, Quits, Alive

(* Half a command was parsed.                                              *)
LEMMA ParsedSession ==
  ASSUME NEW c, Shape(c), c.finished, c.state = "OPEN", NEW s, NEW nx,
         Session(c, s, nx), NEW d, d = Parsed(c, "READ", Q!Empty),
         ~(Pipelining /\ PartialSend) \/ c.command = 0 => c.write_buffer.bytes = <<>>
  PROVE  Session(d, s, nx)
<1>1. /\ d.read_buffer.bytes = <<>> /\ d.state = "OPEN" /\ d.finished
      /\ d.write_buffer = c.write_buffer /\ d.command = c.command
  <2>1. Q!Empty \in QueueOf(Frag) /\ Sized(Q!Empty, ReadSize) /\ Q!Empty.bytes = <<>>
    BY SizesTyped, EmptyIs
  <2>2. QED
    BY <2>1, AskedIs
<1>2. Progress(d) = Progress(c)
  BY <1>1 DEF Progress
<1>3. QED
  BY <1>1, <1>2 DEF Session, Up, One, Drained, BeforeFirst, Quits, Alive

(* QUIT is told goodbye.                                                   *)
LEMMA QuitsRan ==
  ASSUME NEW a, Ready(a), WorldType, NEW d, NEW u \in Seq(Unit), Ran(a, d, u),
         \A j \in 1 .. a.command - 1 : script[j] # "QUIT",
         a.finished \/ script[a.command] # "QUIT",
         ~Pipelining \/ a.command = 1 => a.write_buffer.bytes = <<>> \/ d.state # "CLIENT_FINISHED"
  PROVE  Quits(d)
<1>1. /\ d.command = a.command /\ a.command \in 1 .. Len(script) /\ a.command \in Nat
      /\ Shape(d) /\ a \in ConnRecord
      /\ d.state \in IF script[a.command] = "QUIT" THEN {"CLIENT_FINISHED"} ELSE {"OPEN", "aborted"}
  BY DEF Ran, Ready, Shape, ConnRecord
<1>2. CASE script[a.command] # "QUIT"
  <2>1. \A j \in 1 .. a.command : script[j] # "QUIT"
    <3>1. \A j \in 1 .. a.command : j \in 1 .. a.command - 1 \/ j = a.command
      BY <1>1
    <3>2. QED
      BY <1>2, <3>1
  <2>2. QED
    BY <1>1, <1>2, <2>1 DEF Quits
<1>3. CASE script[a.command] = "QUIT"
  <2>1. d.state = "CLIENT_FINISHED" /\ a.finished
    BY <1>1, <1>3
  <2>2. ASSUME ~Pipelining \/ a.command = 1
        PROVE  d.write_buffer.bytes = <<<<d.command, 1>>, <<d.command, 2>>>>
    <3>1. a.write_buffer.bytes = <<>>
      BY <2>1, <2>2
    <3>2. a.write_buffer = Q!Empty
      BY <3>1 DEF Ready, Shape, Buffered, Sized
    <3>3. WriteRoom(a) >= 2
      <4>1. Q!Empty.gap = 0 /\ Len(Q!Empty.bytes) = 0
        BY DEF Q!Empty
      <4>2. WriteRoom(a) = WriteSize - (0 + 0)
        BY <3>2, <4>1 DEF WriteRoom, Q!Room
      <4>3. QED
        BY <4>2 DEF WorldType
    <3>4. Ample(a) /\ Begun(a) = 0
      BY <2>1, <3>3, ReadyFacts DEF Ample
    <3>5. d.finished
      BY <1>1, <2>1 DEF Shape, Answering
    <3>6. Progress(d) = 2
      <4>1. request(a.command) = "QUIT"
        BY <1>1, <1>3, Requested
      <4>2. QED
        BY <1>1, <3>5, <4>1, AnswerLens DEF Progress
    <3>7. Run(u, a.command, 0, 2)
      <4>1. Run(u, a.command, 0, 2 - 0)
        BY <3>4, <3>6 DEF Ran
      <4>2. QED
        BY <4>1
    <3>8. u = <<<<a.command, 1>>, <<a.command, 2>>>>
      BY <1>1, <3>7, PairIs
    <3>9. d.write_buffer.bytes = <<>> \o u
      BY <3>1 DEF Ran
    <3>10. <<>> \o u = u
      BY ConcatEmptySeq
    <3>11. QED
      BY <1>1, <3>8, <3>9, <3>10
  <2>3. QED
    BY <1>1, <1>3, <2>1, <2>2 DEF Quits
<1>4. QED
  BY <1>2, <1>3

(* The read handler keeps the session.                                     *)
LEMMA SessionRead ==
  ASSUME Base, WorldType, Session(conn, sent, next), pop3_read_handler, NEW d, d = conn'
  PROVE  Session(d, sent, next)
<1> DEFINE inb == inbound'
           k == conn.command
<1>1. /\ Shape(conn) /\ conn \in ConnRecord /\ conn.write_buffer.bytes \in Seq(Unit)
      /\ k \in Nat /\ next \in Nat
  BY DEF Base, Shape, ConnRecord, QueueOf, Stream
<1>2. /\ inb \in Seq(Frag)
      /\ \/ d = Closed /\ gone
         \/ /\ conn.state = "OPEN" /\ conn.interest = "READ" /\ conn.finished
            /\ ReadTo(d) /\ StreamOf(d, inb, next)
  BY ReadStep
<1> HIDE DEF inb
<1>3. CASE d = Closed
  BY <1>1, <1>3, ClosedUp, ClosedSession DEF Session
<1>4. CASE /\ conn.state = "OPEN" /\ conn.interest = "READ" /\ conn.finished
           /\ d = Parsed(conn, "READ", Q!Empty)
  <2>1. ~(Pipelining /\ PartialSend) \/ conn.command = 0 => conn.write_buffer.bytes = <<>>
    BY <1>4 DEF Session, Drained, Alive
  <2>2. QED
    BY <1>1, <1>4, <2>1, ParsedSession
<1>5. ASSUME NEW r \in QueueOf(Frag), NEW u \in Seq(Unit),
             conn.state = "OPEN", conn.interest = "READ", conn.finished, StreamOf(d, inb, next),
             Ready(Asked(conn, "WRITE", r)), Ran(Asked(conn, "WRITE", r), d, u)
      PROVE  Session(d, sent, next)
  <2> DEFINE a == Asked(conn, "WRITE", r)
  <2>1. /\ a.command = k + 1 /\ a.read_buffer = r /\ a.state = "OPEN" /\ a.finished
        /\ a.write_buffer = conn.write_buffer /\ a.interest = "WRITE" /\ Begun(a) = 0
        /\ a.command \in 1 .. Len(script)
        /\ Reached(sent \o a.write_buffer.bytes, a.command, 0)
    BY ZenonT(60), <1>1, <1>5, AskedReached DEF Session
  <2>2. Ready(a) /\ Ran(a, d, u)
    BY <1>5
  <2> HIDE DEF a
  <2>3. Up(d, sent)
    BY <2>1, <2>2, UpRan DEF Session, Up
  <2>4. d.command = k + 1 /\ d.interest = "WRITE" /\ d \in ConnRecord
    BY <2>1, <2>2 DEF Ran, Shape
  <2>5. One(d, next)
    <3>1. SUFFICES ASSUME ~Pipelining PROVE d.read_buffer.bytes = <<>> /\ next <= 2 * d.command
      <4>1. d.command \in Nat /\ ~(next <= 2 * d.command /\ next > 2 * d.command)
            /\ (next <= 2 * d.command => next <= 2 * d.command + 2)
        BY <1>1, <2>4
      <4>2. QED
        BY <4>1 DEF One
    <3>2. next <= 2 * k + 2
      BY <1>5, <3>1 DEF Session, One, Alive
    <3>3. next <= 2 * d.command
      BY <1>1, <2>4, <3>2
    <3>4. QED
      BY <1>1, <1>2, <1>5, <2>4, <3>3, StreamBounds
  <2>6. Drained(d)
    BY <2>4 DEF Drained
  <2>7. BeforeFirst(d)
    BY <1>1, <2>4 DEF BeforeFirst
  <2>8. Quits(d)
    <3>1. \A j \in 1 .. a.command - 1 : script[j] # "QUIT"
      <4>1. a.command - 1 = k
        BY <1>1, <2>1
      <4>2. QED
        BY <1>5, <4>1 DEF Session, Quits
    <3>2. ~Pipelining \/ a.command = 1 => a.write_buffer.bytes = <<>>
      <4>1. a.command = 1 => k = 0
        BY <1>1, <2>1
      <4>2. QED
        BY <1>5, <2>1, <4>1 DEF Session, Drained, Alive
    <3>3. QED
      BY <2>1, <2>2, <3>1, <3>2, QuitsRan
  <2>9. QED
    BY <2>3, <2>5, <2>6, <2>7, <2>8 DEF Session
<1>6. QED
  BY <1>2, <1>3, <1>4, <1>5 DEF ReadTo

LEMMA SentSession ==
  ASSUME NEW c, Shape(c), WorldType, NEW s, NEW nx, Session(c, s, nx),
         NEW n \in 0 .. Len(c.write_buffer.bytes)
  PROVE  LET d == Sent(c, n)
             t == s \o SubSeq(c.write_buffer.bytes, 1, n)
         IN /\ Up(d, t) /\ One(d, nx) /\ BeforeFirst(d)
            /\ d.state = "OPEN" => Quits(d)
<1> DEFINE d == Sent(c, n)
           t == s \o SubSeq(c.write_buffer.bytes, 1, n)
<1>1. /\ d.state = c.state /\ d.command = c.command /\ d.finished = c.finished
      /\ d.read_buffer = c.read_buffer /\ d.interest = c.interest
      /\ d.write_buffer.bytes = SubSeq(c.write_buffer.bytes, n + 1, Len(c.write_buffer.bytes))
  BY SentIs
<1>2. Up(d, t)
  BY SentUp DEF Session
<1> HIDE DEF d, t
<1>3. c.write_buffer.bytes = <<>> => d.write_buffer.bytes = <<>>
  BY <1>1
<1>4. QED
  BY <1>1, <1>2, <1>3 DEF Session, One, BeforeFirst, Quits, Alive, d, t

(* After send(): the session goes on.                                      *)
LEMMA AfterSendSession ==
  ASSUME NEW c, Shape(c), WorldType, c.state = "OPEN", c.interest = "WRITE", NEW t, NEW nx \in Nat,
         Up(c, t), One(c, nx), BeforeFirst(c), Quits(c),
         ~PartialSend => c.write_buffer.bytes = <<>>,
         NEW inb \in Seq(Frag), NEW e, AfterSend(c, e), StreamOf(e, inb, nx)
  PROVE  /\ e.state = "CLIENT_FINISHED" =>
              /\ e.command \in Nat /\ e.command > 1 /\ Pipelining
              /\ script[e.command] = "QUIT"
              /\ \A j \in 1 .. e.command - 1 : script[j] # "QUIT"
         /\ e.state # "CLIENT_FINISHED" => Session(e, t, nx)
         /\ Up(e, t)
<1> DEFINE k == c.command
<1>1. /\ c \in ConnRecord /\ c.write_buffer.bytes \in Seq(Unit) /\ k \in Nat /\ t \in Seq(Unit)
      /\ Sized(c.read_buffer, ReadSize)
  BY DEF Shape, ConnRecord, QueueOf, Up, Buffered
<1>2. ASSUME ~c.finished, Ready(c), NEW u \in Seq(Unit), Ran(c, e, u)
      PROVE  Session(e, t, nx) /\ e.state # "CLIENT_FINISHED"
  <2>1. /\ e.command = k /\ e.interest = "WRITE" /\ e.read_buffer = c.read_buffer /\ k > 0
        /\ script[k] # "QUIT"
    <3>1. request(k) # "QUIT" /\ k \in 1 .. Len(script)
      BY <1>2, ReadyFacts DEF Retrieval, Ready
    <3>2. QED
      BY <1>2, <3>1, ReadyFacts, Requested DEF Ran
  <2>2. Begun(c) = Progress(c)
    BY <1>2 DEF Begun
  <2>3. Up(e, t)
    BY <1>1, <1>2, <2>2, UpRan DEF Up, Alive
  <2>4. One(e, nx)
    BY <1>2, <2>1 DEF One, Alive
  <2>5. Drained(e) /\ BeforeFirst(e)
    BY <2>1 DEF Drained, BeforeFirst
  <2>6. e.state \in {"OPEN", "aborted"}
    BY <1>2, <2>1 DEF Ran
  <2>7. Quits(e)
    BY <2>1, <2>6 DEF Quits
  <2>8. QED
    BY <2>3, <2>4, <2>5, <2>6, <2>7 DEF Session
<1>3. ASSUME c.finished, c.read_buffer.bytes # <<>>, NEW r \in QueueOf(Frag), NEW u \in Seq(Unit),
             Ready(Asked(c, "WRITE", r)), Ran(Asked(c, "WRITE", r), e, u)
      PROVE  /\ e.state = "CLIENT_FINISHED" =>
                  /\ e.command \in Nat /\ e.command > 1 /\ Pipelining
                  /\ script[e.command] = "QUIT"
                  /\ \A j \in 1 .. e.command - 1 : script[j] # "QUIT"
             /\ e.state # "CLIENT_FINISHED" => Session(e, t, nx)
             /\ Up(e, t)
  <2> DEFINE a == Asked(c, "WRITE", r)
  <2>1. /\ a.command = k + 1 /\ a.read_buffer = r /\ a.state = "OPEN" /\ a.finished
        /\ a.write_buffer = c.write_buffer /\ a.interest = "WRITE" /\ Begun(a) = 0
        /\ a.command \in 1 .. Len(script)
        /\ Reached(t \o a.write_buffer.bytes, a.command, 0)
    <3>1. Shape(c) /\ Up(c, t) /\ c.finished /\ c.state = "OPEN" /\ Ready(Asked(c, "WRITE", r))
      BY <1>3
    <3>2. QED
      BY ZenonT(60), <3>1, AskedReached
  <2>2. Ready(a) /\ Ran(a, e, u)
    BY <1>3
  <2> HIDE DEF a
  <2>3. Up(e, t)
    BY <1>1, <2>1, <2>2, UpRan DEF Up
  <2>4. e.command = k + 1 /\ e.interest = "WRITE"
    BY <2>1, <2>2 DEF Ran
  <2>5. Pipelining /\ k # 0
    BY <1>3 DEF One, BeforeFirst, Alive
  <2>6. e.command \in Nat /\ e.command > 1
    BY <1>1, <2>4, <2>5
  <2>7. One(e, nx) /\ Drained(e) /\ BeforeFirst(e)
    BY <2>4, <2>5, <2>6 DEF One, Drained, BeforeFirst
  <2>8. \A j \in 1 .. a.command - 1 : script[j] # "QUIT"
    <3>1. a.command - 1 = k
      BY <1>1, <2>1
    <3>2. QED
      BY <3>1 DEF Quits
  <2>9. e.state # "CLIENT_FINISHED" => Quits(e)
    BY <2>1, <2>2, <2>8, QuitsRan
  <2>10. e.state = "CLIENT_FINISHED" => script[e.command] = "QUIT"
    BY <2>1, <2>2, <2>4 DEF Ran
  <2>11. a.command = e.command
    BY <2>1, <2>4
  <2>12. QED
    BY <2>3, <2>5, <2>6, <2>7, <2>8, <2>9, <2>10, <2>11 DEF Session
<1>4. CASE c.finished /\ e = Parsed(c, "READ", Q!Empty) /\ c.read_buffer.bytes # <<>>
  <2>1. Pipelining /\ k # 0
    BY <1>4 DEF One, BeforeFirst, Alive
  <2>2. /\ e.read_buffer.bytes = <<>> /\ e.state = "OPEN" /\ e.finished
        /\ e.write_buffer = c.write_buffer /\ e.command = k
    <3>1. Q!Empty \in QueueOf(Frag) /\ Sized(Q!Empty, ReadSize) /\ Q!Empty.bytes = <<>>
      BY SizesTyped, EmptyIs
    <3>2. QED
      BY <1>4, <3>1, AskedIs
  <2>3. Progress(e) = Progress(c)
    BY <1>4, <2>2 DEF Progress
  <2>4. Up(e, t)
    BY <2>2, <2>3 DEF Up, Alive
  <2>5. One(e, nx) /\ Drained(e) /\ BeforeFirst(e) /\ Quits(e)
    BY <2>1, <2>2 DEF One, Drained, BeforeFirst, Quits
  <2>6. QED
    BY <2>2, <2>4, <2>5 DEF Session
<1>5. CASE c.finished /\ e = [c EXCEPT !.interest = "READ"] /\ c.write_buffer.bytes = <<>>
  <2>1. /\ e.read_buffer = c.read_buffer /\ e.state = "OPEN" /\ e.finished = c.finished
        /\ e.write_buffer = c.write_buffer /\ e.command = k /\ e.filed_fd = c.filed_fd
    BY <1>1, <1>5 DEF ConnRecord
  <2>2. Progress(e) = Progress(c)
    BY <1>5, <2>1 DEF Progress
  <2>3. Up(e, t)
    BY <2>1, <2>2 DEF Up, Alive
  <2>4. One(e, nx) /\ Drained(e) /\ BeforeFirst(e) /\ Quits(e)
    BY <1>5, <2>1 DEF One, Drained, BeforeFirst, Quits, Alive
  <2>5. QED
    BY <2>1, <2>3, <2>4 DEF Session
<1>6. CASE e = c
  BY <1>6 DEF Session, Drained
<1>7. QED
  BY <1>2, <1>3, <1>4, <1>5, <1>6 DEF AfterSend, Session

(* What GoodbyeSent says when the session ends.                            *)
Goodbye(s, c, g) ==
  \A k \in 1 .. Len(script) : QuitsOrderly(k) /\ c.state = "closed" /\ ~g =>
    /\ Contains(s, <<k, 1>>)
    /\ ~PartialSend => Contains(s, <<k, AnswerLen(k)>>)

(* What send() took was sent.                                              *)
LEMMA TakenIsSent ==
  ASSUME NEW s \in Seq(Unit), NEW b \in Seq(Unit), NEW n \in 0 .. Len(b), NEW i \in 1 .. n
  PROVE  Contains(s \o SubSeq(b, 1, n), b[i])
<1> DEFINE h == SubSeq(b, 1, n)
           ls == Len(s)
<1>1. /\ h \in Seq(Unit) /\ Len(h) = n /\ n \in Nat /\ i \in 1 .. n
      /\ \A x \in 1 .. n : h[x] = b[x]
  OBVIOUS
<1> HIDE DEF h
<1>2. /\ Len(s \o h) = ls + n /\ ls \in Nat
      /\ \A x \in 1 .. ls + n : (s \o h)[x] = IF x <= ls THEN s[x] ELSE h[x - ls]
  <2>1. ls \in Nat
    OBVIOUS
  <2>2. /\ Len(s \o h) = ls + Len(h)
        /\ \A x \in 1 .. ls + Len(h) : (s \o h)[x] = IF x <= ls THEN s[x] ELSE h[x - ls]
    BY <1>1, ConcatProperties
  <2> HIDE DEF ls
  <2>3. QED
    BY <1>1, <2>1, <2>2
<1> HIDE DEF ls
<1>3. ls + i \in 1 .. ls + n /\ ~(ls + i <= ls) /\ (ls + i) - ls = i
  BY <1>1, <1>2
<1>4. (s \o h)[ls + i] = b[i]
  BY <1>1, <1>2, <1>3
<1> DEFINE w == s \o h
           x == ls + i
<1>5. x \in 1 .. Len(w) /\ w[x] = b[i]
  BY <1>2, <1>3, <1>4
<1> HIDE DEF w, x
<1>6. Contains(w, b[i])
  BY <1>5 DEF Contains
<1>7. QED
  BY <1>6 DEF w, h

LEMMA SameQuit ==
  ASSUME NEW k \in Nat, NEW l \in Nat, k > 0, l > 0, script[k] = "QUIT", script[l] = "QUIT",
         \A j \in 1 .. k - 1 : script[j] # "QUIT",
         \A j \in 1 .. l - 1 : script[j] # "QUIT"
  PROVE  k = l
<1>1. CASE k < l
  <2>1. k \in 1 .. l - 1
    BY <1>1
  <2>2. QED
    BY <2>1
<1>2. CASE l < k
  <2>1. l \in 1 .. k - 1
    BY <1>2
  <2>2. QED
    BY <2>1
<1>3. QED
  BY <1>1, <1>2

(* The write handler keeps the session, and what it says of QUIT makes the *)
(* goodbye leave before the connection closes.                             *)
LEMMA SessionWrite ==
  ASSUME Base, WorldType, Session(conn, sent, next), pop3_write_handler,
         NEW d, d = conn', NEW s, s = sent'
  PROVE  Session(d, s, next) /\ Goodbye(s, d, gone)
<1>1. /\ Shape(conn) /\ conn \in ConnRecord /\ conn.write_buffer.bytes \in Seq(Unit)
      /\ next \in Nat /\ inbound \in Seq(Frag) /\ Open
  BY DEF Base, Shape, ConnRecord, QueueOf, Stream, pop3_write_handler
<1>2. WriteTo(d, s) /\ conn.interest = "WRITE"
  BY WriteStep
<1>3. CASE gone /\ d = Closed /\ s = sent
  BY <1>1, <1>3, ClosedUp, ClosedSession DEF Session, Goodbye
<1>4. ASSUME ~gone, NEW n \in 0 .. Len(conn.write_buffer.bytes),
             ~PartialSend => n = Len(conn.write_buffer.bytes),
             Len(conn.write_buffer.bytes) > 0 => n > 0,
             s = sent \o SubSeq(conn.write_buffer.bytes, 1, n)
      PROVE  /\ conn.state = "CLIENT_FINISHED" /\ d = Closed => Session(d, s, next) /\ Goodbye(s, d, gone)
             /\ \A e : /\ conn.state = "OPEN" /\ AfterSend(Sent(conn, n), e) /\ StreamOf(e, inbound, next)
                       /\ d = IF e.state = "CLIENT_FINISHED" THEN Closed ELSE e
                       => Session(d, s, next) /\ Goodbye(s, d, gone)
  <2> DEFINE b == conn.write_buffer.bytes
  <2>1. Up(Closed, s)
    BY <1>1, <1>4, SentUp DEF Session
  <2>2. ASSUME conn.state = "CLIENT_FINISHED", d = Closed
        PROVE  Session(d, s, next) /\ Goodbye(s, d, gone)
    <3>1. Session(d, s, next)
      BY <2>1, <2>2, ClosedSession
    <3>2. ASSUME NEW k \in 1 .. Len(script), QuitsOrderly(k)
          PROVE  /\ Contains(s, <<k, 1>>)
                 /\ ~PartialSend => Contains(s, <<k, AnswerLen(k)>>)
      <4>1. /\ conn.command \in Nat /\ conn.command > 0 /\ script[conn.command] = "QUIT"
            /\ \A j \in 1 .. conn.command - 1 : script[j] # "QUIT"
            /\ ~Pipelining \/ conn.command = 1
               => b = <<<<conn.command, 1>>, <<conn.command, 2>>>>
        BY <2>2 DEF Session, Quits
      <4>2. /\ k \in Nat /\ k > 0 /\ script[k] = "QUIT"
            /\ \A j \in 1 .. k - 1 : script[j] # "QUIT"
            /\ ~Pipelining \/ k = 1
        BY <3>2 DEF QuitsOrderly
      <4>3. conn.command = k
        BY <4>1, <4>2, SameQuit
      <4>4. b = <<<<k, 1>>, <<k, 2>>>>
        BY <4>1, <4>2, <4>3
      <4>5. Len(b) = 2 /\ b[1] = <<k, 1>> /\ b[2] = <<k, 2>>
        BY <4>4
      <4>6. sent \in Seq(Unit) /\ b \in Seq(Unit) /\ s = sent \o SubSeq(b, 1, n)
            /\ n \in 0 .. Len(b) /\ n > 0 /\ (~PartialSend => n = 2)
        BY <1>1, <1>4, <4>5 DEF Session, Up
      <4>7. request(k) = "QUIT"
        BY <4>2, Requested
      <4>8. AnswerLen(k) = 2
        BY <4>7, AnswerLens
      <4> HIDE DEF b
      <4>9. Contains(s, b[1])
        <5>1. 1 \in 1 .. n
          BY <4>5, <4>6
        <5>2. QED
          BY <4>6, <5>1, TakenIsSent
      <4>10. ~PartialSend => Contains(s, b[2])
        <5>1. ~PartialSend => 2 \in 1 .. n
          BY <4>5, <4>6
        <5>2. QED
          BY <4>6, <5>1, TakenIsSent
      <4>11. QED
        BY <4>5, <4>8, <4>9, <4>10
    <3>3. Goodbye(s, d, gone)
      BY <3>2 DEF Goodbye
    <3>4. QED
      BY <3>1, <3>3
  <2>3. ASSUME NEW e, conn.state = "OPEN", AfterSend(Sent(conn, n), e), StreamOf(e, inbound, next),
               d = IF e.state = "CLIENT_FINISHED" THEN Closed ELSE e
        PROVE  Session(d, s, next) /\ Goodbye(s, d, gone)
    <3> DEFINE c == Sent(conn, n)
    <3>1. /\ Shape(c) /\ c.interest = "WRITE" /\ c.state = "OPEN"
          /\ c.write_buffer.bytes = SubSeq(b, n + 1, Len(b))
      BY <1>1, <1>2, <2>3, SentIs
    <3>2. Up(c, s) /\ One(c, next) /\ BeforeFirst(c) /\ Quits(c)
      BY <1>1, <1>4, <3>1, SentSession
    <3> HIDE DEF c
    <3>3. ~PartialSend => c.write_buffer.bytes = <<>>
      BY <1>1, <1>4, <3>1
    <3>4. /\ e.state = "CLIENT_FINISHED" =>
              /\ e.command \in Nat /\ e.command > 1 /\ Pipelining
              /\ script[e.command] = "QUIT"
              /\ \A j \in 1 .. e.command - 1 : script[j] # "QUIT"
          /\ e.state # "CLIENT_FINISHED" => Session(e, s, next)
          /\ Up(e, s)
      BY <1>1, <2>3, <3>1, <3>2, <3>3, AfterSendSession DEF c
    <3>5. CASE e.state = "CLIENT_FINISHED"
      <4>1. d = Closed
        BY <2>3, <3>5
      <4>2. Session(d, s, next)
        BY <2>1, <4>1, ClosedSession
      <4>3. ASSUME NEW k \in 1 .. Len(script), QuitsOrderly(k)
            PROVE  FALSE
        <5>1. /\ k \in Nat /\ k > 0 /\ e.command > 0 /\ script[k] = "QUIT"
              /\ \A j \in 1 .. k - 1 : script[j] # "QUIT"
              /\ ~Pipelining \/ k = 1
          BY <3>4, <3>5, <4>3 DEF QuitsOrderly
        <5>2. k = e.command
          BY <3>4, <3>5, <5>1, SameQuit
        <5>3. QED
          BY <3>4, <3>5, <5>1, <5>2
      <4>4. Goodbye(s, d, gone)
        BY <4>3 DEF Goodbye
      <4>5. QED
        BY <4>2, <4>4
    <3>6. CASE e.state # "CLIENT_FINISHED"
      <4>1. d = e
        BY <2>3, <3>6
      <4>2. e.state # "closed"
        BY <2>3, <3>1 DEF AfterSend, Ran, Parsed, ConnRecord, Shape, c
      <4>3. QED
        BY <3>4, <3>6, <4>1, <4>2 DEF Goodbye
    <3>7. QED
      BY <3>5, <3>6
  <2>4. QED
    BY <2>2, <2>3
<1>5. QED
  BY <1>2, <1>3, <1>4 DEF WriteTo

(* The mail handler touches nothing that the session is about.             *)
LEMMA SessionMail ==
  ASSUME Shape(conn), WorldType, Session(conn, sent, next), NEW d, Calm(conn, d)
  PROVE  Session(d, sent, next)
<1>1. /\ d.state = conn.state /\ d.interest = conn.interest /\ d.read_buffer = conn.read_buffer
      /\ d.finished = conn.finished /\ d.command = conn.command
      /\ d.write_buffer = conn.write_buffer /\ Progress(d) = Progress(conn)
  BY DEF Calm
<1>2. QED
  BY <1>1 DEF Session, Up, One, Drained, BeforeFirst, Quits, Alive

(* A client that does not pipeline begins a command only when it has the   *)
(* whole of the last answer; by then nothing is left to send.              *)
LEMMA SessionSends ==
  ASSUME Base, WorldType, Session(conn, sent, next), ClientSends
  PROVE  Session(conn, sent, next + 1)
<1> DEFINE k == conn.command
           b == conn.write_buffer.bytes
           o == sent \o b
<1>1. /\ Shape(conn) /\ conn \in ConnRecord /\ k \in Nat /\ next \in Nat
      /\ b \in Seq(Unit) /\ sent \in Seq(Unit) /\ o \in Seq(Unit) /\ inbound \in Seq(Frag)
      /\ next <= 2 * Len(script) /\ (Alive(conn) => StreamOf(conn, inbound, next))
      /\ Len(script) \in Nat
  BY ConcatProperties DEF Base, Shape, ConnRecord, QueueOf, Stream, Session, Up, Open, Alive, WorldType
<1>2. SUFFICES ASSUME ~Pipelining, Alive(conn)
               PROVE  /\ next + 1 <= 2 * k + 2
                      /\ next + 1 > 2 * k => conn.finished /\ b = <<>>
  BY DEF Session, One
<1>3. /\ next <= 2 * k + 2 /\ (next > 2 * k => conn.finished /\ b = <<>>)
      /\ conn.read_buffer.bytes = <<>>
  BY <1>2 DEF Session, One
<1>4. 2 * k <= next /\ k <= Len(script)
  <2>1. 2 * k <= next
    BY <1>1, <1>2, StreamBounds
  <2>2. QED
    BY <1>1, <2>1
<1> DEFINE j == next \div 2
<1>5. j \in Nat /\ (next = 2 * j \/ next = 2 * j + 1)
  BY <1>1
<1>6. CASE next = 2 * j + 1
  <2>1. j = k
    <3> HIDE DEF j, k
    <3>1. j >= k /\ j <= k
      BY <1>1, <1>3, <1>4, <1>5, <1>6
    <3>2. QED
      BY <1>1, <1>5, <3>1
  <2>2. next + 1 = 2 * k + 2 /\ next > 2 * k
    <3>1. next = 2 * k + 1
      BY <1>6, <2>1
    <3> HIDE DEF j, k
    <3>2. QED
      BY <1>1, <3>1
  <2>3. QED
    BY <1>1, <1>3, <2>2
<1>7. CASE next = 2 * j
  <2>1. Fragment(next + 1) = [command |-> j + 1, last |-> FALSE]
    BY <1>5, <1>7, Halves
  <2>2. (j + 1) - 1 = j
    BY <1>5
  <2>3. Contains(sent, <<j, AnswerLen(j)>>)
    <3>1. LET f == Fragment(next + 1) IN
            ~Pipelining /\ ~f.last => Contains(sent, <<f.command - 1, AnswerLen(f.command - 1)>>)
      BY DEF ClientSends
    <3> HIDE DEF j
    <3>2. QED
      BY <1>2, <2>1, <2>2, <3>1
  <2>4. PICK i \in 1 .. Len(sent) : sent[i] = <<j, AnswerLen(j)>>
    BY <2>3 DEF Contains
  <2>5. /\ i \in 1 .. Len(o) /\ o[i] = sent[i] /\ Len(o) = Len(sent) + Len(b)
        /\ Len(sent) \in Nat /\ Len(b) \in Nat
        /\ \A x \in 1 .. Len(b) : Len(sent) + x \in 1 .. Len(o) /\ o[Len(sent) + x] = b[x]
    <3>1. /\ Len(o) = Len(sent) + Len(b) /\ Len(sent) \in Nat /\ Len(b) \in Nat
          /\ \A x \in 1 .. Len(sent) + Len(b) : o[x] = IF x <= Len(sent) THEN sent[x] ELSE b[x - Len(sent)]
      BY <1>1, ConcatProperties
    <3> DEFINE ls == Len(sent)
               lb == Len(b)
    <3> HIDE DEF o, ls, lb, b
    <3>2. ls \in Nat /\ lb \in Nat /\ i \in 1 .. ls
      BY <3>1 DEF ls, lb
    <3>3. \A x \in 1 .. lb : ls + x \in 1 .. ls + lb /\ ~(ls + x <= ls) /\ (ls + x) - ls = x
      BY <3>2
    <3>4. i \in 1 .. ls + lb /\ i <= ls
      BY <3>2
    <3>5. \A x \in 1 .. ls + lb : o[x] = IF x <= ls THEN sent[x] ELSE b[x - ls]
      BY <3>1 DEF ls, lb
    <3>6. \A x \in 1 .. lb : o[ls + x] = b[x]
      BY <3>3, <3>5
    <3>7. QED
      BY <3>1, <3>3, <3>4, <3>5, <3>6 DEF ls, lb
  <2>6. Reached(o, k, Progress(conn)) /\ Increasing(o)
    BY <1>2 DEF Session, Up
  <2>7. o[i][1] = j /\ o[i][2] = AnswerLen(j)
    BY <2>4, <2>5
  <2>8. j < k \/ (j = k /\ AnswerLen(k) <= Progress(conn))
    BY <2>5, <2>6, <2>7 DEF Reached
  <2>9. CASE j < k
    <3> HIDE DEF j, k
    <3>1. FALSE
      BY <1>1, <1>4, <1>5, <1>7, <2>9
    <3>2. QED
      BY <3>1
  <2>10. CASE j = k /\ AnswerLen(k) <= Progress(conn)
    <3>1. k \in 0 .. Len(script)
      BY <1>1, <1>4
    <3>2. AnswerLen(k) \in Nat
      BY <3>1, LensTyped
    <3>3. conn.finished
      <4>1. SUFFICES ASSUME ~conn.finished PROVE FALSE
        OBVIOUS
      <4>2. k > 0 /\ conn.state = "OPEN"
        BY <1>1, <4>1 DEF Base, Waiting, Shape, Answering
      <4>3. Ready(conn)
        BY <1>1, <3>1, <4>2 DEF Ready
      <4>4. Progress(conn) \in Nat /\ Progress(conn) < AnswerLen(k)
        BY <4>1, <4>3, Unfinished
      <4>5. QED
        BY <2>10, <3>2, <4>4
    <3>4. Progress(conn) = AnswerLen(k)
      BY <3>3 DEF Progress
    <3>5. Len(b) = 0
      <4>1. SUFFICES ASSUME Len(b) > 0 PROVE FALSE
        BY <1>1
      <4>2. 1 \in 1 .. Len(b)
        BY <2>5, <4>1
      <4> DEFINE x == Len(sent) + 1
      <4>3. x \in 1 .. Len(o) /\ i < x
        BY <2>5, <4>2
      <4> HIDE DEF x, o
      <4>4. Less(o[i], o[x])
        BY <2>5, <2>6, <4>3 DEF Increasing
      <4>5. o[x][1] < k \/ (o[x][1] = k /\ o[x][2] <= AnswerLen(k))
        BY <2>6, <3>4, <4>3 DEF Reached
      <4>6. o[x][1] \in Nat /\ o[x][2] \in Nat
        BY <1>1, <4>3, UnitFields
      <4>7. o[i][1] = k /\ o[i][2] = AnswerLen(k)
        BY <2>7, <2>10
      <4>8. k < o[x][1] \/ (k = o[x][1] /\ AnswerLen(k) < o[x][2])
        BY <4>4, <4>7 DEF Less
      <4> DEFINE y == o[x][1]
                 z == o[x][2]
                 m == AnswerLen(k)
      <4>9. y \in Nat /\ z \in Nat /\ k \in Nat /\ m \in Nat
        BY <1>1, <3>1, <3>2, <4>6
      <4>10. (y < k \/ (y = k /\ z <= m)) /\ (k < y \/ (k = y /\ m < z))
        BY <4>5, <4>8
      <4> HIDE DEF y, z, m, k
      <4>11. QED
        BY <4>9, <4>10
    <3>6. b = <<>>
      BY <1>1, <3>5
    <3>7. next + 1 <= 2 * k + 2
      <4> HIDE DEF j, k
      <4>1. QED
        BY <1>1, <1>7, <2>10
    <3>8. QED
      BY <3>3, <3>6, <3>7
  <2>11. QED
    BY <2>8, <2>9, <2>10
<1>8. QED
  BY <1>5, <1>6, <1>7

LEMMA SessionInit ==
  ASSUME WorldType
  PROVE  Session(Accepted, <<>>, 0)
<1> DEFINE a == Accepted
           v == <<<<0, 1>>, <<0, 2>>>>
<1>1. /\ a.state = "OPEN" /\ a.interest = "WRITE" /\ a.finished = TRUE /\ a.command = 0
      /\ a.read_buffer.bytes = <<>> /\ a.write_buffer.bytes = v
  <2>1. /\ a.state = "OPEN" /\ a.interest = "WRITE" /\ a.finished = TRUE /\ a.command = 0
        /\ a.read_buffer = Q!Empty /\ a.write_buffer = [gap |-> 0, bytes |-> v]
    BY AcceptedIs
  <2> HIDE DEF a, v
  <2>2. Q!Empty.bytes = <<>>
    BY DEF Q!Empty
  <2>3. a.write_buffer.bytes = v
    BY <2>1
  <2>4. QED
    BY <2>1, <2>2, <2>3
<1> HIDE DEF a
<1>2. /\ v \in Seq(Unit) /\ Len(v) = 2 /\ v[1] = <<0, 1>> /\ v[2] = <<0, 2>>
      /\ <<>> \in Seq(Unit)
  <2>1. <<0, 1>> \in Unit /\ <<0, 2>> \in Unit
    BY DEF Unit
  <2>2. QED
    BY <2>1
<1> HIDE DEF v
<1>3. <<>> \o v = v
  BY <1>2, ConcatEmptySeq
<1>4. Progress(a) = 2
  BY <1>1 DEF Progress, AnswerLen
<1>5. Increasing(v) /\ Reached(v, 0, 2)
  BY <1>2 DEF Increasing, Reached, Less
<1>6. Up(a, <<>>)
  BY <1>1, <1>2, <1>3, <1>4, <1>5 DEF Up
<1>7. One(a, 0) /\ Drained(a) /\ BeforeFirst(a) /\ Quits(a)
  BY <1>1 DEF One, Drained, BeforeFirst, Quits
<1>8. QED
  BY <1>6, <1>7 DEF Session, a

LEMMA SameSession ==
  ASSUME world' = world, NEW d, d = conn', NEW s, s = sent', NEW nx, nx = next', Session(d, s, nx)
  PROVE  Session(conn, sent, next)'
<1>1. /\ script' = script /\ (Pipelining <=> Pipelining') /\ (PartialSend <=> PartialSend')
  BY SameScript
<1> DEFINE p == Progress(d)
<1>2. Progress(conn)' = p
  BY SameProgress
<1> HIDE DEF p
<1>3. Up(conn, sent)'
  <2>1. /\ s \in Seq(Unit) /\ Increasing(s \o d.write_buffer.bytes)
        /\ d.state \in {"OPEN", "CLIENT_FINISHED"} => Reached(s \o d.write_buffer.bytes, d.command, p)
    BY DEF Session, Up, Alive, p
  <2>2. QED
    BY ZenonT(60), <1>2, <2>1 DEF Up, Alive, Unit, Increasing, Less, Reached
<1>4. One(conn, next)'
  BY <1>1 DEF Session, One, Alive
<1>5. Drained(conn)'
  BY <1>1 DEF Session, Drained, Alive
<1>6. BeforeFirst(conn)'
  BY DEF Session, BeforeFirst, Alive
<1>7. Quits(conn)'
  BY <1>1 DEF Session, Quits
<1>8. QED
  BY <1>3, <1>4, <1>5, <1>6, <1>7 DEF Session

LEMMA SameGoodbye ==
  ASSUME world' = world, NEW d, d = conn', NEW s, s = sent', NEW g, g = gone', Goodbye(s, d, g)
  PROVE  GoodbyeSent'
<1>1. script' = script /\ (Pipelining <=> Pipelining') /\ (PartialSend <=> PartialSend')
  BY SameScript
<1>2. ASSUME NEW k \in 1 .. Len(script'), QuitsOrderly(k)', HungUp'
      PROVE  /\ Contains(sent, <<k, 1>>)'
             /\ PartialSend' \/ Contains(sent, <<k, AnswerLen(k)>>)'
  <2> DEFINE l == AnswerLen(k)
  <2>1. AnswerLen(k)' = l
    BY SameLens
  <2>2. k \in 1 .. Len(script) /\ QuitsOrderly(k)
    BY <1>1, <1>2 DEF QuitsOrderly
  <2>3. d.state = "closed" /\ ~g
    BY <1>2 DEF HungUp
  <2>4. Contains(s, <<k, 1>>) /\ (PartialSend \/ Contains(s, <<k, l>>))
    BY <2>2, <2>3 DEF Goodbye
  <2> HIDE DEF l
  <2>5. QED
    BY <1>1, <2>1, <2>4 DEF Contains
<1>3. QED
  BY <1>2 DEF GoodbyeSent

(* The inductive invariant of the session.                                 *)
SessionInv == Base /\ Session(conn, sent, next) /\ GoodbyeSent

LEMMA SessionStart == Init => SessionInv
<1> SUFFICES ASSUME Init PROVE SessionInv
  OBVIOUS
<1>1. WorldType /\ Base
  BY WorldTyped, BaseInit DEF Init
<1>2. Session(conn, sent, next)
  BY <1>1, SessionInit DEF Init
<1>3. conn.state = "OPEN"
  BY <1>1, AcceptedIs DEF Init
<1>4. GoodbyeSent
  BY <1>3 DEF GoodbyeSent, HungUp
<1>5. QED
  BY <1>1, <1>2, <1>4 DEF SessionInv

LEMMA SessionStep == SessionInv /\ [Next]_vars => SessionInv'
<1> SUFFICES ASSUME SessionInv, [Next]_vars PROVE SessionInv'
  OBVIOUS
<1>1. /\ Base /\ Session(conn, sent, next) /\ Goodbye(sent, conn, gone) /\ WorldType /\ Shape(conn)
  BY WorldTyped DEF SessionInv, Base, Goodbye, GoodbyeSent, HungUp
<1>2. Base'
  BY <1>1, BaseStep
<1>3. CASE pop3_read_handler
  <2> DEFINE d == conn'
  <2>1. world' = world /\ sent' = sent /\ next' = next /\ gone' = gone
    BY <1>3 DEF pop3_read_handler
  <2>2. Session(d, sent, next)
    BY <1>1, <1>3, SessionRead
  <2>3. Goodbye(sent, d, gone)
    <3>1. d = Closed => gone
      <4>1. CASE d = Closed
        <5> DEFINE inb == inbound'
        <5>1. (d = Closed /\ gone) \/ (conn.state = "OPEN" /\ ReadTo(d))
          BY <1>1, <1>3, ReadStep
        <5>2. ASSUME ReadTo(d), conn.state = "OPEN", conn \in ConnRecord PROVE d.state # "closed"
          <6> HIDE DEF d
          <6>1. QED
            BY <5>2 DEF ReadTo, Parsed, ConnRecord, Ran
        <5>3. QED
          BY <1>1, <4>1, <5>1, <5>2, ClosedIs DEF Shape
      <4>2. QED
        BY <4>1
    <3>2. d.state = "closed" => d = Closed
      <4> DEFINE inb == inbound'
      <4>1. d = Closed \/ (conn.state = "OPEN" /\ ReadTo(d))
        BY <1>1, <1>3, ReadStep
      <4>2. ASSUME ReadTo(d), conn.state = "OPEN", conn \in ConnRecord PROVE d.state # "closed"
        <5> HIDE DEF d
        <5>1. QED
          BY <4>2 DEF ReadTo, Parsed, ConnRecord, Ran
      <4>3. QED
        BY <1>1, <4>1, <4>2 DEF Shape
    <3> HIDE DEF d
    <3>3. QED
      BY <3>1, <3>2 DEF Goodbye
  <2> HIDE DEF d
  <2>4. d = conn'
    BY DEF d
  <2>5. Session(conn, sent, next)' /\ GoodbyeSent'
    BY <2>1, <2>2, <2>3, <2>4, SameSession, SameGoodbye
  <2>6. QED
    BY <1>2, <2>5 DEF SessionInv
<1>4. CASE pop3_write_handler
  <2> DEFINE d == conn'
             s == sent'
  <2>1. world' = world /\ next' = next /\ gone' = gone
    BY <1>4 DEF pop3_write_handler
  <2>2. Session(d, s, next) /\ Goodbye(s, d, gone)
    BY <1>1, <1>4, SessionWrite
  <2> HIDE DEF d, s
  <2>3. d = conn' /\ s = sent'
    BY DEF d, s
  <2>4. Session(conn, sent, next)' /\ GoodbyeSent'
    BY <2>1, <2>2, <2>3, SameSession, SameGoodbye
  <2>5. QED
    BY <1>2, <2>4 DEF SessionInv
<1>5. CASE mail_read_handler
  <2> DEFINE d == conn'
  <2>1. world' = world /\ next' = next /\ gone' = gone /\ sent' = sent
    BY <1>5 DEF mail_read_handler
  <2>2. Calm(conn, d)
    BY <1>1, <1>5, MailStep
  <2> HIDE DEF d
  <2>3. Session(d, sent, next)
    BY <1>1, <2>2, SessionMail
  <2>4. Goodbye(sent, d, gone)
    BY <1>1, <2>2 DEF Goodbye, Calm
  <2>5. d = conn'
    BY DEF d
  <2>6. Session(conn, sent, next)' /\ GoodbyeSent'
    BY <2>1, <2>3, <2>4, <2>5, SameSession, SameGoodbye
  <2>7. QED
    BY <1>2, <2>6 DEF SessionInv
<1>6. CASE ClientSends
  <2>1. world' = world /\ conn' = conn /\ gone' = gone /\ sent' = sent /\ next' = next + 1
    BY <1>6 DEF ClientSends
  <2>2. Session(conn, sent, next + 1)
    BY <1>1, <1>6, SessionSends
  <2>3. Session(conn, sent, next)'
    <3> DEFINE nx == next + 1
    <3>1. Session(conn, sent, nx) /\ nx = next'
      BY <2>1, <2>2
    <3> HIDE DEF nx
    <3>2. QED
      BY <2>1, <3>1, SameSession
  <2>4. GoodbyeSent'
    BY <1>1, <2>1, SameGoodbye
  <2>5. QED
    BY <1>2, <2>3, <2>4 DEF SessionInv
<1>7. CASE ClientCloses
  <2>1. world' = world /\ conn' = conn /\ sent' = sent /\ next' = next /\ gone' = TRUE
    BY <1>7 DEF ClientCloses
  <2>2. Session(conn, sent, next)'
    BY <1>1, <2>1, SameSession
  <2>3. Goodbye(sent, conn, TRUE)
    BY DEF Goodbye
  <2>4. GoodbyeSent'
    BY <2>1, <2>3, SameGoodbye
  <2>5. QED
    BY <1>2, <2>2, <2>4 DEF SessionInv
<1>8. CASE UNCHANGED vars
  <2>1. world' = world /\ conn' = conn /\ sent' = sent /\ next' = next /\ gone' = gone
    BY <1>8 DEF vars
  <2>2. Session(conn, sent, next)'
    BY <1>1, <2>1, SameSession
  <2>3. GoodbyeSent'
    BY <1>1, <2>1, SameGoodbye
  <2>4. QED
    BY <1>2, <2>2, <2>3 DEF SessionInv
<1>9. QED
  BY <1>3, <1>4, <1>5, <1>6, <1>7, <1>8 DEF Next

LEMMA SessionHolds == Spec => []SessionInv
<1>1. QED
  BY SessionStart, SessionStep, PTL DEF Spec

(* A client that waits for its answers, or quits at once, is told goodbye  *)
(* before the server hangs up, unless it left by itself: CLIENT_FINISHED   *)
(* (pop3.c) closes the connection only after send() took something of the  *)
(* answer to QUIT, and all of it unless the send was partial.              *)
THEOREM GoodbyeIsSaid == Spec => []GoodbyeSent
<1>1. SessionInv => GoodbyeSent
  BY DEF SessionInv
<1>2. QED
  BY <1>1, SessionHolds, PTL

(* The handlers wait for the client only when everything was sent, except  *)
(* for a client that pipelines over partial sends: the cases listed in the *)
(* write handler of pop3.c.                                                *)
THEOREM WaitsWhenDrained == Spec => []IdleMeansDrained
<1>1. SessionInv => IdleMeansDrained
  BY DEF SessionInv, Session, Drained, Alive, Open, IdleMeansDrained, Q!CanRead
<1>2. QED
  BY <1>1, SessionHolds, PTL

-----------------------------------------------------------------------------
(* The answers themselves: with room for them, nothing of them is lost. *)

(* o are the answers in order, up to unit p of answer k.                   *)
Ends(o, k, p) ==
  o \in Seq(Unit) /\ o # <<>> /\ InOrder(o) /\ o[Len(o)] = <<k, p>>

(* A part of an answer continues the last one, or begins after its end.    *)
Joins(o, k, p) ==
  IF p > 0 THEN Ends(o, k, p)
  ELSE k > 0 /\ \E l \in Nat : l = AnswerLen(k - 1) /\ Ends(o, k - 1, l)

LEMMA EndsJoin ==
  ASSUME NEW o, NEW k \in Nat, NEW p \in Nat, NEW n \in Nat, NEW u, Run(u, k, p, n), n > 0,
         NEW l \in Nat, l = AnswerLen(k), p + n <= l, Joins(o, k, p)
  PROVE  Ends(o \o u, k, p + n)
<1> DEFINE w == o \o u
           lo == Len(o)
<1>1. o \in Seq(Unit) /\ o # <<>> /\ InOrder(o) /\ u \in Seq(Unit) /\ Len(u) = n
      /\ \A x \in 1 .. n : u[x] = <<k, p + x>>
  BY DEF Joins, Ends, Run
<1>2. /\ w \in Seq(Unit) /\ Len(w) = lo + n /\ lo \in Nat /\ lo > 0
      /\ \A i \in 1 .. lo + n : w[i] = IF i <= lo THEN o[i] ELSE u[i - lo]
  <2>1. lo \in Nat /\ lo > 0
    BY <1>1
  <2>2. /\ w \in Seq(Unit) /\ Len(w) = lo + Len(u)
        /\ \A i \in 1 .. lo + Len(u) : w[i] = IF i <= lo THEN o[i] ELSE u[i - lo]
    BY <1>1, ConcatProperties
  <2> HIDE DEF w, lo
  <2>3. QED
    BY <1>1, <2>1, <2>2
<1>3. Follow(o[lo], u[1])
  <2>1. u[1] = <<k, p + 1>>
    BY <1>1
  <2>2. CASE p > 0
    <3>1. o[lo] = <<k, p>> /\ p < l
      BY <2>2 DEF Joins, Ends
    <3>2. QED
      BY <2>1, <3>1 DEF Follow
  <2>3. CASE p = 0
    <3>1. PICK m \in Nat : m = AnswerLen(k - 1) /\ Ends(o, k - 1, m)
      BY <2>3 DEF Joins
    <3> DEFINE j == k - 1
    <3>2. j + 1 = k /\ o[lo] = <<j, m>> /\ m = AnswerLen(j) /\ p + 1 = 1
      BY <2>3, <3>1 DEF Ends
    <3> HIDE DEF j
    <3>3. QED
      BY <2>1, <3>2 DEF Follow
  <2>4. QED
    BY <2>2, <2>3
<1>4. ASSUME NEW x \in 1 .. n, x + 1 \in 1 .. n PROVE Follow(u[x], u[x + 1])
  <2>1. u[x] = <<k, p + x>> /\ u[x + 1] = <<k, p + (x + 1)>>
    BY <1>1, <1>4
  <2>2. p + x < l /\ p + (x + 1) = (p + x) + 1
    BY <1>4
  <2> DEFINE y == p + x
  <2>3. u[x] = <<k, y>> /\ u[x + 1] = <<k, y + 1>> /\ y < l
    BY <2>1, <2>2
  <2> HIDE DEF y
  <2>4. QED
    BY <2>3 DEF Follow
<1> HIDE DEF w, lo
<1>5. \A i \in 1 .. lo - 1 : Follow(o[i], o[i + 1])
  BY <1>1 DEF InOrder, lo
<1>6. ASSUME NEW i \in 1 .. (lo + n) - 1 PROVE Follow(w[i], w[i + 1])
  <2>1. CASE i < lo
    <3>1. i \in 1 .. lo - 1 /\ w[i] = o[i] /\ w[i + 1] = o[i + 1]
      BY <1>2, <2>1
    <3>2. QED
      BY <1>5, <3>1
  <2>2. CASE i = lo
    <3>1. w[i] = o[lo] /\ w[i + 1] = u[1]
      <4>1. i \in 1 .. lo + n /\ i + 1 \in 1 .. lo + n /\ i <= lo /\ ~(i + 1 <= lo) /\ (i + 1) - lo = 1
        BY <1>2, <2>2
      <4>2. QED
        BY <1>2, <2>2, <4>1
    <3>2. QED
      BY <1>3, <3>1 DEF lo
  <2>3. CASE i > lo
    <3> DEFINE x == i - lo
    <3>1. x \in 1 .. n /\ x + 1 \in 1 .. n /\ x + 1 = (i + 1) - lo
          /\ i \in 1 .. lo + n /\ i + 1 \in 1 .. lo + n /\ ~(i <= lo) /\ ~(i + 1 <= lo)
      BY <1>2, <2>3
    <3>2. w[i] = u[x] /\ w[i + 1] = u[x + 1]
      BY <1>2, <3>1
    <3> HIDE DEF x
    <3>3. QED
      BY <1>4, <3>1, <3>2
  <2>4. QED
    BY <1>2, <2>1, <2>2, <2>3
<1>7. w[1] = <<0, 1>>
  <2>1. o[1] = <<0, 1>>
    BY <1>1 DEF InOrder
  <2>2. 1 \in 1 .. lo + n /\ 1 <= lo
    BY <1>2
  <2>3. QED
    BY <1>2, <2>1, <2>2
<1>8. w[lo + n] = <<k, p + n>>
  <2>1. lo + n \in 1 .. lo + n /\ ~(lo + n <= lo) /\ (lo + n) - lo = n /\ n \in 1 .. n
    BY <1>2
  <2>2. QED
    BY <1>1, <1>2, <2>1
<1>9. w # <<>>
  BY <1>2
<1>10. InOrder(w)
  BY <1>2, <1>6, <1>7 DEF InOrder
<1>11. QED
  BY <1>2, <1>8, <1>9, <1>10 DEF Ends, w

(* What left is in order if it is with what waits.                         *)
LEMMA PrefixInOrder ==
  ASSUME NEW s \in Seq(Unit), NEW t \in Seq(Unit), InOrder(s \o t)
  PROVE  InOrder(s)
<1> DEFINE w == s \o t
           n == Len(s)
           m == Len(t)
<1>1. /\ n \in Nat /\ m \in Nat /\ Len(w) = n + m /\ w \in Seq(Unit)
      /\ \A i \in 1 .. n + m : w[i] = IF i <= n THEN s[i] ELSE t[i - n]
  BY ConcatProperties
<1>2. s # <<>> => n > 0
  OBVIOUS
<1> HIDE DEF w, n, m
<1>3. \A i \in 1 .. n : i \in 1 .. n + m /\ w[i] = s[i]
  BY <1>1
<1>4. ASSUME s # <<>> PROVE s[1] = <<0, 1>>
  <2>1. 1 \in 1 .. n /\ n + m > 0
    BY <1>1, <1>2, <1>4
  <2>2. w # <<>>
    BY <1>1, <2>1
  <2>3. QED
    BY <1>3, <2>1, <2>2 DEF InOrder, w
<1>5. ASSUME NEW i \in 1 .. n - 1 PROVE Follow(s[i], s[i + 1])
  <2>1. i \in 1 .. n /\ i + 1 \in 1 .. n /\ i \in 1 .. (n + m) - 1
    BY <1>1
  <2>2. Follow(w[i], w[i + 1])
    BY <1>1, <2>1 DEF InOrder, w
  <2>3. QED
    BY <1>3, <2>1, <2>2
<1>6. QED
  BY <1>4, <1>5 DEF InOrder, n

(* How far an answer is, once it was begun.                                *)
LEMMA ProgressBounds ==
  ASSUME NEW c, Shape(c), WorldType, c.command \in 1 .. Len(script)
  PROVE  /\ Progress(c) \in Nat /\ Progress(c) <= AnswerLen(c.command)
         /\ AnswerLen(c.command) \in Nat
<1>1. AnswerLen(c.command) \in Nat /\ AnswerLen(c.command) > 0
  <2>1. c.command \in 0 .. Len(script)
    BY DEF WorldType
  <2>2. QED
    BY <2>1, LensTyped
<1>2. CASE c.finished
  BY <1>1, <1>2 DEF Progress
<1>3. CASE ~c.finished
  <2>1. Ready(c)
    BY <1>3 DEF Ready, Shape, Answering
  <2>2. Progress(c) \in Nat /\ Progress(c) < AnswerLen(c.command)
    BY <1>3, <2>1, Unfinished
  <2>3. QED
    BY <1>1, <2>2
<1>4. QED
  BY <1>2, <1>3

(* No answer is longer than this.                                          *)
Longest == Max({ListLen, MailLen}) + 2

(* No more units than these were handed to the write buffer.               *)
Spent(c) == IF c.command = 0 THEN 2 ELSE 2 + (c.command - 1) * Longest + Progress(c)

(* What left and waits is the answers up to the progress of the last one,  *)
(* and what was read of the write buffer is no more than what left.        *)
Answered(c, s) ==
  /\ Joins(s \o c.write_buffer.bytes, c.command, Progress(c))
  /\ Len(s \o c.write_buffer.bytes) <= Spent(c)
  /\ c.write_buffer.gap <= Len(s)

(* What the answers are, as long as there is room for them and the files   *)
(* can be read.                                                            *)
Exact(c, s) ==
  RoomForAnswers /\ ~FileErrors =>
    /\ InOrder(s \o c.write_buffer.bytes)
    /\ c.finished_reading => c.file_pos = MailLen
    /\ Alive(c) => Answered(c, s)

LEMMA MaxOfTwo ==
  ASSUME NEW a \in Nat, NEW b \in Nat
  PROVE  Max({a, b}) \in Nat /\ a <= Max({a, b}) /\ b <= Max({a, b})
<1>1. \E m \in {a, b} : \A y \in {a, b} : m >= y
  <2>1. CASE a >= b
    BY <2>1
  <2>2. CASE ~(a >= b)
    BY <2>2
  <2>3. QED
    BY <2>1, <2>2
<1>2. Max({a, b}) \in {a, b} /\ \A y \in {a, b} : Max({a, b}) >= y
  BY <1>1 DEF Max
<1>3. QED
  BY <1>2

LEMMA LongestIs ==
  ASSUME WorldType
  PROVE  /\ Longest \in Nat /\ Longest >= 2
         /\ \A k \in 1 .. Len(script) : AnswerLen(k) \in Nat /\ AnswerLen(k) <= Longest
<1> DEFINE m == Max({ListLen, MailLen})
<1>1. m \in Nat /\ ListLen <= m /\ MailLen <= m
  BY SizesTyped, MaxOfTwo
<1>2. Longest = m + 2
  BY DEF Longest
<1> HIDE DEF m
<1>3. ASSUME NEW k \in 1 .. Len(script) PROVE AnswerLen(k) \in Nat /\ AnswerLen(k) <= Longest
  <2>1. AnswerLen(k) \in {ListLen + 2, MailLen + 2, 2}
    BY AnswerLens
  <2>2. QED
    BY <1>1, <1>2, <2>1, SizesTyped
<1>4. QED
  BY <1>1, <1>2, <1>3

(* The budget of one more answer, and of all of them.                      *)
LEMMA Budgets ==
  ASSUME NEW l \in Nat, NEW k \in Nat, NEW n \in Nat, k < n
  PROVE  /\ k * l \in Nat /\ n * l \in Nat /\ (k + 1) * l = k * l + l
         /\ k * l + l <= n * l
<1>1. k * l \in Nat /\ n * l \in Nat /\ (k + 1) * l = k * l + l
  OBVIOUS
<1>2. PICK d \in Nat : n = (k + 1) + d
  <2>1. n - (k + 1) \in Nat /\ n = (k + 1) + (n - (k + 1))
    OBVIOUS
  <2>2. QED
    BY <2>1
<1>3. n * l = (k + 1) * l + d * l /\ d * l \in Nat
  BY <1>2
<1>4. QED
  BY <1>1, <1>3

(* A finished answer leaves the budget of the next ones untouched.         *)
LEMMA SpentFinished ==
  ASSUME NEW c, Shape(c), WorldType, c.finished, c.command <= Len(script)
  PROVE  /\ c.command * Longest \in Nat
         /\ Spent(c) \in Nat /\ Spent(c) <= 2 + c.command * Longest
<1> DEFINE k == c.command
           j == k - 1
<1>1. k \in Nat /\ Longest \in Nat /\ Len(script) \in Nat
  BY LongestIs DEF Shape, ConnRecord, WorldType
<1>2. CASE k = 0
  <2>1. k * Longest = 0
    BY <1>1, <1>2
  <2>2. Spent(c) = 2
    BY <1>2 DEF Spent
  <2>3. QED
    BY <2>1, <2>2
<1>3. CASE k # 0
  <2>1. k \in 1 .. Len(script) /\ j \in Nat /\ j + 1 = k /\ j < k
    BY <1>1, <1>3
  <2> DEFINE p == AnswerLen(k)
             x == j * Longest
             y == k * Longest
  <2>2. p \in Nat /\ p <= Longest /\ Progress(c) = p
    BY <2>1, LongestIs DEF Progress
  <2>3. Spent(c) = 2 + x + p
    BY <1>3, <2>2 DEF Spent
  <2>4. x \in Nat /\ y \in Nat /\ x + Longest <= y
    BY <1>1, <2>1, Budgets
  <2> HIDE DEF p, x, y, j
  <2>5. Spent(c) \in Nat /\ Spent(c) <= 2 + y
    BY <1>1, <2>2, <2>3, <2>4
  <2>6. QED
    BY <2>4, <2>5 DEF y
<1>4. QED
  BY <1>2, <1>3

(* The next command finds room for the two units it may write at once.     *)
LEMMA AnswersFit ==
  ASSUME NEW c, Shape(c), WorldType, RoomForAnswers, c.finished, NEW s \in Seq(Unit), Answered(c, s),
         c.command < Len(script), ~PartialSend => c.write_buffer.bytes = <<>>
  PROVE  WriteRoom(c) >= 2
<1> DEFINE k == c.command
           b == c.write_buffer.bytes
           g == c.write_buffer.gap
           lb == Len(b)
           ls == Len(s)
<1>1. /\ k \in Nat /\ g \in Nat /\ b \in Seq(Unit) /\ Len(script) \in Nat
      /\ WriteSize \in Nat /\ WriteSize >= 2
      /\ b = <<>> => c.write_buffer = Q!Empty
  BY DEF Shape, ConnRecord, QueueOf, Buffered, Sized, WorldType
<1>2. lb \in Nat /\ ls \in Nat /\ Len(s \o b) = ls + lb
  BY <1>1, ConcatProperties
<1>3. WriteRoom(c) = WriteSize - (g + lb)
  BY RoomIs
<1>4. CASE ~PartialSend
  <2>1. c.write_buffer = Q!Empty
    BY <1>1, <1>4
  <2>2. g = 0 /\ lb = 0
    BY <2>1 DEF Q!Empty
  <2>3. QED
    BY <1>1, <1>3, <2>2
<1>5. CASE PartialSend
  <2> DEFINE x == k * Longest
             y == Len(script) * Longest
  <2>1. WriteSize >= 2 + y
    BY <1>5 DEF RoomForAnswers, Longest
  <2>2. x \in Nat /\ y \in Nat /\ x + Longest <= y /\ Longest >= 2 /\ Longest \in Nat
    BY <1>1, LongestIs, Budgets
  <2>3. ls + lb <= Spent(c) /\ g <= ls
    BY <1>2 DEF Answered
  <2>4. Spent(c) \in Nat /\ Spent(c) <= 2 + x
    <3>1. k <= Len(script)
      BY <1>1
    <3>2. QED
      BY <3>1, SpentFinished
  <2> HIDE DEF x, y, lb, ls, g
  <2>5. QED
    BY <1>1, <1>2, <1>3, <2>1, <2>2, <2>3, <2>4
<1>6. QED
  BY <1>4, <1>5 DEF WorldType

(* What left and what waits.                                               *)
Out(c, s) == s \o c.write_buffer.bytes

LEMMA OutRan ==
  ASSUME NEW a, Ready(a), NEW s \in Seq(Unit), NEW d, NEW u \in Seq(Unit), Ran(a, d, u)
  PROVE  Out(d, s) = Out(a, s) \o u
<1> DEFINE b == a.write_buffer.bytes
<1>1. b \in Seq(Unit)
  BY DEF Ready, Shape, ConnRecord, QueueOf
<1>2. d.write_buffer.bytes = b \o u
  BY DEF Ran
<1> HIDE DEF b
<1>3. s \o (b \o u) = (s \o b) \o u
  <2> DEFINE T == ListsOf(Unit)
  <2>1. s \in T /\ b \in T /\ u \in T
    BY <1>1 DEF ListsOf
  <2>2. \A x, y, z \in T : (x \o y) \o z = x \o (y \o z)
    BY Associative
  <2> HIDE DEF T
  <2>3. QED
    BY <2>1, <2>2, Zenon
<1>4. QED
  BY <1>2, <1>3 DEF b, Out

(* What waits and left is within the budget when a goes on.                *)
Within(a, s) ==
  /\ Len(s \o a.write_buffer.bytes) <= 2 + (a.command - 1) * Longest + Begun(a)
  /\ a.write_buffer.gap <= Len(s)

(* A part of an answer was written where there was ample room.             *)
LEMMA AnsweredRan ==
  ASSUME NEW a, Ready(a), WorldType, Ample(a), NEW s \in Seq(Unit),
         Joins(s \o a.write_buffer.bytes, a.command, Begun(a)),
         Within(a, s), NEW d, NEW u \in Seq(Unit), Ran(a, d, u)
  PROVE  Answered(d, s) /\ (d.finished_reading => d.file_pos = MailLen)
<1> DEFINE k == a.command
           b == a.write_buffer.bytes
           o == s \o b
           p == Begun(a)
           r == Progress(d)
           n == r - p
           x == (k - 1) * Longest
<1>1. b \in Seq(Unit) /\ o \in Seq(Unit) /\ k \in Nat /\ k > 0 /\ k \in 1 .. Len(script)
  BY ConcatProperties, ReadyFacts DEF Ready, Shape, ConnRecord, QueueOf
<1>2. /\ d.write_buffer = [gap |-> a.write_buffer.gap, bytes |-> b \o u] /\ d.command = k
      /\ Steps(u, k, p, r) /\ Run(u, k, p, n) /\ Shape(d)
      /\ d.finished_reading => d.file_pos = MailLen
  BY DEF Ran
<1>3. p \in Nat /\ r \in Nat /\ p <= r
  BY <1>2 DEF Steps
<1>4. r <= AnswerLen(k) /\ AnswerLen(k) \in Nat
  BY <1>1, <1>2, ProgressBounds
<1>5. x \in Nat
  <2>1. k - 1 \in Nat /\ k - 1 < k
    BY <1>1
  <2>2. Longest \in Nat
    BY LongestIs
  <2>3. QED
    BY <1>1, <2>1, <2>2, Budgets
<1>6. Joins(o, k, p) /\ Len(o) <= 2 + x + p /\ Len(u) = n
  BY <1>2 DEF Run, Within
<1>7. Len(o) \in Nat /\ Len(o \o u) = Len(o) + Len(u)
  BY <1>1, ConcatProperties
<1>8. s \o d.write_buffer.bytes = o \o u
  <2>1. Out(d, s) = Out(a, s) \o u
    BY OutRan
  <2>2. QED
    BY <2>1 DEF Out
<1>9. Spent(d) = 2 + x + r
  BY <1>1, <1>2 DEF Spent
<1>10. d.write_buffer.bytes = b \o u /\ d.write_buffer.gap <= Len(s)
  BY <1>2 DEF Within
<1> HIDE DEF b, o, p, r, x
<1>11. n \in Nat /\ p + n = r
  BY <1>3
<1>12. Len(o \o u) <= Spent(d)
  BY <1>3, <1>5, <1>6, <1>7, <1>9, <1>11
<1> HIDE DEF n
<1>13. Joins(o \o u, k, r)
  <2>1. CASE n > 0
    <3>1. p + n <= AnswerLen(k) /\ r > 0
      BY <1>3, <1>4, <1>11, <2>1
    <3>2. Ends(o \o u, k, p + n)
      BY <1>1, <1>2, <1>3, <1>4, <1>6, <1>11, <2>1, <3>1, EndsJoin
    <3>3. QED
      BY <1>11, <3>1, <3>2 DEF Joins
  <2>2. CASE ~(n > 0)
    <3>1. p = r /\ Len(u) = 0
      BY <1>3, <1>6, <1>11, <2>2
    <3>2. u = <<>>
      BY <3>1
    <3>3. o \o u = o
      BY <1>1, <3>2, ConcatEmptySeq
    <3>4. QED
      BY <1>6, <3>1, <3>3
  <2>3. QED
    BY <2>1, <2>2
<1>14. Answered(d, s)
  <2>1. QED
    BY <1>2, <1>8, <1>10, <1>12, <1>13 DEF Answered, r
<1>15. QED
  BY <1>2, <1>14

(* The next command is run.                                                *)
LEMMA AskedAnswered ==
  ASSUME NEW c, Shape(c), WorldType, RoomForAnswers, c.state = "OPEN", c.finished,
         NEW s, Up(c, s), Answered(c, s), ~PartialSend => c.write_buffer.bytes = <<>>,
         NEW r \in QueueOf(Frag), Ready(Asked(c, "WRITE", r)),
         NEW d, NEW u \in Seq(Unit), Ran(Asked(c, "WRITE", r), d, u)
  PROVE  Answered(d, s) /\ (d.finished_reading => d.file_pos = MailLen)
<1> DEFINE a == Asked(c, "WRITE", r)
           k == c.command
<1>1. /\ a.command = k + 1 /\ a.finished /\ a.write_buffer = c.write_buffer /\ Begun(a) = 0
      /\ a.finished_reading = FALSE /\ a.command \in 1 .. Len(script)
  BY ZenonT(60), AskedReached
<1>2. Ready(a) /\ Ran(a, d, u)
  OBVIOUS
<1> HIDE DEF a
<1>3. k \in Nat /\ Len(script) \in Nat /\ s \in Seq(Unit)
  BY DEF Shape, ConnRecord, WorldType, Up
<1>4. k < Len(script) /\ k <= Len(script) /\ k \in 0 .. Len(script)
  BY <1>1, <1>3
<1>5. Ample(a)
  <2>1. WriteRoom(c) >= 2
    BY <1>3, <1>4, AnswersFit
  <2>2. WriteRoom(a) = WriteRoom(c)
    BY <1>1 DEF WriteRoom
  <2>3. QED
    BY <1>1, <2>1, <2>2 DEF Ample
<1>6. Joins(s \o a.write_buffer.bytes, a.command, Begun(a))
  <2> DEFINE o == s \o c.write_buffer.bytes
             l == AnswerLen(k)
             j == a.command - 1
  <2>1. Ends(o, k, l)
    <3>1. l > 0 /\ Joins(o, k, l)
      BY <1>4, LensTyped DEF Answered, Progress
    <3>2. QED
      BY <3>1 DEF Joins
  <2>2. l \in Nat /\ j = k /\ a.command > 0 /\ s \o a.write_buffer.bytes = o /\ ~(0 > 0)
    <3>1. j = k /\ a.command > 0 /\ s \o a.write_buffer.bytes = o
      BY <1>1, <1>3
    <3>2. l \in Nat
      BY <1>4, LensTyped
    <3>3. QED
      BY <3>1, <3>2
  <2>3. \E m \in Nat : m = AnswerLen(j) /\ Ends(o, j, m)
    BY <2>1, <2>2
  <2>4. QED
    BY <1>1, <2>2, <2>3 DEF Joins
<1>7. Within(a, s)
  <2> DEFINE x == k * Longest
             n == Len(s \o c.write_buffer.bytes)
  <2>1. x \in Nat /\ Spent(c) \in Nat /\ Spent(c) <= 2 + x
    BY <1>4, SpentFinished
  <2>2. n <= Spent(c) /\ c.write_buffer.gap <= Len(s)
    BY DEF Answered
  <2>3. n \in Nat
    <3>1. s \o c.write_buffer.bytes \in Seq(Unit)
      BY <1>3, ConcatProperties DEF Shape, ConnRecord, QueueOf
    <3>2. QED
      BY <3>1
  <2>4. (a.command - 1) * Longest = x
    <3>1. a.command - 1 = k
      BY <1>1, <1>3
    <3>2. QED
      BY <3>1
  <2>5. Len(s \o a.write_buffer.bytes) = n
    BY <1>1
  <2> HIDE DEF x, n
  <2>6. n <= 2 + x + 0
    BY <2>1, <2>2, <2>3
  <2>7. QED
    BY <1>1, <2>2, <2>4, <2>5, <2>6 DEF Within
<1>8. QED
  BY <1>2, <1>3, <1>5, <1>6, <1>7, AnsweredRan

(* The answer goes on.                                                     *)
LEMMA GoneOnAnswered ==
  ASSUME NEW c, Ready(c), WorldType, ~c.finished, NEW s \in Seq(Unit), Answered(c, s),
         c.finished_reading => c.file_pos = MailLen,
         NEW d, NEW u \in Seq(Unit), Ran(c, d, u)
  PROVE  Answered(d, s) /\ (d.finished_reading => d.file_pos = MailLen)
<1>1. /\ Shape(c) /\ c.command \in 1 .. Len(script) /\ Begun(c) = Progress(c) /\ Ample(c)
      /\ c.command # 0
  BY ReadyFacts DEF Begun, Ample, Ready
<1>3. Joins(s \o c.write_buffer.bytes, c.command, Begun(c))
  BY <1>1 DEF Answered
<1>4. Within(c, s)
  BY <1>1 DEF Answered, Spent, Within
<1>5. QED
  BY <1>1, <1>3, <1>4, AnsweredRan

(* What differs in neither the answers nor the file.                       *)
LEMMA SameAnswered ==
  ASSUME NEW c, NEW s, Answered(c, s), NEW d, d.command = c.command,
         d.write_buffer = c.write_buffer, Progress(d) = Progress(c)
  PROVE  Answered(d, s)
BY DEF Answered, Spent

(* Each handler keeps the answers exact.                                   *)
LEMMA ExactRead ==
  ASSUME Base, WorldType, Session(conn, sent, next), Exact(conn, sent), pop3_read_handler,
         NEW d, d = conn'
  PROVE  Exact(d, sent)
<1> SUFFICES ASSUME RoomForAnswers, ~FileErrors
             PROVE  /\ InOrder(sent \o d.write_buffer.bytes)
                    /\ d.finished_reading => d.file_pos = MailLen
                    /\ Alive(d) => Answered(d, sent)
  BY DEF Exact
<1>1. /\ Shape(conn) /\ conn \in ConnRecord /\ conn.write_buffer.bytes \in Seq(Unit)
      /\ sent \in Seq(Unit) /\ Up(conn, sent) /\ Drained(conn)
      /\ InOrder(sent \o conn.write_buffer.bytes)
      /\ Alive(conn) => Answered(conn, sent)
      /\ conn.finished_reading => conn.file_pos = MailLen
  BY DEF Base, Shape, ConnRecord, QueueOf, Session, Up, Exact
<1> DEFINE inb == inbound'
<1>2. \/ d = Closed
      \/ conn.state = "OPEN" /\ conn.interest = "READ" /\ conn.finished /\ ReadTo(d)
  <2>1. inb = inbound'
    OBVIOUS
  <2> HIDE DEF inb
  <2>2. QED
    BY <2>1, ReadStep
<1>3. CASE d = Closed
  <2>1. d.write_buffer.bytes = <<>> /\ d.state = "closed" /\ d.finished_reading = FALSE
    BY <1>3 DEF Closed, Q!Empty
  <2>2. InOrder(sent) /\ sent \o <<>> = sent
    BY <1>1, PrefixInOrder, ConcatEmptySeq
  <2>3. QED
    BY <2>1, <2>2 DEF Alive
<1>4. ASSUME conn.state = "OPEN", conn.interest = "READ", conn.finished,
             d = Parsed(conn, "READ", Q!Empty)
      PROVE  Answered(d, sent) /\ (d.finished_reading => d.file_pos = MailLen)
  <2>1. /\ d.write_buffer = conn.write_buffer /\ d.command = conn.command /\ d.finished
        /\ d.finished_reading = conn.finished_reading /\ d.file_pos = conn.file_pos
    <3>1. Q!Empty \in QueueOf(Frag) /\ Sized(Q!Empty, ReadSize)
      BY SizesTyped, EmptyIs
    <3>2. QED
      BY <1>1, <1>4, <3>1, AskedIs
  <2>2. Progress(d) = Progress(conn)
    BY <1>4, <2>1 DEF Progress
  <2>3. Answered(conn, sent)
    BY <1>1, <1>4 DEF Alive
  <2>4. QED
    BY <1>1, <2>1, <2>2, <2>3, SameAnswered
<1>5. ASSUME NEW r \in QueueOf(Frag), NEW u \in Seq(Unit),
             conn.state = "OPEN", conn.interest = "READ", conn.finished,
             Ready(Asked(conn, "WRITE", r)), Ran(Asked(conn, "WRITE", r), d, u)
      PROVE  Answered(d, sent) /\ (d.finished_reading => d.file_pos = MailLen)
  <2>1. Answered(conn, sent)
    BY <1>1, <1>5 DEF Alive
  <2>2. ~PartialSend => conn.write_buffer.bytes = <<>>
    BY <1>1, <1>5 DEF Drained, Alive
  <2>3. QED
    BY <1>1, <1>5, <2>1, <2>2, AskedAnswered
<1>6. Answered(d, sent) => InOrder(sent \o d.write_buffer.bytes)
  BY DEF Answered, Joins, Ends
<1>7. QED
  BY <1>2, <1>3, <1>4, <1>5, <1>6 DEF ReadTo

(* send() took n units.                                                    *)
LEMMA SentAnswered ==
  ASSUME NEW c, Shape(c), WorldType, NEW s, Up(c, s), Answered(c, s),
         NEW n \in 0 .. Len(c.write_buffer.bytes)
  PROVE  Answered(Sent(c, n), s \o SubSeq(c.write_buffer.bytes, 1, n))
<1> DEFINE b == c.write_buffer.bytes
           h == SubSeq(b, 1, n)
           t == s \o h
           d == Sent(c, n)
<1>1. b \in Seq(Unit) /\ s \in Seq(Unit) /\ c.write_buffer.gap \in Nat
  BY DEF Shape, ConnRecord, QueueOf, Up
<1>2. /\ d.command = c.command /\ Progress(d) = Progress(c)
      /\ d.write_buffer = Q!ReadAdv(c.write_buffer, n)
  BY SentIs
<1>3. t \o d.write_buffer.bytes = s \o b
  BY SentUp
<1>4. d.write_buffer.gap <= Len(t)
  <2> DEFINE g == c.write_buffer.gap
             ls == Len(s)
  <2>1. Len(h) = n /\ h \in Seq(Unit)
    BY <1>1
  <2> HIDE DEF h
  <2>2. Len(t) = ls + n /\ ls \in Nat /\ n \in Nat
    BY <1>1, <2>1, ConcatProperties
  <2>3. d.write_buffer.gap \in {0, g + n}
    BY <1>2 DEF Q!ReadAdv, Q!Empty
  <2>4. g <= ls
    BY DEF Answered
  <2> HIDE DEF t, g, ls
  <2>5. g \in Nat
    BY <1>1 DEF g
  <2>6. QED
    BY <2>2, <2>3, <2>4, <2>5
<1>5. Spent(d) = Spent(c)
  BY <1>2 DEF Spent
<1> HIDE DEF d, t
<1>6. QED
  BY <1>2, <1>3, <1>4, <1>5 DEF Answered, d, t

LEMMA ExactAfterSend ==
  ASSUME NEW c, Shape(c), WorldType, c.state = "OPEN", c.interest = "WRITE", RoomForAnswers,
         NEW t, Up(c, t), Answered(c, t), c.finished_reading => c.file_pos = MailLen,
         ~PartialSend => c.write_buffer.bytes = <<>>,
         NEW e, AfterSend(c, e)
  PROVE  Answered(e, t) /\ (e.finished_reading => e.file_pos = MailLen)
<1>1. t \in Seq(Unit) /\ c \in ConnRecord
  BY DEF Up, Shape
<1>2. ASSUME ~c.finished, Ready(c), NEW u \in Seq(Unit), Ran(c, e, u)
      PROVE  Answered(e, t) /\ (e.finished_reading => e.file_pos = MailLen)
  BY <1>1, <1>2, GoneOnAnswered
<1>3. ASSUME c.finished, NEW r \in QueueOf(Frag), NEW u \in Seq(Unit),
             Ready(Asked(c, "WRITE", r)), Ran(Asked(c, "WRITE", r), e, u)
      PROVE  Answered(e, t) /\ (e.finished_reading => e.file_pos = MailLen)
  BY <1>3, AskedAnswered
<1>4. ASSUME c.finished, e = Parsed(c, "READ", Q!Empty)
      PROVE  Answered(e, t) /\ (e.finished_reading => e.file_pos = MailLen)
  <2>1. /\ e.write_buffer = c.write_buffer /\ e.command = c.command /\ e.finished
        /\ e.finished_reading = c.finished_reading /\ e.file_pos = c.file_pos
    <3>1. Q!Empty \in QueueOf(Frag) /\ Sized(Q!Empty, ReadSize)
      BY SizesTyped, EmptyIs
    <3>2. QED
      BY <1>4, <3>1, AskedIs
  <2>2. Progress(e) = Progress(c)
    BY <1>4, <2>1 DEF Progress
  <2>3. QED
    BY <2>1, <2>2, SameAnswered
<1>5. ASSUME c.finished, e = [c EXCEPT !.interest = "READ"]
      PROVE  Answered(e, t) /\ (e.finished_reading => e.file_pos = MailLen)
  <2>1. /\ e.write_buffer = c.write_buffer /\ e.command = c.command /\ e.finished = c.finished
        /\ e.finished_reading = c.finished_reading /\ e.file_pos = c.file_pos
    BY <1>1, <1>5 DEF ConnRecord
  <2>2. Progress(e) = Progress(c)
    BY <1>5, <2>1 DEF Progress
  <2>3. QED
    BY <2>1, <2>2, SameAnswered
<1>6. QED
  BY <1>2, <1>3, <1>4, <1>5 DEF AfterSend

LEMMA ExactWrite ==
  ASSUME Base, WorldType, Session(conn, sent, next), Exact(conn, sent), pop3_write_handler,
         NEW d, d = conn', NEW s, s = sent'
  PROVE  Exact(d, s)
<1> SUFFICES ASSUME RoomForAnswers, ~FileErrors
             PROVE  /\ InOrder(s \o d.write_buffer.bytes)
                    /\ d.finished_reading => d.file_pos = MailLen
                    /\ Alive(d) => Answered(d, s)
  BY DEF Exact
<1> DEFINE b == conn.write_buffer.bytes
<1>1. /\ Shape(conn) /\ b \in Seq(Unit) /\ sent \in Seq(Unit) /\ Up(conn, sent)
      /\ InOrder(sent \o b) /\ Answered(conn, sent)
      /\ conn.finished_reading => conn.file_pos = MailLen
  BY DEF Base, Shape, ConnRecord, QueueOf, Session, Up, Exact, Alive, Open, pop3_write_handler
<1>2. WriteTo(d, s) /\ conn.interest = "WRITE"
  BY WriteStep
<1>3. Closed.write_buffer.bytes = <<>> /\ Closed.state = "closed" /\ Closed.finished_reading = FALSE
  BY DEF Closed, Q!Empty
<1>4. ASSUME NEW h \in Seq(Unit), NEW r \in Seq(Unit), h \o r = sent \o b
      PROVE  InOrder(h \o <<>>)
  BY <1>1, <1>4, PrefixInOrder, ConcatEmptySeq
<1>5. CASE gone /\ d = Closed /\ s = sent
  BY <1>1, <1>3, <1>4, <1>5 DEF Alive
<1>6. ASSUME NEW n \in 0 .. Len(b), ~PartialSend => n = Len(b), s = sent \o SubSeq(b, 1, n)
      PROVE  /\ InOrder(s \o <<>>)
             /\ \A e : conn.state = "OPEN" /\ AfterSend(Sent(conn, n), e)
                       => Answered(e, s) /\ (e.finished_reading => e.file_pos = MailLen)
  <2> DEFINE c == Sent(conn, n)
  <2>1. /\ Shape(c) /\ c.state = conn.state /\ c.interest = "WRITE"
        /\ c.finished_reading = conn.finished_reading /\ c.file_pos = conn.file_pos
        /\ c.write_buffer.bytes = SubSeq(b, n + 1, Len(b))
    BY <1>1, <1>2, SentIs
  <2>2. Up(c, s) /\ s \o c.write_buffer.bytes = sent \o b
    BY <1>1, <1>6, SentUp
  <2>3. Answered(c, s)
    BY <1>1, <1>6, SentAnswered
  <2>4. ~PartialSend => c.write_buffer.bytes = <<>>
    BY <1>1, <1>6, <2>1
  <2>5. s \in Seq(Unit) /\ c.write_buffer.bytes \in Seq(Unit)
    BY <2>1, <2>2 DEF Up, Shape, ConnRecord, QueueOf
  <2> HIDE DEF c
  <2>6. InOrder(s \o <<>>)
    BY <1>4, <2>2, <2>5
  <2>7. ASSUME NEW e, conn.state = "OPEN", AfterSend(c, e)
        PROVE  Answered(e, s) /\ (e.finished_reading => e.file_pos = MailLen)
    BY <1>1, <2>1, <2>2, <2>3, <2>4, <2>7, ExactAfterSend
  <2>8. QED
    BY <2>6, <2>7 DEF c
<1>7. ASSUME ~gone
      PROVE  /\ InOrder(s \o d.write_buffer.bytes)
             /\ d.finished_reading => d.file_pos = MailLen
             /\ Alive(d) => Answered(d, s)
  <2>1. PICK n \in 0 .. Len(b) :
          /\ ~PartialSend => n = Len(b)
          /\ s = sent \o SubSeq(b, 1, n)
          /\ \/ conn.state = "CLIENT_FINISHED" /\ d = Closed
             \/ /\ conn.state = "OPEN"
                /\ \E e : AfterSend(Sent(conn, n), e) /\ d = IF e.state = "CLIENT_FINISHED" THEN Closed ELSE e
    BY <1>2, <1>7 DEF WriteTo
  <2>2. InOrder(s \o <<>>)
    BY <1>6, <2>1
  <2>3. CASE d = Closed
    BY <1>3, <2>2, <2>3 DEF Alive
  <2>4. CASE d # Closed
    <3>1. conn.state = "OPEN" /\ AfterSend(Sent(conn, n), d)
      BY <2>1, <2>4
    <3>2. Answered(d, s) /\ (d.finished_reading => d.file_pos = MailLen)
      BY <1>6, <2>1, <3>1
    <3>3. QED
      BY <3>2 DEF Answered, Joins, Ends
  <2>5. QED
    BY <2>3, <2>4
<1>8. QED
  BY <1>2, <1>5, <1>7 DEF WriteTo

LEMMA ExactMail ==
  ASSUME Shape(conn), NEW s, Exact(conn, s), NEW d, Calm(conn, d)
  PROVE  Exact(d, s)
BY SameAnswered DEF Exact, Calm, Alive

LEMMA ExactInit ==
  ASSUME WorldType
  PROVE  Exact(Accepted, <<>>)
<1> DEFINE a == Accepted
           v == <<<<0, 1>>, <<0, 2>>>>
<1>1. /\ a.state = "OPEN" /\ a.finished = TRUE /\ a.command = 0 /\ a.finished_reading = FALSE
      /\ a.write_buffer = [gap |-> 0, bytes |-> v]
  BY AcceptedIs
<1> HIDE DEF a
<1>2. /\ v \in Seq(Unit) /\ Len(v) = 2 /\ v[1] = <<0, 1>> /\ v[2] = <<0, 2>>
      /\ v # <<>> /\ <<>> \in Seq(Unit)
  <2>1. <<0, 1>> \in Unit /\ <<0, 2>> \in Unit
    BY DEF Unit
  <2>2. QED
    BY <2>1
<1> HIDE DEF v
<1>3. <<>> \o v = v
  BY <1>2, ConcatEmptySeq
<1>4. Progress(a) = 2
  BY <1>1 DEF Progress, AnswerLen
<1>5. a.write_buffer.gap = 0 /\ a.write_buffer.bytes = v
  BY <1>1
<1>6. InOrder(v)
  <2>1. \A i \in 1 .. Len(v) - 1 : i = 1
    BY <1>2
  <2>2. Follow(v[1], v[1 + 1])
    BY <1>2 DEF Follow, AnswerLen
  <2>3. QED
    BY <1>2, <2>1, <2>2 DEF InOrder
<1>7. Joins(v, 0, 2)
  BY <1>2, <1>6 DEF Joins, Ends
<1>8. Answered(a, <<>>)
  <2>1. Spent(a) = 2
    BY <1>1 DEF Spent
  <2>2. Len(v) <= 2 /\ 0 <= Len(<<>>)
    BY <1>2
  <2>3. Joins(<<>> \o v, 0, 2) /\ Len(<<>> \o v) <= 2
    BY <1>3, <1>7, <2>2
  <2>4. QED
    BY <1>1, <1>4, <1>5, <2>1, <2>2, <2>3 DEF Answered
<1>9. QED
  BY <1>1, <1>3, <1>5, <1>6, <1>8 DEF Exact, a

LEMMA SameExact ==
  ASSUME world' = world, NEW d, d = conn', NEW s, s = sent', Exact(d, s)
  PROVE  Exact(conn, sent)'
<1>1. /\ script' = script /\ WriteSize' = WriteSize
      /\ (PartialSend <=> PartialSend') /\ (FileErrors <=> FileErrors')
  BY SameScript
<1>2. RoomForAnswers' <=> RoomForAnswers
  BY <1>1 DEF RoomForAnswers
<1> DEFINE p == Progress(d)
<1>3. Progress(conn)' = p
  BY SameProgress
<1>4. ASSUME NEW o, InOrder(o) PROVE InOrder(o)'
  <2>1. ASSUME NEW u, NEW v, Follow(u, v) PROVE Follow(u, v)'
    <3> DEFINE l == AnswerLen(u[1])
    <3>1. AnswerLen(u[1])' = l
      BY SameLens
    <3> HIDE DEF l
    <3>2. QED
      BY <2>1, <3>1 DEF Follow, l
  <2>2. QED
    BY <1>4, <2>1 DEF InOrder
<1>5. ASSUME NEW o, NEW k, NEW q, Ends(o, k, q) PROVE Ends(o, k, q)'
  BY <1>4, <1>5 DEF Ends, Unit
<1>6. ASSUME NEW o, NEW k, NEW q, Joins(o, k, q) PROVE Joins(o, k, q)'
  <2>1. CASE q > 0
    BY <1>5, <1>6, <2>1 DEF Joins
  <2>2. CASE ~(q > 0)
    <3>1. PICK l \in Nat : l = AnswerLen(k - 1) /\ Ends(o, k - 1, l)
      BY <1>6, <2>2 DEF Joins
    <3>2. AnswerLen(k - 1)' = l
      BY <3>1, SameLens
    <3>3. Ends(o, k - 1, l)'
      BY <1>5, <3>1
    <3>4. QED
      BY <1>6, <2>2, <3>2, <3>3 DEF Joins
  <2>3. QED
    BY <2>1, <2>2
<1> HIDE DEF p
<1>7. QED
  BY <1>1, <1>2, <1>3, <1>4, <1>6 DEF Exact, Alive, Answered, Spent, Longest, p

(* The inductive invariant of the answers.                                 *)
AnswersInv == SessionInv /\ Exact(conn, sent)

LEMMA AnswersStart == Init => AnswersInv
<1> SUFFICES ASSUME Init PROVE AnswersInv
  OBVIOUS
<1>1. WorldType
  BY WorldTyped DEF Init
<1>2. Exact(conn, sent)
  BY <1>1, ExactInit DEF Init
<1>3. QED
  BY <1>2, SessionStart DEF AnswersInv

LEMMA AnswersStep == AnswersInv /\ [Next]_vars => AnswersInv'
<1> SUFFICES ASSUME AnswersInv, [Next]_vars PROVE AnswersInv'
  OBVIOUS
<1>1. /\ Base /\ Session(conn, sent, next) /\ Exact(conn, sent) /\ WorldType /\ Shape(conn)
      /\ SessionInv
  BY WorldTyped DEF AnswersInv, SessionInv, Base
<1>2. SessionInv'
  BY <1>1, SessionStep
<1> DEFINE d == conn'
           s == sent'
<1>3. world' = world /\ Exact(d, s)
  <2>1. CASE pop3_read_handler
    <3>1. world' = world /\ s = sent
      BY <2>1 DEF pop3_read_handler
    <3>2. Exact(d, sent)
      BY <1>1, <2>1, ExactRead
    <3>3. QED
      BY <3>1, <3>2
  <2>2. CASE pop3_write_handler
    <3>1. world' = world
      BY <2>2 DEF pop3_write_handler
    <3>2. Exact(d, s)
      BY <1>1, <2>2, ExactWrite
    <3>3. QED
      BY <3>1, <3>2
  <2>3. CASE mail_read_handler
    <3>1. world' = world /\ s = sent
      BY <2>3 DEF mail_read_handler
    <3>2. Calm(conn, d)
      BY <1>1, <2>3, MailStep
    <3>3. Exact(d, sent)
      BY <1>1, <3>2, ExactMail
    <3>4. QED
      BY <3>1, <3>3
  <2>4. CASE ClientSends \/ ClientCloses \/ UNCHANGED vars
    <3>1. world' = world /\ d = conn /\ s = sent
      BY <2>4 DEF ClientSends, ClientCloses, vars
    <3>2. QED
      BY <1>1, <3>1
  <2>5. QED
    BY <2>1, <2>2, <2>3, <2>4 DEF Next
<1> HIDE DEF d, s
<1>4. d = conn' /\ s = sent'
  BY DEF d, s
<1>5. Exact(conn, sent)'
  BY <1>3, <1>4, SameExact
<1>6. QED
  BY <1>2, <1>5 DEF AnswersInv

(* What the client has received, followed by what waits in the write       *)
(* buffer, are the answers to its commands, complete and in order, however *)
(* the commands were cut and pipelined and whatever send() took, as long   *)
(* as the write buffer cannot fill up for good and the mail file can be    *)
(* read (the write handler of pop3.c with list_mails(), retrieve_mail()    *)
(* and the mail handler).                                                  *)
THEOREM AnswersComeInOrder == Spec => []AnswersInOrder
<1>1. AnswersInv => AnswersInOrder
  BY DEF AnswersInv, Exact, AnswersInOrder
<1>2. QED
  BY <1>1, AnswersStart, AnswersStep, PTL DEF Spec
=============================================================================
