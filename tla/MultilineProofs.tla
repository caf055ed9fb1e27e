-------------------------- MODULE MultilineProofs --------------------------
(***************************************************************************)
(* Theorems about the two answers that take several visits of the write    *)
(* handler, Retrieval and ListCommand.                                     *)
(*                                                                         *)
(* RETR, for files of every length and content and buffers of every size.  *)
(* Carries(s, f) says that a client that reads s as whole lines decodes f; *)
(* Mode, that what was written carries what was taken from the file, in    *)
(* one of three ways: nothing is pending, a dot that begins a line was     *)
(* written once, or it was written twice and the parser was already shown  *)
(* the byte that follows.  Each round of transfer_bytes() leads from one   *)
(* to another, and at the end of the file the terminator follows a whole   *)
(* line.                                                                   *)
(*                                                                         *)
(* LIST, for maildrops and rooms of every size.  Reached(p) says that the  *)
(* answer was written up to message p and that bytes_written is the length *)
(* of that; a visit that counts the same lengths again resumes there.      *)
(***************************************************************************)
EXTENDS Retrieval, ListCommand, Induction, SequenceTheorems, TLAPS

-----------------------------------------------------------------------------
(* Concatenation of a sequence of sequences, which is how the client       *)
(* decodes.                                                                *)

(* The function within FlattenSeq, on n sequences.                         *)
Flat(g, seqs, n) == g = [i \in 1 .. n |-> IF i = 1 THEN seqs[i] ELSE g[i - 1] \o seqs[i]]

(* Concatenation may be bracketed in any way.                              *)
LEMMA ConcatBytes ==
  ASSUME NEW s \in Seq(Byte), NEW t \in Seq(Byte), NEW u \in Seq(Byte)
  PROVE  s \o t \in Seq(Byte) /\ (s \o t) \o u = s \o (t \o u)
<1>1. s \o t \in Seq(Byte)
  BY ConcatProperties
<1>2. (s \o t) \o u = s \o (t \o u)
  BY ConcatAssociative
<1>3. QED
  BY <1>1, <1>2

(* A function defined by recursion on positions exists.                    *)
LEMMA FlatExists ==
  ASSUME NEW seqs, NEW n \in Nat
  PROVE  \E g : Flat(g, seqs, n)
<1> DEFINE G == {k \in Nat : \E g : Flat(g, seqs, k)}
<1>1. 0 \in G
  <2>1. Flat([i \in 1 .. 0 |-> <<>>], seqs, 0)
    BY DEF Flat
  <2>2. QED
    BY <2>1
<1>2. ASSUME NEW k \in Nat, k \in G PROVE k + 1 \in G
  <2>1. PICK g : Flat(g, seqs, k)
    BY <1>2
  <2> DEFINE h == [i \in 1 .. k + 1 |-> IF i <= k THEN g[i]
                                        ELSE IF i = 1 THEN seqs[i] ELSE g[i - 1] \o seqs[i]]
  <2>2. ASSUME NEW i \in 1 .. k + 1
        PROVE  h[i] = IF i = 1 THEN seqs[i] ELSE h[i - 1] \o seqs[i]
    <3>1. i # 1 => i - 1 \in 1 .. k /\ i - 1 \in 1 .. k + 1 /\ i - 1 <= k
      OBVIOUS
    <3>2. i # 1 => h[i - 1] = g[i - 1]
      BY <3>1
    <3>3. CASE i <= k
      <4>1. i \in 1 .. k
        BY <3>3
      <4>2. g[i] = IF i = 1 THEN seqs[i] ELSE g[i - 1] \o seqs[i]
        BY <2>1, <4>1 DEF Flat
      <4>3. QED
        BY <3>2, <3>3, <4>2
    <3>4. CASE ~(i <= k)
      BY <3>2, <3>4
    <3>5. QED
      BY <3>3, <3>4
  <2>3. h = [i \in 1 .. k + 1 |-> h[i]]
    OBVIOUS
  <2> HIDE DEF h
  <2>4. Flat(h, seqs, k + 1)
    BY <2>2, <2>3 DEF Flat
  <2>5. QED
    BY <2>4
<1>3. \A k \in Nat : k \in G
  <2> HIDE DEF G
  <2>1. QED
    BY <1>1, <1>2, NatInductionOnSet
<1>4. QED
  BY <1>3

(* and depends only on the sequences up to the position.                   *)
LEMMA FlatAgree ==
  ASSUME NEW g, NEW s, NEW n \in Nat, Flat(g, s, n),
         NEW h, NEW t, NEW m \in Nat, Flat(h, t, m), n <= m,
         \A i \in 1 .. n : s[i] = t[i]
  PROVE  \A i \in 1 .. n : g[i] = h[i]
<1> DEFINE G == {k \in Nat : k \in 1 .. n => g[k] = h[k]}
<1>1. 0 \in G
  OBVIOUS
<1>2. ASSUME NEW k \in Nat, k \in G PROVE k + 1 \in G
  <2> SUFFICES ASSUME k + 1 \in 1 .. n PROVE g[k + 1] = h[k + 1]
    OBVIOUS
  <2>1. k + 1 \in 1 .. m /\ s[k + 1] = t[k + 1] /\ (k + 1) - 1 = k
    OBVIOUS
  <2>2. k + 1 = 1 \/ k \in 1 .. n
    OBVIOUS
  <2>3. /\ g[k + 1] = IF k + 1 = 1 THEN s[k + 1] ELSE g[k] \o s[k + 1]
        /\ h[k + 1] = IF k + 1 = 1 THEN t[k + 1] ELSE h[k] \o t[k + 1]
    <3>1. /\ \A i \in 1 .. n : g[i] = IF i = 1 THEN s[i] ELSE g[i - 1] \o s[i]
          /\ \A i \in 1 .. m : h[i] = IF i = 1 THEN t[i] ELSE h[i - 1] \o t[i]
      BY DEF Flat
    <3>2. QED
      BY <2>1, <3>1
  <2>4. QED
    BY <1>2, <2>1, <2>2, <2>3
<1>3. \A k \in Nat : k \in G
  <2> HIDE DEF G
  <2>1. QED
    BY <1>1, <1>2, NatInductionOnSet
<1>4. QED
  BY <1>3

(* What the community module computes is that function at the last         *)
(* position.                                                               *)
LEMMA FlattenIs ==
  ASSUME NEW seqs, NEW n \in Nat, Len(seqs) = n, n # 0
  PROVE  \E g : Flat(g, seqs, n) /\ FlattenSeq(seqs) = g[n]
<1> DEFINE g == CHOOSE f : Flat(f, seqs, n)
<1>1. Flat(g, seqs, n)
  <2>1. \E f : Flat(f, seqs, n)
    BY FlatExists
  <2>2. QED
    BY <2>1
<1>2. FlattenSeq(seqs) = g[n]
  BY DEF FlattenSeq, Flat
<1>3. QED
  BY <1>1, <1>2

(* Concatenating one sequence more.                                        *)
LEMMA FlattenAppend ==
  ASSUME NEW S, NEW seqs \in Seq(Seq(S)), NEW x \in Seq(S)
  PROVE  FlattenSeq(Append(seqs, x)) = FlattenSeq(seqs) \o x
<1> DEFINE more == Append(seqs, x)
           n == Len(seqs)
<1>1. /\ n \in Nat /\ n + 1 \in Nat /\ n + 1 # 0 /\ Len(more) = n + 1 /\ n <= n + 1
      /\ \A i \in 1 .. n : more[i] = seqs[i]
      /\ more[n + 1] = x
  OBVIOUS
<1> HIDE DEF more, n
<1>2. PICK h : Flat(h, more, n + 1) /\ FlattenSeq(more) = h[n + 1]
  BY <1>1, FlattenIs
<1>3. h[n + 1] = IF n + 1 = 1 THEN more[n + 1] ELSE h[n] \o more[n + 1]
  <2>1. n + 1 \in 1 .. n + 1 /\ (n + 1) - 1 = n
    BY <1>1
  <2>2. QED
    BY <1>2, <2>1 DEF Flat
<1>4. CASE n = 0
  <2>1. seqs = <<>>
    BY <1>4 DEF n
  <2>2. FlattenSeq(seqs) = <<>>
    BY <2>1 DEF FlattenSeq
  <2>3. <<>> \o x = x
    OBVIOUS
  <2>4. QED
    BY <1>1, <1>2, <1>3, <1>4, <2>2, <2>3 DEF more
<1>5. CASE n # 0
  <2>1. PICK g : Flat(g, seqs, n) /\ FlattenSeq(seqs) = g[n]
    BY <1>1, <1>5, FlattenIs DEF n
  <2>2. \A i \in 1 .. n : seqs[i] = more[i]
    BY <1>1
  <2>3. \A i \in 1 .. n : g[i] = h[i]
    BY <1>1, <1>2, <2>1, <2>2, FlatAgree
  <2>4. n \in 1 .. n /\ n + 1 # 1
    BY <1>1, <1>5
  <2>5. QED
    BY <1>1, <1>2, <1>3, <2>1, <2>3, <2>4 DEF more
<1>6. QED
  BY <1>4, <1>5

-----------------------------------------------------------------------------
(* transfer_bytes(), round by round.                                       *)

(* One round of transfer_bytes().                                          *)
Round(input, s) ==
  IF s.read = Len(input) THEN s
  ELSE LET b == input[s.read + 1]
       IN [read |-> IF needs_stuffing(s.p) THEN s.read ELSE s.read + 1,
           out |-> Append(s.out, IF needs_stuffing(s.p) THEN "." ELSE b),
           p |-> stuffing_consume(s.p, b)]

(* What transfer_bytes() has before its first round.                       *)
Start(p) == [read |-> 0, out |-> <<>>, p |-> p]

(* The fold within transfer_bytes(), on sets of rounds.                    *)
IsRounds(g, input, p, S) ==
  g = [T \in SUBSET S |-> IF T = {} THEN Start(p) ELSE Round(input, g[T \ {Max(T)}])]

(* transfer_bytes() is that fold on all rounds.                            *)
LEMMA TransferIs ==
  ASSUME NEW input, NEW room \in Nat, NEW p
  PROVE  transfer_bytes(input, room, p)
           = (CHOOSE g : IsRounds(g, input, p, 1 .. room))[1 .. room]
<1>1. DOMAIN [j \in 1 .. room |-> j] = 1 .. room
  OBVIOUS
<1>2. QED
  BY <1>1 DEF transfer_bytes, FoldLeft, MapThenFoldSet, IsRounds, Round, Start

(* The greatest member of a set, as CHOOSE finds it.                       *)
LEMMA MaxInterval ==
  ASSUME NEW T \in SUBSET Nat, NEW n \in T, \A x \in T : x <= n
  PROVE  Max(T) = n
<1>1. \A y \in T : (\A x \in T : y >= x) => y = n
  OBVIOUS
<1>2. n \in T /\ \A x \in T : n >= x
  OBVIOUS
<1>3. QED
  BY <1>1, <1>2 DEF Max

(* What the stuffing parser remembers.                                     *)
Last3 == Byte \cup {"nul"}

StuffingParser == Last3 \X Last3 \X Last3

(* What transfer_bytes() has between two rounds, for an input of n bytes.  *)
TransferState(n) == [read : 0 .. n, out : Seq(Byte), p : StuffingParser]

(* The parser after a byte.                                                *)
LEMMA ConsumeTypes ==
  ASSUME NEW p \in StuffingParser, NEW b \in Byte
  PROVE  /\ stuffing_consume(p, b) \in StuffingParser
         /\ stuffing_consume(p, b)[1] = p[2] /\ stuffing_consume(p, b)[2] = p[3]
         /\ stuffing_consume(p, b)[3] = b
BY DEF StuffingParser, stuffing_consume, Last3

(* A round keeps the types, and does not read past the input.              *)
LEMMA RoundTypes ==
  ASSUME NEW input \in Seq(Byte), NEW s \in TransferState(Len(input))
  PROVE  Round(input, s) \in TransferState(Len(input))
<1> DEFINE b == input[s.read + 1]
           c == IF needs_stuffing(s.p) THEN "." ELSE b
           k == IF needs_stuffing(s.p) THEN s.read ELSE s.read + 1
           q == stuffing_consume(s.p, b)
<1>1. s.read \in 0 .. Len(input) /\ s.out \in Seq(Byte) /\ s.p \in StuffingParser /\ Len(input) \in Nat
  BY DEF TransferState
<1>2. CASE s.read = Len(input)
  BY <1>2 DEF Round
<1>3. CASE s.read # Len(input)
  <2>1. s.read + 1 \in 1 .. Len(input)
    BY <1>1, <1>3
  <2>2. b \in Byte /\ c \in Byte /\ k \in 0 .. Len(input)
    BY <1>1, <2>1 DEF Byte
  <2>3. q \in StuffingParser
    BY <1>1, <2>2, ConsumeTypes
  <2>4. Round(input, s) = [read |-> k, out |-> Append(s.out, c), p |-> q]
    BY <1>3 DEF Round
  <2> HIDE DEF b, c, k, q
  <2>5. Append(s.out, c) \in Seq(Byte)
    BY <1>1, <2>2
  <2>6. QED
    BY <2>2, <2>3, <2>4, <2>5 DEF TransferState
<1>4. QED
  BY <1>2, <1>3

(* The fold exists: it is the iteration of the round.                      *)
LEMMA RoundsExist ==
  ASSUME NEW input \in Seq(Byte), NEW room \in Nat, NEW p \in StuffingParser
  PROVE  \E g : IsRounds(g, input, p, 1 .. room)
<1> DEFINE V == TransferState(Len(input))
           step == [s \in V |-> Round(input, s)]
           S == 1 .. room
<1>1. Start(p) \in V
  BY DEF Start, TransferState
<1>2. step \in [V -> V] /\ \A s \in V : step[s] = Round(input, s)
  BY RoundTypes
<1> HIDE DEF V, step
<1>3. PICK f : IsIteration(f, V, Start(p), step)
  BY <1>1, <1>2, NatRecursion
<1> DEFINE g == [T \in SUBSET S |-> f[Cardinality(T)]]
<1>4. IsFiniteSet(S)
  BY FS_Interval
<1>5. ASSUME NEW T \in SUBSET S, T # {}
      PROVE  g[T] = Round(input, g[T \ {Max(T)}])
  <2>1. T \in SUBSET Nat /\ \A x \in T : x <= room
    OBVIOUS
  <2>2. PICK m \in T : \A x \in T : m >= x
    BY <1>5, <2>1, GreatestExists
  <2>3. Max(T) \in T
    <3>1. Max(T) = m
      BY <2>1, <2>2, MaxInterval
    <3>2. QED
      BY <2>2, <3>1
  <2> DEFINE U == T \ {Max(T)}
  <2>4. IsFiniteSet(T) /\ U \in SUBSET S
    BY <1>4, FS_Subset
  <2>5. /\ Cardinality(T) \in Nat /\ Cardinality(U) \in Nat
        /\ Cardinality(U) = Cardinality(T) - 1
    BY <2>3, <2>4, FS_RemoveElement, FS_CardinalityType, FS_Subset
  <2> HIDE DEF U
  <2>6. Cardinality(T) = Cardinality(U) + 1
    BY <2>5
  <2>7. f[Cardinality(U) + 1] = step[f[Cardinality(U)]] /\ f[Cardinality(U)] \in V
    BY <1>3, <2>5 DEF IsIteration
  <2>8. g[T] = Round(input, g[U])
    BY <1>2, <2>4, <2>6, <2>7
  <2>9. QED
    BY <2>8 DEF U
<1>6. g[{}] = Start(p)
  BY <1>3, FS_EmptySet DEF IsIteration
<1>7. IsRounds(g, input, p, S)
  <2>1. g = [T \in SUBSET S |-> g[T]]
    OBVIOUS
  <2> HIDE DEF g, S
  <2>2. QED
    BY <1>5, <1>6, <2>1 DEF IsRounds
<1>8. QED
  BY <1>7

(* What holds before the first round and is kept by each holds after       *)
(* transfer_bytes(). The sets H[k] are what holds after k rounds.          *)
LEMMA TransferKeeps ==
  ASSUME NEW input \in Seq(Byte), NEW room \in Nat, NEW p \in StuffingParser,
         NEW H, Start(p) \in H[0],
         \A k \in Nat : \A s \in H[k] : Round(input, s) \in H[k + 1]
  PROVE  transfer_bytes(input, room, p) \in H[room]
<1> DEFINE g == CHOOSE f : IsRounds(f, input, p, 1 .. room)
           G == {k \in Nat : k <= room => g[1 .. k] \in H[k]}
<1>1. IsRounds(g, input, p, 1 .. room)
  <2>1. \E f : IsRounds(f, input, p, 1 .. room)
    BY RoundsExist
  <2>2. QED
    BY <2>1
<1>2. transfer_bytes(input, room, p) = g[1 .. room]
  BY TransferIs
<1> HIDE DEF g
<1>3. \A T \in SUBSET (1 .. room) :
         g[T] = IF T = {} THEN Start(p) ELSE Round(input, g[T \ {Max(T)}])
  BY <1>1 DEF IsRounds
<1>4. 0 \in G
  <2>1. 1 .. 0 = {} /\ {} \in SUBSET (1 .. room)
    OBVIOUS
  <2>2. QED
    BY <1>3, <2>1
<1>5. ASSUME NEW k \in Nat, k \in G PROVE k + 1 \in G
  <2> SUFFICES ASSUME k + 1 <= room PROVE g[1 .. k + 1] \in H[k + 1]
    OBVIOUS
  <2> DEFINE T == 1 .. k + 1
  <2>1. T \in SUBSET (1 .. room) /\ T # {} /\ k <= room
    <3>1. \A i \in T : i \in 1 .. room
      OBVIOUS
    <3>2. 1 \in T /\ k <= room
      OBVIOUS
    <3>3. QED
      BY <3>1, <3>2
  <2>2. Max(T) = k + 1
    <3>1. T \in SUBSET Nat /\ k + 1 \in T /\ \A x \in T : x <= k + 1
      OBVIOUS
    <3>2. QED
      BY <3>1, MaxInterval
  <2>3. T \ {k + 1} = 1 .. k
    OBVIOUS
  <2>4. g[T] = Round(input, g[1 .. k])
    BY <1>3, <2>1, <2>2, <2>3
  <2>5. QED
    BY <1>5, <2>1, <2>4
<1>6. \A k \in Nat : k \in G
  <2> HIDE DEF G
  <2>1. QED
    BY <1>4, <1>5, NatInductionOnSet
<1>7. QED
  BY <1>2, <1>6

(* What is concatenated consists of the same members.                      *)
LEMMA FlattenTypes ==
  ASSUME NEW S, NEW seqs \in Seq(Seq(S))
  PROVE  FlattenSeq(seqs) \in Seq(S)
<1> DEFINE n == Len(seqs)
<1>1. n \in Nat /\ \A i \in 1 .. n : seqs[i] \in Seq(S)
  OBVIOUS
<1>2. CASE n = 0
  <2>1. seqs = <<>>
    BY <1>2
  <2>2. FlattenSeq(seqs) = <<>>
    BY <2>1 DEF FlattenSeq
  <2>3. QED
    BY <2>2
<1>3. CASE n # 0
  <2>1. PICK g : Flat(g, seqs, n) /\ FlattenSeq(seqs) = g[n]
    BY <1>1, <1>3, FlattenIs
  <2> DEFINE G == {k \in Nat : k \in 1 .. n => g[k] \in Seq(S)}
  <2> HIDE DEF n
  <2>2. 0 \in G
    OBVIOUS
  <2>3. ASSUME NEW k \in Nat, k \in G PROVE k + 1 \in G
    <3> SUFFICES ASSUME k + 1 \in 1 .. n PROVE g[k + 1] \in Seq(S)
      OBVIOUS
    <3>1. \A i \in 1 .. n : g[i] = IF i = 1 THEN seqs[i] ELSE g[i - 1] \o seqs[i]
      BY <2>1 DEF Flat
    <3>2. g[k + 1] = IF k + 1 = 1 THEN seqs[k + 1] ELSE g[k] \o seqs[k + 1]
      BY <3>1
    <3>3. (k + 1 = 1 \/ k \in 1 .. n) /\ seqs[k + 1] \in Seq(S)
      BY <1>1
    <3>4. k + 1 # 1 => g[k] \in Seq(S)
      BY <2>3, <3>3
    <3>5. QED
      BY <3>2, <3>3, <3>4
  <2>4. \A k \in Nat : k \in G
    <3> HIDE DEF G
    <3>1. QED
      BY <2>2, <2>3, NatInductionOnSet
  <2>5. QED
    BY <1>1, <1>3, <2>1, <2>4
<1>4. QED
  BY <1>2, <1>3

-----------------------------------------------------------------------------
(* What a stream of bytes carries to a client.                             *)

(* What a client keeps of s: all but the dots that begin a line.           *)
Pieces(s) == [i \in 1 .. Len(s) |-> IF s[i] = "." /\ LineStart(s, i) THEN <<>> ELSE <<s[i]>>]

Strip(s) == FlattenSeq(Pieces(s))

(* How s ends.                                                             *)
CrLf(s) == Len(s) >= 2 /\ s[Len(s) - 1] = "\r" /\ s[Len(s)] = "\n"

Cr(s) == Len(s) >= 1 /\ s[Len(s)] = "\r"

AtLineStart(s) == s = <<>> \/ CrLf(s)

(* A dot that begins a line is followed by another.                        *)
Doubled(s) == \A i \in 1 .. Len(s) : s[i] = "." /\ LineStart(s, i) => i < Len(s) /\ s[i + 1] = "."

(* A client that reads s and then the terminator decodes f.                *)
Carries(s, f) == Strip(s) = f /\ Doubled(s)

(* The members of a sequence and one more.                                 *)
LEMMA Appended ==
  ASSUME NEW s \in Seq(Byte), NEW b \in Byte
  PROVE  /\ Append(s, b) \in Seq(Byte) /\ Len(s) \in Nat /\ Len(Append(s, b)) = Len(s) + 1
         /\ \A i \in 1 .. Len(s) : Append(s, b)[i] = s[i]
         /\ Append(s, b)[Len(s) + 1] = b
         /\ Append(s, b) # <<>>
  OBVIOUS

(* Lines start where they did when a byte is added.                        *)
LEMMA LineStartSame ==
  ASSUME NEW s \in Seq(Byte), NEW b \in Byte
  PROVE  /\ \A i \in 1 .. Len(s) : LineStart(Append(s, b), i) <=> LineStart(s, i)
         /\ LineStart(Append(s, b), Len(s) + 1) <=> AtLineStart(s)
<1> DEFINE t == Append(s, b)
<1>1. Len(s) \in Nat /\ \A i \in 1 .. Len(s) : t[i] = s[i]
  BY Appended
<1> HIDE DEF t
<1>2. ASSUME NEW i \in 1 .. Len(s) PROVE LineStart(t, i) <=> LineStart(s, i)
  <2>1. i > 2 => t[i - 2] = s[i - 2] /\ t[i - 1] = s[i - 1]
    <3>1. i > 2 => i - 2 \in 1 .. Len(s) /\ i - 1 \in 1 .. Len(s)
      BY <1>1
    <3>2. QED
      BY <1>1, <3>1
  <2>2. QED
    BY <2>1 DEF LineStart
<1>3. LineStart(t, Len(s) + 1) <=> AtLineStart(s)
  <2> DEFINE n == Len(s)
  <2>1. (n + 1) - 2 = n - 1 /\ (n + 1) - 1 = n /\ (n + 1 > 2 <=> n >= 2) /\ (n + 1 = 1 <=> n = 0)
    BY <1>1
  <2>2. n >= 2 => t[n - 1] = s[n - 1] /\ t[n] = s[n]
    <3>1. n >= 2 => n - 1 \in 1 .. n /\ n \in 1 .. n
      BY <1>1
    <3>2. QED
      BY <1>1, <3>1
  <2>3. n = 0 <=> s = <<>>
    OBVIOUS
  <2> HIDE DEF n
  <2>4. LineStart(t, n + 1) <=> n = 0 \/ (n >= 2 /\ s[n - 1] = "\r" /\ s[n] = "\n")
    BY <2>1, <2>2 DEF LineStart
  <2>5. QED
    BY <2>3, <2>4 DEF n, AtLineStart, CrLf
<1>4. QED
  BY <1>2, <1>3 DEF t

(* A client keeps a byte that is added, unless it is a dot that begins a   *)
(* line.                                                                   *)
LEMMA StripAppend ==
  ASSUME NEW s \in Seq(Byte), NEW b \in Byte
  PROVE  Strip(Append(s, b)) = IF b = "." /\ AtLineStart(s) THEN Strip(s) ELSE Append(Strip(s), b)
<1> DEFINE t == Append(s, b)
           x == IF b = "." /\ AtLineStart(s) THEN <<>> ELSE <<b>>
<1>1. /\ t \in Seq(Byte) /\ Len(s) \in Nat /\ Len(t) = Len(s) + 1
      /\ \A i \in 1 .. Len(s) : t[i] = s[i]
      /\ t[Len(s) + 1] = b
  BY Appended
<1>2. /\ \A i \in 1 .. Len(s) : LineStart(t, i) <=> LineStart(s, i)
      /\ LineStart(t, Len(s) + 1) <=> AtLineStart(s)
  BY LineStartSame
<1>3. Pieces(s) \in Seq(Seq(Byte)) /\ Len(Pieces(s)) = Len(s)
  <2>1. \A i \in 1 .. Len(s) : Pieces(s)[i] \in Seq(Byte)
    BY DEF Pieces
  <2>2. Pieces(s) = [i \in 1 .. Len(s) |-> Pieces(s)[i]]
    BY DEF Pieces
  <2>3. QED
    BY <1>1, <2>1, <2>2
<1>4. x \in Seq(Byte)
  OBVIOUS
<1> HIDE DEF t
<1>5. Pieces(t) = Append(Pieces(s), x)
  <2> DEFINE u == Append(Pieces(s), x)
  <2>1. /\ u = [i \in 1 .. Len(s) + 1 |-> u[i]]
        /\ \A i \in 1 .. Len(s) : u[i] = Pieces(s)[i]
        /\ u[Len(s) + 1] = x
    BY <1>1, <1>3, <1>4
  <2>2. Pieces(t) = [i \in 1 .. Len(s) + 1 |-> Pieces(t)[i]]
    BY <1>1 DEF Pieces
  <2>3. ASSUME NEW i \in 1 .. Len(s) + 1 PROVE Pieces(t)[i] = u[i]
    <3>1. Pieces(t)[i] = IF t[i] = "." /\ LineStart(t, i) THEN <<>> ELSE <<t[i]>>
      BY <1>1 DEF Pieces
    <3>2. CASE i \in 1 .. Len(s)
      <4>1. Pieces(s)[i] = IF s[i] = "." /\ LineStart(s, i) THEN <<>> ELSE <<s[i]>>
        BY <3>2 DEF Pieces
      <4>2. t[i] = s[i] /\ (LineStart(t, i) <=> LineStart(s, i)) /\ u[i] = Pieces(s)[i]
        BY <1>1, <1>2, <2>1, <3>2
      <4> HIDE DEF u, x
      <4>3. QED
        BY <3>1, <4>1, <4>2
    <3>3. CASE i = Len(s) + 1
      <4>1. t[i] = b /\ (LineStart(t, i) <=> AtLineStart(s)) /\ u[i] = x
        BY <1>1, <1>2, <2>1, <3>3
      <4> HIDE DEF u
      <4>2. QED
        BY <3>1, <4>1
    <3>4. i \in 1 .. Len(s) \/ i = Len(s) + 1
      BY <1>1
    <3>5. QED
      BY <3>2, <3>3, <3>4
  <2> HIDE DEF u
  <2>4. QED
    BY <2>1, <2>2, <2>3 DEF u
<1>6. Strip(t) = Strip(s) \o x
  BY <1>3, <1>4, <1>5, FlattenAppend DEF Strip
<1>7. Strip(s) \in Seq(Byte)
  BY <1>3, FlattenTypes DEF Strip
<1>8. Strip(s) \o <<>> = Strip(s) /\ Strip(s) \o <<b>> = Append(Strip(s), b)
  <2> DEFINE r == Strip(s)
  <2> HIDE DEF r
  <2>1. r \in Seq(Byte)
    BY <1>7 DEF r
  <2>2. r \o <<>> = r /\ r \o <<b>> = Append(r, b)
    BY <2>1
  <2>3. QED
    BY <2>2 DEF r
<1>9. QED
  BY <1>6, <1>8 DEF t

(* How what is carried grows: at first it is nothing,                      *)
LEMMA CarriesNothing == Carries(<<>>, <<>>)
<1>1. Len(Pieces(<<>>)) = 0 /\ Pieces(<<>>) = <<>>
  BY DEF Pieces
<1>2. Strip(<<>>) = <<>>
  BY <1>1 DEF Strip, FlattenSeq
<1>3. QED
  BY <1>2 DEF Carries, Doubled

(* then one byte at a time,                                                *)
LEMMA CarriesAppend ==
  ASSUME NEW s \in Seq(Byte), NEW f, NEW b \in Byte, Carries(s, f), ~(b = "." /\ AtLineStart(s))
  PROVE  Carries(Append(s, b), Append(f, b))
<1> DEFINE t == Append(s, b)
<1>1. /\ Len(s) \in Nat /\ Len(t) = Len(s) + 1
      /\ \A i \in 1 .. Len(s) : t[i] = s[i]
      /\ t[Len(s) + 1] = b
  BY Appended
<1>2. /\ \A i \in 1 .. Len(s) : LineStart(t, i) <=> LineStart(s, i)
      /\ LineStart(t, Len(s) + 1) <=> AtLineStart(s)
  BY LineStartSame
<1>3. Strip(t) = Append(f, b)
  BY StripAppend DEF Carries
<1> HIDE DEF t
<1>4. ASSUME NEW i \in 1 .. Len(t), t[i] = ".", LineStart(t, i)
      PROVE  i < Len(t) /\ t[i + 1] = "."
  <2>1. i \in 1 .. Len(s)
    BY <1>1, <1>2, <1>4
  <2>2. s[i] = "." /\ LineStart(s, i)
    BY <1>1, <1>2, <1>4, <2>1
  <2>3. i < Len(s) /\ s[i + 1] = "."
    BY <2>1, <2>2 DEF Carries, Doubled
  <2>4. QED
    BY <1>1, <2>1, <2>3
<1>5. QED
  BY <1>3, <1>4 DEF Carries, Doubled, t

(* and a dot that begins a line by two.                                    *)
LEMMA CarriesDots ==
  ASSUME NEW s \in Seq(Byte), NEW f, Carries(s, f), AtLineStart(s)
  PROVE  Carries(Append(Append(s, "."), "."), Append(f, "."))
<1> DEFINE t == Append(s, ".")
           u == Append(t, ".")
<1>0. "." \in Byte
  BY DEF Byte
<1>1. /\ t \in Seq(Byte) /\ Len(s) \in Nat /\ Len(t) = Len(s) + 1
      /\ \A i \in 1 .. Len(s) : t[i] = s[i]
      /\ t[Len(s) + 1] = "." /\ t # <<>>
  BY <1>0, Appended
<1>2. /\ \A i \in 1 .. Len(s) : LineStart(t, i) <=> LineStart(s, i)
      /\ LineStart(t, Len(s) + 1) <=> AtLineStart(s)
  BY <1>0, LineStartSame
<1>3. Strip(t) = f
  BY <1>0, StripAppend DEF Carries
<1> HIDE DEF t
<1>4. ~AtLineStart(t)
  BY <1>1 DEF AtLineStart, CrLf
<1>5. /\ Len(u) = Len(t) + 1
      /\ \A i \in 1 .. Len(t) : u[i] = t[i]
      /\ u[Len(t) + 1] = "."
  BY <1>0, <1>1, Appended
<1>6. /\ \A i \in 1 .. Len(t) : LineStart(u, i) <=> LineStart(t, i)
      /\ LineStart(u, Len(t) + 1) <=> AtLineStart(t)
  BY <1>0, <1>1, LineStartSame
<1>7. Strip(u) = Append(f, ".")
  BY <1>0, <1>1, <1>3, <1>4, StripAppend
<1> HIDE DEF u
<1>8. ASSUME NEW i \in 1 .. Len(u), u[i] = ".", LineStart(u, i)
      PROVE  i < Len(u) /\ u[i + 1] = "."
  <2>1. i \in 1 .. Len(t) /\ i \in Nat
    BY <1>1, <1>4, <1>5, <1>6, <1>8
  <2>2. CASE i \in 1 .. Len(s)
    <3>1. s[i] = "." /\ LineStart(s, i)
      BY <1>1, <1>2, <1>5, <1>6, <1>8, <2>1, <2>2
    <3>2. i < Len(s) /\ s[i + 1] = "."
      BY <2>2, <3>1 DEF Carries, Doubled
    <3>3. i + 1 \in 1 .. Len(s) /\ i + 1 \in 1 .. Len(t)
      BY <1>1, <2>2, <3>2
    <3>4. QED
      BY <1>1, <1>5, <3>2, <3>3
  <2>3. CASE i = Len(s) + 1
    BY <1>1, <1>5, <2>3
  <2>4. QED
    BY <1>1, <2>1, <2>2, <2>3
<1>9. QED
  BY <1>7, <1>8 DEF Carries, Doubled, u, t

(* The least member of one.                                                *)
LEMMA LeastOfOne == ASSUME NEW n \in Nat PROVE Min({n}) = n
<1>1. \A x \in {n} : x = n
  OBVIOUS
<1>2. QED
  BY <1>1 DEF Min

(* The client finds the end, and what it decodes is what is carried.       *)
LEMMA EndIsFound ==
  ASSUME NEW s \in Seq(Byte), NEW f, Carries(s, f), CrLf(s), NEW u, u = s \o <<".", "\r", "\n">>
  PROVE  Ends(u) = {Len(u) - 2} /\ Decoded(u) = f
<1> DEFINE a == Append(s, ".")
           b == Append(a, "\r")
           c == Append(b, "\n")
           n == Len(s)
<1>0. {".", "\r", "\n"} \subseteq Byte /\ n \in Nat
  BY DEF Byte
<1>1. /\ a \in Seq(Byte) /\ Len(a) = n + 1
      /\ \A i \in 1 .. n : a[i] = s[i]
      /\ a[n + 1] = "."
      /\ \A i \in 1 .. n : LineStart(a, i) <=> LineStart(s, i)
      /\ LineStart(a, n + 1)
  BY <1>0, Appended, LineStartSame DEF AtLineStart
<1> HIDE DEF a
<1>2. /\ b \in Seq(Byte) /\ Len(b) = Len(a) + 1
      /\ \A i \in 1 .. Len(a) : b[i] = a[i] /\ (LineStart(b, i) <=> LineStart(a, i))
      /\ b[Len(a) + 1] = "\r"
  BY <1>0, <1>1, Appended, LineStartSame
<1> HIDE DEF b
<1>3. /\ c \in Seq(Byte) /\ Len(c) = Len(b) + 1
      /\ \A i \in 1 .. Len(b) : c[i] = b[i] /\ (LineStart(c, i) <=> LineStart(b, i))
      /\ c[Len(b) + 1] = "\n"
  BY <1>0, <1>2, Appended, LineStartSame
<1> HIDE DEF c, n
<1>4. /\ Len(c) = n + 3
      /\ \A i \in 1 .. n : c[i] = s[i] /\ (LineStart(c, i) <=> LineStart(s, i))
      /\ c[n + 1] = "." /\ c[n + 2] = "\r" /\ c[n + 3] = "\n" /\ LineStart(c, n + 1)
  <2>1. \A i \in 1 .. n : i \in 1 .. Len(a) /\ i \in 1 .. Len(b)
    BY <1>0, <1>1, <1>2
  <2>2. n + 1 \in 1 .. Len(a) /\ n + 1 \in 1 .. Len(b) /\ n + 2 \in 1 .. Len(b) /\ n + 2 = Len(a) + 1
        /\ n + 3 = Len(b) + 1 /\ Len(c) = n + 3
    BY <1>0, <1>1, <1>2, <1>3
  <2>3. \A i \in 1 .. n : c[i] = s[i] /\ (LineStart(c, i) <=> LineStart(s, i))
    BY <1>1, <1>2, <1>3, <2>1
  <2>4. c[n + 1] = "." /\ LineStart(c, n + 1)
    BY <1>1, <1>2, <1>3, <2>2
  <2>5. c[n + 2] = "\r" /\ c[n + 3] = "\n"
    BY <1>2, <1>3, <2>2
  <2>6. QED
    BY <2>2, <2>3, <2>4, <2>5
<1>5. u = c
  BY <1>0 DEF a, b, c
<1>6. ASSUME NEW i \in 1 .. Len(c) - 2
      PROVE  SubSeq(c, i, i + 2) = <<".", "\r", "\n">>
               <=> c[i] = "." /\ c[i + 1] = "\r" /\ c[i + 2] = "\n"
  <2> DEFINE d == SubSeq(c, i, i + 2)
             e == <<".", "\r", "\n">>
  <2>1. i + 2 \in 1 .. Len(c) /\ i \in 1 .. Len(c)
    BY <1>0, <1>4
  <2>2. d \in Seq(Byte) /\ Len(d) = 3 /\ d[1] = c[i] /\ d[2] = c[i + 1] /\ d[3] = c[i + 2]
    BY <1>3, <2>1
  <2>3. e \in Seq(Byte) /\ Len(e) = 3 /\ e[1] = "." /\ e[2] = "\r" /\ e[3] = "\n"
    BY <1>0
  <2> HIDE DEF d, e
  <2>4. d[1] = "." /\ d[2] = "\r" /\ d[3] = "\n" => d = e
    <3>1. \A j \in 1 .. 3 : j = 1 \/ j = 2 \/ j = 3
      OBVIOUS
    <3>2. d[1] = "." /\ d[2] = "\r" /\ d[3] = "\n" => \A j \in 1 .. Len(d) : d[j] = e[j]
      BY <2>2, <2>3, <3>1
    <3>3. QED
      BY <2>2, <2>3, <3>2, SeqEqual
  <2>5. QED
    BY <2>2, <2>3, <2>4 DEF d, e
<1>7. ASSUME NEW i \in Ends(c) PROVE i = n + 1
  <2>1. i \in 1 .. Len(c) - 2 /\ LineStart(c, i) /\ c[i] = "." /\ c[i + 1] = "\r"
    BY <1>6 DEF Ends
  <2>2. CASE i \in 1 .. n
    <3>1. s[i] = "." /\ LineStart(s, i)
      BY <1>4, <2>1, <2>2
    <3>2. i < n /\ s[i + 1] = "."
      BY <2>2, <3>1 DEF Carries, Doubled, n
    <3>3. c[i + 1] = "."
      BY <1>0, <1>4, <2>2, <3>2
    <3>4. QED
      BY <2>1, <3>3
  <2>3. QED
    BY <1>0, <1>4, <2>1, <2>2
<1>8. n + 1 \in Ends(c)
  <2>1. n + 1 \in 1 .. Len(c) - 2 /\ (n + 1) + 1 = n + 2 /\ (n + 1) + 2 = n + 3
    BY <1>0, <1>4
  <2>2. SubSeq(c, n + 1, (n + 1) + 2) = <<".", "\r", "\n">>
    BY <1>4, <1>6, <2>1
  <2>3. QED
    BY <1>4, <2>1, <2>2 DEF Ends
<1>9. Ends(c) = {n + 1} /\ n + 1 = Len(c) - 2
  BY <1>0, <1>4, <1>7, <1>8
<1>10. Decoded(c) = f
  <2>1. Min(Ends(c)) = n + 1 /\ (n + 1) - 1 = n
    BY <1>0, <1>9, LeastOfOne
  <2>2. SubSeq(c, 1, n) = s
    <3> DEFINE d == SubSeq(c, 1, n)
    <3>1. d \in Seq(Byte) /\ Len(d) = n /\ \A i \in 1 .. n : d[i] = c[i]
      BY <1>0, <1>3, <1>4
    <3> HIDE DEF d
    <3>2. \A i \in 1 .. Len(d) : d[i] = s[i]
      BY <1>4, <3>1
    <3>3. QED
      BY <3>1, <3>2, SeqEqual DEF n, d
  <2>3. Decoded(c) = Strip(SubSeq(c, 1, Min(Ends(c)) - 1))
    BY DEF Decoded, Strip, Pieces
  <2>4. QED
    BY <2>1, <2>2, <2>3 DEF Carries
<1>11. QED
  BY <1>5, <1>9, <1>10

-----------------------------------------------------------------------------
(* What the stuffing parser knows.                                         *)

(* The first m bytes of the file.                                          *)
Prefix(f, m) == SubSeq(f, 1, m)

(* The stream and the file end alike as far as lines are concerned.        *)
Agree(s, t) == (CrLf(s) <=> CrLf(t)) /\ (Cr(s) <=> Cr(t))

(* What the stuffing parser remembers is how the stream and the file end.  *)
Ordinary(s, m, p, f) ==
  /\ Carries(s, Prefix(f, m)) /\ Agree(s, Prefix(f, m))
  /\ ~needs_stuffing(p)
  /\ p[2] = "\r" /\ p[3] = "\n" <=> CrLf(s)
  /\ p[3] = "\r" <=> Cr(s)
  /\ s = <<>> => m = 0

(* A dot that begins a line was sent, not yet doubled.                     *)
Pending(s, m, p, f) ==
  /\ m >= 1 /\ f[m] = "." /\ p = <<"\r", "\n", ".">>
  /\ \E t \in Seq(Byte) : /\ s = Append(t, ".")
                          /\ Carries(t, Prefix(f, m - 1)) /\ CrLf(t) /\ CrLf(Prefix(f, m - 1))

(* It was doubled; the byte that follows was shown to the parser.          *)
Stuffed(s, m, p, f) ==
  /\ m >= 1 /\ f[m] = "." /\ m < Len(f) /\ p = <<"\n", ".", f[m + 1]>>
  /\ Carries(s, Prefix(f, m)) /\ s # <<>> /\ s[Len(s)] = "."

(* In one of these ways s carries the first m bytes of f, the parser       *)
(* being p.                                                                *)
Mode(s, m, p, f) == Ordinary(s, m, p, f) \/ Pending(s, m, p, f) \/ Stuffed(s, m, p, f)

(* One byte more of the file.                                              *)
LEMMA PrefixGrows ==
  ASSUME NEW f \in Seq(Byte), NEW m \in Nat, m < Len(f)
  PROVE  /\ Prefix(f, m + 1) = Append(Prefix(f, m), f[m + 1])
         /\ f[m + 1] \in Byte /\ Prefix(f, m) \in Seq(Byte) /\ Len(Prefix(f, m)) = m
         /\ m >= 1 => Prefix(f, m)[m] = f[m]
<1> DEFINE r == Prefix(f, m)
           t == Prefix(f, m + 1)
<1>1. /\ r \in Seq(Byte) /\ Len(r) = m /\ \A i \in 1 .. m : r[i] = f[i]
      /\ t \in Seq(Byte) /\ Len(t) = m + 1 /\ \A i \in 1 .. m + 1 : t[i] = f[i]
      /\ f[m + 1] \in Byte
  BY DEF Prefix
<1> HIDE DEF r, t
<1> DEFINE u == Append(r, f[m + 1])
<1>2. /\ u \in Seq(Byte) /\ Len(u) = m + 1
      /\ \A i \in 1 .. m : u[i] = r[i]
      /\ u[m + 1] = f[m + 1]
  BY <1>1, Appended
<1> HIDE DEF u
<1>3. ASSUME NEW i \in 1 .. m + 1 PROVE t[i] = u[i]
  <2>1. i \in 1 .. m \/ i = m + 1
    OBVIOUS
  <2>2. QED
    BY <1>1, <1>2, <2>1
<1>4. t = u
  BY <1>1, <1>2, <1>3, SeqEqual
<1>5. m >= 1 => r[m] = f[m]
  BY <1>1
<1>6. QED
  BY <1>1, <1>4, <1>5 DEF r, t, u

(* How a sequence ends to which a byte was added.                          *)
LEMMA EndsAppend ==
  ASSUME NEW s \in Seq(Byte), NEW b \in Byte
  PROVE  /\ CrLf(Append(s, b)) <=> Cr(s) /\ b = "\n"
         /\ Cr(Append(s, b)) <=> b = "\r"
<1> DEFINE t == Append(s, b)
           n == Len(s)
<1>1. /\ n \in Nat /\ Len(t) = n + 1
      /\ \A i \in 1 .. n : t[i] = s[i]
      /\ t[n + 1] = b
  BY Appended
<1> HIDE DEF t, n
<1>2. (n + 1) - 1 = n /\ (n + 1 >= 2 <=> n >= 1) /\ (n >= 1 => t[n] = s[n])
  BY <1>1
<1>3. CrLf(t) <=> n >= 1 /\ s[n] = "\r" /\ b = "\n"
  BY <1>1, <1>2 DEF CrLf
<1>4. Cr(t) <=> b = "\r"
  BY <1>1 DEF Cr
<1>5. QED
  BY <1>3, <1>4 DEF Cr, n, t

(* One round writes one byte, and what was written still carries the file. *)
LEMMA OrdinaryStep ==
  ASSUME NEW s \in Seq(Byte), NEW f \in Seq(Byte), NEW m \in Nat, m < Len(f), NEW p \in StuffingParser,
         f[1] # ".", Ordinary(s, m, p, f)
  PROVE  Mode(Append(s, f[m + 1]), m + 1, stuffing_consume(p, f[m + 1]), f)
<1> DEFINE b == f[m + 1]
           q == stuffing_consume(p, b)
           r == Prefix(f, m)
           t == Append(s, b)
<1>1. /\ Carries(s, r) /\ Agree(s, r) /\ ~needs_stuffing(p)
      /\ p[2] = "\r" /\ p[3] = "\n" <=> CrLf(s)
      /\ p[3] = "\r" <=> Cr(s)
      /\ s = <<>> => m = 0
  BY DEF Ordinary
<1>2. /\ b \in Byte /\ r \in Seq(Byte) /\ Len(r) = m
      /\ Prefix(f, m + 1) = Append(r, b)
  BY PrefixGrows
<1>3. q = <<p[2], p[3], b>> /\ q[1] = p[2] /\ q[2] = p[3] /\ q[3] = b
  BY DEF stuffing_consume
<1>4. b = "." => s # <<>>
  BY <1>1
<1>5. /\ CrLf(t) <=> Cr(s) /\ b = "\n"
      /\ Cr(t) <=> b = "\r"
      /\ CrLf(Append(r, b)) <=> Cr(r) /\ b = "\n"
      /\ Cr(Append(r, b)) <=> b = "\r"
  <2>1. b \in Byte /\ r \in Seq(Byte)
    BY <1>2
  <2> HIDE DEF b, r
  <2>2. QED
    BY <2>1, EndsAppend
<1>6. (m + 1) - 1 = m /\ m + 1 >= 1 /\ t # <<>>
  BY Appended
<1> HIDE DEF b, q, r, t
<1>7. CASE b = "." /\ CrLf(s)
  <2>1. q = <<"\r", "\n", ".">>
    BY <1>1, <1>3, <1>7
  <2>2. CrLf(r)
    BY <1>1, <1>7 DEF Agree
  <2>3. Pending(t, m + 1, q, f)
    <3>1. t = Append(s, ".") /\ Carries(s, Prefix(f, (m + 1) - 1)) /\ CrLf(Prefix(f, (m + 1) - 1))
      BY <1>1, <1>6, <1>7, <2>2 DEF t, r
    <3>2. f[m + 1] = "."
      BY <1>7 DEF b
    <3>3. QED
      BY <1>6, <1>7, <2>1, <3>1, <3>2 DEF Pending
  <2>4. QED
    BY <2>3 DEF Mode, t, q, b
<1>8. CASE ~(b = "." /\ CrLf(s))
  <2>1. ~(b = "." /\ AtLineStart(s))
    BY <1>4, <1>8 DEF AtLineStart
  <2>2. Carries(t, Append(r, b))
    BY <1>1, <1>2, <2>1, CarriesAppend DEF t
  <2>3. ~needs_stuffing(q)
    BY <1>1, <1>3, <1>8 DEF needs_stuffing
  <2>4. Agree(t, Append(r, b))
    BY <1>1, <1>5 DEF Agree
  <2>5. (q[2] = "\r" /\ q[3] = "\n" <=> CrLf(t)) /\ (q[3] = "\r" <=> Cr(t))
    BY <1>1, <1>3, <1>5
  <2>6. Ordinary(t, m + 1, q, f)
    BY <1>2, <1>6, <2>2, <2>3, <2>4, <2>5 DEF Ordinary
  <2>7. QED
    BY <2>6 DEF Mode, t, q, b
<1>9. QED
  BY <1>7, <1>8

(* The second dot takes no byte from the file.                             *)
LEMMA PendingStep ==
  ASSUME NEW s \in Seq(Byte), NEW f \in Seq(Byte), NEW m \in Nat, m < Len(f), NEW p \in StuffingParser,
         Pending(s, m, p, f)
  PROVE  Mode(Append(s, "."), m, stuffing_consume(p, f[m + 1]), f)
<1> DEFINE b == f[m + 1]
           q == stuffing_consume(p, b)
<1>1. PICK t \in Seq(Byte) : /\ s = Append(t, ".")
                             /\ Carries(t, Prefix(f, m - 1)) /\ CrLf(t)
  BY DEF Pending
<1>2. m >= 1 /\ f[m] = "." /\ p = <<"\r", "\n", ".">>
  BY DEF Pending
<1>3. m - 1 \in Nat /\ m - 1 < Len(f) /\ (m - 1) + 1 = m
  BY <1>2
<1>4. Prefix(f, m) = Append(Prefix(f, m - 1), ".")
  BY <1>2, <1>3, PrefixGrows
<1>5. Carries(Append(s, "."), Prefix(f, m))
  BY <1>1, <1>4, CarriesDots DEF AtLineStart
<1>6. Append(s, ".") # <<>> /\ Append(s, ".")[Len(Append(s, "."))] = "."
  <2>1. "." \in Byte
    BY DEF Byte
  <2>2. QED
    BY <2>1, Appended
<1>7. q = <<"\n", ".", b>>
  BY <1>2 DEF stuffing_consume
<1>8. Stuffed(Append(s, "."), m, q, f)
  BY <1>2, <1>5, <1>6, <1>7 DEF Stuffed
<1>9. QED
  BY <1>8 DEF Mode

(* The byte after it does, whatever it is: the parser sees it twice and    *)
(* still remembers how the stream ends.                                    *)
LEMMA StuffedStep ==
  ASSUME NEW s \in Seq(Byte), NEW f \in Seq(Byte), NEW m \in Nat, NEW p \in StuffingParser,
         Stuffed(s, m, p, f)
  PROVE  Mode(Append(s, f[m + 1]), m + 1, stuffing_consume(p, f[m + 1]), f)
<1> DEFINE b == f[m + 1]
           q == stuffing_consume(p, b)
           r == Prefix(f, m)
           t == Append(s, b)
<1>1. /\ m >= 1 /\ f[m] = "." /\ m < Len(f) /\ p = <<"\n", ".", b>>
      /\ Carries(s, r) /\ s # <<>> /\ s[Len(s)] = "."
  BY DEF Stuffed
<1>2. /\ b \in Byte /\ r \in Seq(Byte) /\ Len(r) = m /\ r[m] = "."
      /\ Prefix(f, m + 1) = Append(r, b)
  BY <1>1, PrefixGrows
<1>3. q = <<".", b, b>> /\ q[1] = "." /\ q[2] = b /\ q[3] = b
  BY <1>1 DEF stuffing_consume
<1>4. ~AtLineStart(s) /\ ~Cr(s) /\ ~Cr(r)
  BY <1>1, <1>2 DEF AtLineStart, CrLf, Cr
<1>5. /\ CrLf(t) <=> Cr(s) /\ b = "\n"
      /\ Cr(t) <=> b = "\r"
      /\ CrLf(Append(r, b)) <=> Cr(r) /\ b = "\n"
      /\ Cr(Append(r, b)) <=> b = "\r"
  BY <1>2, EndsAppend
<1>6. t # <<>>
  BY Appended
<1> HIDE DEF b, q, r, t
<1>7. Carries(t, Append(r, b))
  BY <1>1, <1>2, <1>4, CarriesAppend DEF t
<1>8. ~needs_stuffing(q) /\ Agree(t, Append(r, b))
  BY <1>3, <1>4, <1>5 DEF needs_stuffing, Agree
<1>9. (q[2] = "\r" /\ q[3] = "\n" <=> CrLf(t)) /\ (q[3] = "\r" <=> Cr(t))
  BY <1>3, <1>4, <1>5
<1>10. Ordinary(t, m + 1, q, f)
  BY <1>2, <1>6, <1>7, <1>8, <1>9 DEF Ordinary
<1>11. QED
  BY <1>10 DEF Mode, t, q, b

(* So what was written always carries what was moved, in one of the three  *)
(* ways.                                                                   *)
LEMMA ModeStep ==
  ASSUME NEW s \in Seq(Byte), NEW f \in Seq(Byte), NEW m \in Nat, m < Len(f), NEW p \in StuffingParser,
         f[1] # ".", Mode(s, m, p, f)
  PROVE  LET q == stuffing_consume(p, f[m + 1])
         IN /\ needs_stuffing(p) => Mode(Append(s, "."), m, q, f)
            /\ ~needs_stuffing(p) => Mode(Append(s, f[m + 1]), m + 1, q, f)
<1>1. CASE Ordinary(s, m, p, f)
  <2>1. ~needs_stuffing(p)
    BY <1>1 DEF Ordinary
  <2>2. QED
    BY <1>1, <2>1, OrdinaryStep
<1>2. CASE Pending(s, m, p, f)
  <2>1. needs_stuffing(p)
    BY <1>2 DEF Pending, needs_stuffing
  <2>2. QED
    BY <1>2, <2>1, PendingStep
<1>3. CASE Stuffed(s, m, p, f)
  <2>1. ~needs_stuffing(p)
    BY <1>3 DEF Stuffed, needs_stuffing
  <2>2. QED
    BY <1>3, <2>1, StuffedStep
<1>4. QED
  BY <1>1, <1>2, <1>3 DEF Mode

(* A file of which f was only a part begins in the same way.               *)
LEMMA ModeExtends ==
  ASSUME NEW f \in Seq(Byte), NEW g \in Seq(Byte), Len(f) <= Len(g),
         \A i \in 1 .. Len(f) : f[i] = g[i],
         NEW m \in 0 .. Len(f), NEW s, NEW p, Mode(s, m, p, f)
  PROVE  Mode(s, m, p, g)
<1>1. ASSUME NEW k \in 0 .. Len(f) PROVE Prefix(f, k) = Prefix(g, k)
  <2> DEFINE a == Prefix(f, k)
             b == Prefix(g, k)
  <2>1. /\ a \in Seq(Byte) /\ Len(a) = k /\ \A i \in 1 .. k : a[i] = f[i]
        /\ b \in Seq(Byte) /\ Len(b) = k /\ \A i \in 1 .. k : b[i] = g[i]
    BY DEF Prefix
  <2> HIDE DEF a, b
  <2>2. \A i \in 1 .. k : a[i] = b[i]
    BY <2>1
  <2>3. a = b
    BY <2>1, <2>2, SeqEqual
  <2>4. QED
    BY <2>3 DEF a, b
<1>2. Prefix(f, m) = Prefix(g, m) /\ (m >= 1 => Prefix(f, m - 1) = Prefix(g, m - 1))
  <2>1. m >= 1 => m - 1 \in 0 .. Len(f)
    OBVIOUS
  <2>2. QED
    BY <1>1, <2>1
<1>3. (m >= 1 => f[m] = g[m]) /\ (m < Len(f) => f[m + 1] = g[m + 1] /\ m < Len(g))
  OBVIOUS
<1>4. CASE Ordinary(s, m, p, f)
  BY <1>2, <1>4 DEF Mode, Ordinary
<1>5. CASE Pending(s, m, p, f)
  BY <1>2, <1>3, <1>5 DEF Mode, Pending
<1>6. CASE Stuffed(s, m, p, f)
  BY <1>2, <1>3, <1>6 DEF Mode, Stuffed
<1>7. QED
  BY <1>4, <1>5, <1>6 DEF Mode

(* It does at first.                                                       *)
LEMMA ModeStart ==
  ASSUME NEW f \in Seq(Byte)
  PROVE  Mode(<<>>, 0, init_stuffing_parser, f)
<1>1. Prefix(f, 0) = <<>>
  BY DEF Prefix
<1>2. Carries(<<>>, Prefix(f, 0)) /\ Agree(<<>>, Prefix(f, 0)) /\ ~CrLf(<<>>) /\ ~Cr(<<>>)
  BY <1>1, CarriesNothing DEF Agree, CrLf, Cr
<1>3. QED
  BY <1>2 DEF Mode, Ordinary, needs_stuffing, init_stuffing_parser

(* The file of which the last line is a single dot.                        *)
LEMMA EndsInDot ==
  ASSUME NEW f \in Seq(Byte), Len(f) >= 3,
         f[Len(f) - 2] = "\r", f[Len(f) - 1] = "\n", f[Len(f)] = "."
  PROVE  IsSuffix(<<"\r", "\n", ".">>, f)
<1> DEFINE e == Reverse(<<"\r", "\n", ".">>)
           r == Reverse(f)
<1>1. /\ e \in Seq(Byte) /\ Len(e) = 3 /\ e[1] = "." /\ e[2] = "\n" /\ e[3] = "\r"
  BY DEF Reverse, Byte
<1>2. r \in Seq(Byte) /\ Len(r) = Len(f) /\ \A i \in 1 .. Len(f) : r[i] = f[(Len(f) - i) + 1]
  BY DEF Reverse
<1>3. IsSuffix(<<"\r", "\n", ".">>, f) <=> IsPrefix(e, r)
  BY DEF IsSuffix
<1> HIDE DEF e, r
<1>4. r[1] = "." /\ r[2] = "\n" /\ r[3] = "\r"
  BY <1>2
<1> DEFINE d == SubSeq(r, 1, 3)
           g == SubSeq(e, 1, 3)
<1>5. /\ d \in Seq(Byte) /\ Len(d) = 3 /\ d[1] = r[1] /\ d[2] = r[2] /\ d[3] = r[3]
      /\ g \in Seq(Byte) /\ Len(g) = 3 /\ g[1] = e[1] /\ g[2] = e[2] /\ g[3] = e[3]
  BY <1>1, <1>2
<1> HIDE DEF d, g
<1>6. d = g
  <2>1. \A j \in 1 .. 3 : j = 1 \/ j = 2 \/ j = 3
    OBVIOUS
  <2>2. \A j \in 1 .. Len(d) : d[j] = g[j]
    BY <1>1, <1>4, <1>5, <2>1
  <2>3. QED
    BY <1>5, <2>2, SeqEqual
<1>7. QED
  BY <1>1, <1>2, <1>3, <1>6 DEF IsPrefix, d, g

(* The file with the end of line its last line may lack.                   *)
Ended(f) == IF CrLf(f) THEN f ELSE Append(Append(f, "\r"), "\n")

(* What is written at the end of the file ends the answer.                 *)
Complete(s, f) ==
  \E t \in Seq(Byte) : Carries(t, Ended(f)) /\ CrLf(t) /\ s = t \o <<".", "\r", "\n">>

(* At the end of the file the terminator completes it. Only a file that    *)
(* ends in a dot alone on its line would leave the parser with a dot to    *)
(* double.                                                                 *)
LEMMA ModeEnds ==
  ASSUME NEW s \in Seq(Byte), NEW f \in Seq(Byte), NEW p, Mode(s, Len(f), p, f),
         ~IsSuffix(<<"\r", "\n", ".">>, f)
  PROVE  Complete(s \o terminator(p), f)
<1>0. {".", "\r", "\n"} \subseteq Byte /\ Len(f) \in Nat
  BY DEF Byte
<1>1. CASE Ordinary(s, Len(f), p, f)
  <2>1. Prefix(f, Len(f)) = f
    <3> DEFINE d == Prefix(f, Len(f))
    <3>1. d \in Seq(Byte) /\ Len(d) = Len(f) /\ \A i \in 1 .. Len(f) : d[i] = f[i]
      BY DEF Prefix
    <3> HIDE DEF d
    <3>2. d = f
      BY <3>1, SeqEqual
    <3>3. QED
      BY <3>2 DEF d
  <2>2. Carries(s, f) /\ (CrLf(s) <=> CrLf(f)) /\ (p[2] = "\r" /\ p[3] = "\n" <=> CrLf(s))
    BY <1>1, <2>1 DEF Ordinary, Agree
  <2>3. CASE CrLf(s)
    BY <2>2, <2>3 DEF Complete, Ended, terminator
  <2>4. CASE ~CrLf(s)
    <3> DEFINE t1 == Append(s, "\r")
               t == Append(t1, "\n")
    <3>1. t1 \in Seq(Byte) /\ t \in Seq(Byte)
      BY <1>0
    <3>2. Carries(t1, Append(f, "\r"))
      BY <1>0, <2>2, CarriesAppend
    <3>3. Cr(t1)
      BY <1>0, EndsAppend
    <3>4. Carries(t, Append(Append(f, "\r"), "\n")) /\ CrLf(t)
      <4> DEFINE g == Append(f, "\r")
                 c == "\n"
      <4>1. t1 \in Seq(Byte) /\ c \in Byte /\ c # "."
        BY <1>0, <3>1
      <4> HIDE DEF t1, g, c
      <4>2. Carries(Append(t1, c), Append(g, c))
        BY <3>2, <4>1, CarriesAppend DEF g
      <4>3. CrLf(Append(t1, c)) <=> Cr(t1) /\ c = "\n"
        BY <4>1, EndsAppend
      <4>4. t = Append(t1, c) /\ Append(g, c) = Append(Append(f, "\r"), "\n") /\ c = "\n"
        BY DEF c, g
      <4> HIDE DEF t
      <4>5. QED
        BY <3>3, <4>2, <4>3, <4>4
    <3>5. s \o terminator(p) = t \o <<".", "\r", "\n">>
      <4> DEFINE y == <<"\r", "\n">>
                 z == <<".", "\r", "\n">>
      <4>1. ~(p[3] = "\n" /\ p[2] = "\r")
        BY <2>2, <2>4
      <4>2. terminator(p) = y \o z
        BY <4>1 DEF terminator
      <4>3. t = s \o y
        BY <1>0
      <4>4. y \in Seq(Byte) /\ z \in Seq(Byte)
        BY <1>0
      <4> HIDE DEF t, y, z
      <4>5. (s \o y) \o z = s \o (y \o z)
        BY <4>4, ConcatBytes, SMTT(30)
      <4>6. QED
        BY <4>2, <4>3, <4>5 DEF z
    <3> HIDE DEF t, t1
    <3>6. QED
      BY <2>2, <2>4, <3>1, <3>4, <3>5 DEF Complete, Ended
  <2>5. QED
    BY <2>3, <2>4
<1>2. CASE Pending(s, Len(f), p, f)
  <2> DEFINE m == Len(f)
             r == Prefix(f, m - 1)
  <2>1. m >= 1 /\ f[m] = "." /\ CrLf(r)
    BY <1>2 DEF Pending
  <2>2. Len(r) = m - 1 /\ \A i \in 1 .. m - 1 : r[i] = f[i]
    <3>1. m - 1 \in Nat /\ m - 1 <= Len(f)
      BY <1>0, <2>1
    <3> HIDE DEF m
    <3>2. QED
      BY <3>1 DEF Prefix
  <2> HIDE DEF m, r
  <2>3. /\ m \in Nat /\ m - 1 >= 2 /\ (m - 1) - 1 = m - 2 /\ m - 2 \in 1 .. m - 1 /\ m - 1 \in 1 .. m - 1
        /\ r[m - 2] = "\r" /\ r[m - 1] = "\n"
    BY <1>0, <2>1, <2>2 DEF CrLf, m
  <2>4. m >= 3 /\ f[m - 2] = "\r" /\ f[m - 1] = "\n"
    BY <2>2, <2>3
  <2>5. QED
    BY <2>1, <2>4, EndsInDot DEF m
<1>3. CASE Stuffed(s, Len(f), p, f)
  BY <1>0, <1>3 DEF Stuffed
<1>4. QED
  BY <1>1, <1>2, <1>3 DEF Mode

(* transfer_bytes() stops for want of input or of room.                    *)
LEMMA TransferFits ==
  ASSUME NEW input \in Seq(Byte), NEW room \in Nat, NEW p \in StuffingParser
  PROVE  LET t == transfer_bytes(input, room, p)
         IN /\ t \in TransferState(Len(input))
            /\ Len(t.out) <= room
            /\ t.read < Len(input) => Len(t.out) = room
<1> DEFINE V == TransferState(Len(input))
           Fits(k, x) == Len(x.out) <= k /\ (x.read < Len(input) => Len(x.out) = k)
           H == [k \in Nat |-> {x \in V : Fits(k, x)}]
<1>1. Start(p) \in V /\ Fits(0, Start(p))
  BY DEF Start, TransferState
<1>2. ASSUME NEW k \in Nat, NEW x \in V, Fits(k, x)
      PROVE  Round(input, x) \in V /\ Fits(k + 1, Round(input, x))
  <2>1. Round(input, x) \in V
    BY RoundTypes
  <2>2. x.read \in 0 .. Len(input) /\ x.out \in Seq(Byte) /\ Len(x.out) \in Nat /\ Len(input) \in Nat
    BY DEF TransferState
  <2>3. CASE x.read = Len(input)
    BY <1>2, <2>1, <2>2, <2>3 DEF Round
  <2>4. CASE x.read # Len(input)
    <3> DEFINE c == IF needs_stuffing(x.p) THEN "." ELSE input[x.read + 1]
    <3>1. c \in Byte
      <4>1. x.read + 1 \in 1 .. Len(input)
        BY <2>2, <2>4
      <4>2. QED
        BY <4>1 DEF Byte
    <3>2. Round(input, x).out = Append(x.out, c)
      BY <2>4 DEF Round
    <3> HIDE DEF c
    <3>3. Len(Round(input, x).out) = Len(x.out) + 1
      BY <2>2, <3>1, <3>2
    <3>4. x.read < Len(input)
      BY <2>2, <2>4
    <3>5. QED
      BY <1>2, <2>1, <2>2, <3>3, <3>4
  <2>5. QED
    BY <2>3, <2>4
<1>3. Start(p) \in H[0] /\ \A k \in Nat : \A x \in H[k] : Round(input, x) \in H[k + 1]
  <2> HIDE DEF V, Fits
  <2>1. QED
    BY <1>1, <1>2
<1>4. transfer_bytes(input, room, p) \in H[room]
  <2> HIDE DEF H
  <2>1. QED
    BY <1>3, TransferKeeps
<1>5. QED
  BY <1>4

(* A byte added to the second of two sequences.                            *)
LEMMA ConcatAppend ==
  ASSUME NEW s \in Seq(Byte), NEW t \in Seq(Byte), NEW b \in Byte
  PROVE  s \o Append(t, b) = Append(s \o t, b)
<1> DEFINE o == <<b>>
<1>1. o \in Seq(Byte) /\ Append(t, b) = t \o o
  BY AppendIsConcat
<1>2. s \o t \in Seq(Byte) /\ Append(s \o t, b) = (s \o t) \o o
  BY AppendIsConcat, ConcatProperties
<1> HIDE DEF o
<1>3. (s \o t) \o o = s \o (t \o o)
  <2>1. o \in Seq(Byte)
    BY <1>1
  <2>2. QED
    BY <2>1, ConcatBytes, SMTT(30)
<1>4. QED
  BY <1>1, <1>2, <1>3

(* and what it writes carries what it reads.                               *)
LEMMA TransferCarries ==
  ASSUME NEW f \in Seq(Byte), f # <<>> => f[1] # ".", NEW m \in Nat,
         NEW input \in Seq(Byte), m + Len(input) <= Len(f),
         \A j \in 1 .. Len(input) : input[j] = f[m + j],
         NEW s \in Seq(Byte), NEW p \in StuffingParser, Mode(s, m, p, f),
         NEW room \in Nat
  PROVE  LET t == transfer_bytes(input, room, p)
         IN Mode(s \o t.out, m + t.read, t.p, f)
<1> DEFINE V == TransferState(Len(input))
           Good(x) == Mode(s \o x.out, m + x.read, x.p, f)
           H == [k \in Nat |-> {x \in V : Good(x)}]
<1>1. Start(p) \in V /\ Good(Start(p))
  <2>1. s \o <<>> = s /\ m + 0 = m
    OBVIOUS
  <2>2. Start(p).out = <<>> /\ Start(p).read = 0 /\ Start(p).p = p
    BY DEF Start
  <2>3. Start(p) \in V
    BY DEF Start, TransferState
  <2>4. QED
    BY <2>1, <2>2, <2>3
<1>2. ASSUME NEW x \in V, Good(x)
      PROVE  Round(input, x) \in V /\ Good(Round(input, x))
  <2>1. Round(input, x) \in V
    BY RoundTypes
  <2>2. /\ x.read \in 0 .. Len(input) /\ x.out \in Seq(Byte) /\ x.p \in StuffingParser
        /\ Len(input) \in Nat /\ Len(f) \in Nat
    BY DEF TransferState
  <2>3. CASE x.read = Len(input)
    BY <1>2, <2>1, <2>3 DEF Round
  <2>4. CASE x.read # Len(input)
    <3> DEFINE k == m + x.read
               w == s \o x.out
               b == input[x.read + 1]
               c == IF needs_stuffing(x.p) THEN "." ELSE b
    <3>1. /\ x.read + 1 \in 1 .. Len(input) /\ k \in Nat /\ k < Len(f) /\ m + (x.read + 1) = k + 1
          /\ f # <<>> /\ w \in Seq(Byte)
      <4>1. x.read + 1 \in 1 .. Len(input) /\ k \in Nat /\ k < Len(f) /\ m + (x.read + 1) = k + 1
        <5> DEFINE a == x.read
                   d == Len(input)
                   e == Len(f)
        <5>1. a \in 0 .. d /\ a # d /\ d \in Nat /\ e \in Nat /\ m + d <= e
          BY <2>2, <2>4
        <5> HIDE DEF a, d, e
        <5>2. a + 1 \in 1 .. d /\ m + a \in Nat /\ m + a < e /\ m + (a + 1) = (m + a) + 1
          BY <5>1
        <5>3. QED
          BY <5>2 DEF a, d, e
      <4>2. f # <<>>
        BY <4>1
      <4>3. w \in Seq(Byte)
        BY <2>2
      <4>4. QED
        BY <4>1, <4>2, <4>3
    <3>2. b = f[k + 1] /\ b \in Byte /\ c \in Byte
      <4>1. b = f[m + (x.read + 1)]
        BY <3>1
      <4>2. b = f[k + 1]
        <5> HIDE DEF b, k
        <5>1. QED
          BY <3>1, <4>1
      <4>3. b \in Byte
        BY <3>1
      <4>4. c \in Byte
        <5> HIDE DEF b
        <5>1. QED
          BY <4>3 DEF Byte
      <4>5. QED
        BY <4>2, <4>3, <4>4
    <3>3. /\ Round(input, x).out = Append(x.out, c)
          /\ Round(input, x).read = IF needs_stuffing(x.p) THEN x.read ELSE x.read + 1
          /\ Round(input, x).p = stuffing_consume(x.p, b)
      BY <2>4 DEF Round
    <3>4. s \o Append(x.out, c) = Append(w, c)
      BY <2>2, <3>2, ConcatAppend
    <3> HIDE DEF w, b, k
    <3>5. Mode(w, k, x.p, f)
      BY <1>2 DEF w, k
    <3>6. /\ needs_stuffing(x.p) => Mode(Append(w, "."), k, stuffing_consume(x.p, b), f)
          /\ ~needs_stuffing(x.p) => Mode(Append(w, b), k + 1, stuffing_consume(x.p, b), f)
      BY <2>2, <3>1, <3>2, <3>5, ModeStep
    <3>7. CASE needs_stuffing(x.p)
      <4>1. c = "." /\ Round(input, x).read = x.read
        BY <3>3, <3>7
      <4> HIDE DEF c
      <4>2. QED
        BY <2>1, <3>3, <3>4, <3>6, <3>7, <4>1 DEF k
    <3>8. CASE ~needs_stuffing(x.p)
      <4>1. c = b /\ Round(input, x).read = x.read + 1
        BY <3>3, <3>8
      <4> HIDE DEF c
      <4>2. QED
        BY <2>1, <3>1, <3>3, <3>4, <3>6, <3>8, <4>1
    <3>9. QED
      BY <3>7, <3>8
  <2>5. QED
    BY <2>3, <2>4
<1>3. Start(p) \in H[0] /\ \A k \in Nat : \A x \in H[k] : Round(input, x) \in H[k + 1]
  <2> HIDE DEF V, Good
  <2>1. QED
    BY <1>1, <1>2
<1>4. transfer_bytes(input, room, p) \in H[room]
  <2> HIDE DEF H
  <2>1. QED
    BY <1>3, TransferKeeps
<1>5. QED
  BY <1>4

-----------------------------------------------------------------------------
(* The buffers.                                                            *)

(* A queue of bytes that fits its buffer.                                  *)
QueueOf(q, size) == q \in [gap : Nat, bytes : Seq(Byte)] /\ q.gap + Len(q.bytes) <= size

(* What lies between two positions of a sequence.                          *)
LEMMA Slice ==
  ASSUME NEW s \in Seq(Byte), NEW a \in Nat, NEW b \in Nat, a <= b, b <= Len(s)
  PROVE  /\ SubSeq(s, a + 1, b) \in Seq(Byte)
         /\ Len(SubSeq(s, a + 1, b)) = b - a
         /\ \A j \in 1 .. b - a : SubSeq(s, a + 1, b)[j] = s[a + j]
<1>1. a + 1 \in Int /\ b \in Int /\ \A i \in a + 1 .. b : s[i] \in Byte
  OBVIOUS
<1>2. /\ SubSeq(s, a + 1, b) \in Seq(Byte)
      /\ Len(SubSeq(s, a + 1, b)) = IF a + 1 <= b THEN b - (a + 1) + 1 ELSE 0
      /\ \A j \in 1 .. b - (a + 1) + 1 : SubSeq(s, a + 1, b)[j] = s[(a + 1) + j - 1]
  BY <1>1, SubSeqProperties
<1>3. /\ b - (a + 1) + 1 = b - a
      /\ (IF a + 1 <= b THEN b - (a + 1) + 1 ELSE 0) = b - a
      /\ \A j \in 1 .. b - a : (a + 1) + j - 1 = a + j
  OBVIOUS
<1>4. QED
  BY <1>2, <1>3

(* The room in it,                                                         *)
LEMMA QueueRoom ==
  ASSUME NEW size \in Nat, NEW q, QueueOf(q, size)
  PROVE  Q!Room(q, size) \in Nat
<1>1. q.gap \in Nat /\ Len(q.bytes) \in Nat /\ q.gap + Len(q.bytes) <= size
  BY DEF QueueOf
<1>2. QED
  BY <1>1 DEF Q!Room

(* what appending makes of it,                                             *)
LEMMA QueueAppend ==
  ASSUME NEW size \in Nat, NEW q, QueueOf(q, size), NEW s \in Seq(Byte), Len(s) <= Q!Room(q, size)
  PROVE  LET r == Q!Append_(q, s)
         IN QueueOf(r, size) /\ r.bytes = q.bytes \o s /\ Len(r.bytes) = Len(q.bytes) + Len(s)
<1> DEFINE g == q.gap
           b == q.bytes
<1>1. g \in Nat /\ b \in Seq(Byte) /\ q = [gap |-> g, bytes |-> b] /\ g + Len(b) <= size
  BY DEF QueueOf
<1>2. Len(s) <= size - (g + Len(b))
  BY DEF Q!Room
<1> HIDE DEF g, b
<1> DEFINE c == b \o s
<1>3. Q!Append_(q, s) = [gap |-> g, bytes |-> c]
  <2>1. Q!Append_(q, s) = [q EXCEPT !.bytes = c]
    BY <1>1 DEF Q!Append_
  <2> HIDE DEF c
  <2>2. QED
    BY <1>1, <2>1
<1>4. c \in Seq(Byte) /\ Len(c) = Len(b) + Len(s) /\ Len(b) \in Nat /\ Len(s) \in Nat
  BY <1>1, ConcatProperties
<1> HIDE DEF c
<1>5. g + Len(c) <= size
  BY <1>1, <1>2, <1>4
<1>6. QueueOf([gap |-> g, bytes |-> c], size)
  BY <1>1, <1>4, <1>5 DEF QueueOf
<1>7. QED
  BY <1>3, <1>4, <1>6 DEF c, b

(* and what reading from it does.                                          *)
LEMMA QueueAdv ==
  ASSUME NEW size \in Nat, NEW q, QueueOf(q, size), NEW n \in 0 .. Len(q.bytes)
  PROVE  LET r == Q!ReadAdv(q, n)
         IN /\ QueueOf(r, size) /\ Len(r.bytes) = Len(q.bytes) - n
            /\ r.bytes = SubSeq(q.bytes, n + 1, Len(q.bytes))
            /\ \A j \in 1 .. Len(r.bytes) : r.bytes[j] = q.bytes[n + j]
<1> DEFINE g == q.gap
           b == q.bytes
           d == SubSeq(b, n + 1, Len(b))
<1>1. g \in Nat /\ b \in Seq(Byte) /\ Len(b) \in Nat /\ g + Len(b) <= size /\ n \in 0 .. Len(b)
  BY DEF QueueOf
<1>2. Q!ReadAdv(q, n) = IF n = Len(b) THEN [gap |-> 0, bytes |-> <<>>] ELSE [gap |-> g + n, bytes |-> d]
  BY DEF Q!ReadAdv, Q!Empty
<1>3. d \in Seq(Byte) /\ Len(d) = Len(b) - n /\ \A j \in 1 .. Len(d) : d[j] = b[n + j]
  <2> HIDE DEF b
  <2>1. n \in Nat /\ n <= Len(b)
    BY <1>1
  <2>2. QED
    BY <1>1, <2>1, Slice
<1> HIDE DEF g, b, d
<1>4. CASE n = Len(b)
  <2>1. Len(d) = 0 /\ d = <<>>
    BY <1>1, <1>3, <1>4
  <2>2. Q!ReadAdv(q, n) = [gap |-> 0, bytes |-> d]
    BY <1>2, <1>4, <2>1
  <2>3. QueueOf([gap |-> 0, bytes |-> d], size)
    BY <1>3, <2>1 DEF QueueOf
  <2>4. QED
    BY <1>3, <2>2, <2>3 DEF b, d
<1>5. CASE n # Len(b)
  <2>1. g + n \in Nat /\ (g + n) + Len(d) <= size
    BY <1>1, <1>3
  <2>2. QueueOf([gap |-> g + n, bytes |-> d], size)
    BY <1>3, <2>1 DEF QueueOf
  <2>3. QED
    BY <1>2, <1>3, <1>5, <2>2 DEF b, d
<1>6. QED
  BY <1>4, <1>5

-----------------------------------------------------------------------------
(* The invariant.                                                          *)

(* How much of the file has left the retrieve buffer.                      *)
Moved == bytes_read - Len(retrieve_buffer.bytes)

(* The types of the variables, and that the buffers are never overrun.     *)
StreamTypes ==
  /\ file \in Seq(Byte)
  /\ bytes_read \in 0 .. Len(file)
  /\ read_failed \in BOOLEAN
  /\ QueueOf(retrieve_buffer, RetrieveSize)
  /\ QueueOf(write_buffer, WriteSize)
  /\ finished_reading \in BOOLEAN
  /\ finished \in BOOLEAN
  /\ parser \in StuffingParser
  /\ sent \in Seq(Byte)

(* The retrieve buffer holds what was read and not yet moved.              *)
HoldsTheRest ==
  /\ Moved \in Nat
  /\ \A j \in 1 .. Len(retrieve_buffer.bytes) : retrieve_buffer.bytes[j] = file[Moved + j]

(* The file is finished when nothing is left to read, or nothing can be,   *)
(* the answer when nothing is left to move either.                         *)
ReadsToTheEnd ==
  /\ finished_reading => bytes_read = Len(file) \/ read_failed
  /\ finished => finished_reading /\ retrieve_buffer.bytes = <<>>

(* All that was written, sent or not.                                      *)
Stream == sent \o write_buffer.bytes

(* It carries what has left the retrieve buffer, and then all that was     *)
(* read of the file.                                                       *)
StreamCarries ==
  IF finished
  THEN DotsAreInside(part) => Complete(Stream, part)
  ELSE (part # <<>> => part[1] # ".") => Mode(Stream, Moved, parser, part)

(* The inductive invariant.                                                *)
StreamInv == StreamTypes /\ HoldsTheRest /\ ReadsToTheEnd /\ StreamCarries

(* What was read of the file is as long as bytes_read says.                *)
LEMMA PartIs ==
  ASSUME file \in Seq(Byte), bytes_read \in 0 .. Len(file)
  PROVE  /\ part \in Seq(Byte) /\ Len(part) = bytes_read
         /\ \A i \in 1 .. bytes_read : part[i] = file[i]
         /\ bytes_read = Len(file) => part = file
<1>1. /\ part \in Seq(Byte) /\ Len(part) = bytes_read
      /\ \A i \in 1 .. bytes_read : part[i] = file[i]
  BY DEF part
<1> HIDE DEF part
<1>2. bytes_read = Len(file) => part = file
  BY <1>1, SeqEqual
<1>3. QED
  BY <1>1, <1>2

(* It holds at first.                                                      *)
LEMMA StreamInit == Init => StreamInv
<1> SUFFICES ASSUME Init PROVE StreamInv
  OBVIOUS
<1>1. /\ file \in Seq(Byte) /\ bytes_read = 0 /\ ~read_failed /\ read_failed \in BOOLEAN
      /\ ~finished_reading /\ finished_reading \in BOOLEAN
      /\ ~finished /\ finished \in BOOLEAN
      /\ retrieve_buffer = [gap |-> 0, bytes |-> <<>>] /\ write_buffer = [gap |-> 0, bytes |-> <<>>]
      /\ parser = init_stuffing_parser /\ sent = <<>>
  BY RetrievalAssumption DEF Init, Q!Empty
<1>2. QueueOf([gap |-> 0, bytes |-> <<>>], RetrieveSize) /\ QueueOf([gap |-> 0, bytes |-> <<>>], WriteSize)
  BY RetrievalAssumption DEF QueueOf
<1>3. init_stuffing_parser \in StuffingParser
  BY DEF init_stuffing_parser, StuffingParser, Last3
<1>4. StreamTypes
  BY <1>1, <1>2, <1>3 DEF StreamTypes
<1>5. Moved = 0 /\ Stream = <<>> /\ retrieve_buffer.bytes = <<>>
  <2>1. retrieve_buffer.bytes = <<>> /\ write_buffer.bytes = <<>>
    BY <1>1
  <2>2. Moved = 0
    <3>1. Len(retrieve_buffer.bytes) = 0
      BY <2>1
    <3>2. bytes_read = 0
      BY <1>1
    <3>3. QED
      BY <3>1, <3>2 DEF Moved
  <2>3. Stream = <<>>
    BY <1>1, <2>1 DEF Stream
  <2>4. QED
    BY <2>1, <2>2, <2>3
<1>6. Mode(Stream, Moved, parser, part)
  <2>1. Len(file) \in Nat /\ bytes_read \in 0 .. Len(file)
    BY <1>1
  <2>2. part \in Seq(Byte)
    BY <1>1, <2>1, PartIs
  <2>3. QED
    BY <1>1, <1>5, <2>2, ModeStart
<1>7. QED
  BY <1>1, <1>4, <1>5, <1>6 DEF StreamInv, HoldsTheRest, ReadsToTheEnd, StreamCarries

(* The lesser of two.                                                      *)
LEMMA LesserOf == ASSUME NEW a \in Nat, NEW b \in Nat
                  PROVE Min({a, b}) = IF a <= b THEN a ELSE b
<1>1. CASE a <= b
  <2>1. a \in {a, b} /\ \A y \in {a, b} : a <= y
    BY <1>1
  <2>2. \A x \in {a, b} : (\A y \in {a, b} : x <= y) => x = a
    BY <1>1
  <2>3. QED
    BY <1>1, <2>1, <2>2 DEF Min
<1>2. CASE ~(a <= b)
  <2>1. b \in {a, b} /\ \A y \in {a, b} : b <= y
    BY <1>2
  <2>2. \A x \in {a, b} : (\A y \in {a, b} : x <= y) => x = b
    BY <1>2
  <2>3. QED
    BY <1>2, <2>1, <2>2 DEF Min
<1>3. QED
  BY <1>1, <1>2

(* Reading from the file moves nothing.                                    *)
LEMMA ReadStep == StreamInv /\ mail_read_handler => StreamInv'
<1> SUFFICES ASSUME StreamInv, mail_read_handler PROVE StreamInv'
  OBVIOUS
<1>0. CASE /\ ~finished /\ finished_reading' = TRUE /\ read_failed' = TRUE
           /\ UNCHANGED <<bytes_read, retrieve_buffer, file, parser, write_buffer, sent, finished>>
  <2>1. Moved' = Moved /\ Stream' = Stream /\ part' = part
    BY <1>0 DEF Moved, Stream, part
  <2>2. StreamTypes' /\ HoldsTheRest' /\ ReadsToTheEnd'
    BY <1>0, <2>1 DEF StreamInv, StreamTypes, HoldsTheRest, ReadsToTheEnd
  <2>3. StreamCarries'
    BY <1>0, <2>1 DEF StreamInv, StreamCarries
  <2>4. QED
    BY <2>2, <2>3 DEF StreamInv
<1> DEFINE room == Q!Room(retrieve_buffer, RetrieveSize)
           unread == Len(file) - bytes_read
           n == Min({room, unread})
           b == retrieve_buffer.bytes
           s == SubSeq(file, bytes_read + 1, bytes_read + n)
<1>2. SUFFICES ASSUME ~finished, ~finished_reading, room > 0,
                      bytes_read' = bytes_read + n,
                      retrieve_buffer' = Q!Append_(retrieve_buffer, s),
                      finished_reading' = (n = 0),
                      UNCHANGED <<file, read_failed, parser, write_buffer, sent, finished>>
               PROVE  StreamInv'
  BY <1>0 DEF mail_read_handler, buffer_can_write
<1>1. /\ StreamTypes /\ HoldsTheRest /\ ReadsToTheEnd /\ StreamCarries
      /\ file \in Seq(Byte) /\ Len(file) \in Nat /\ bytes_read \in 0 .. Len(file)
      /\ QueueOf(retrieve_buffer, RetrieveSize)
  BY DEF StreamInv, StreamTypes
<1>3. room \in Nat /\ unread \in Nat
  BY <1>1, QueueRoom, RetrievalAssumption
<1>4. n = IF room <= unread THEN room ELSE unread
  <2> HIDE DEF room, unread
  <2>1. QED
    BY <1>3, LesserOf
<1> HIDE DEF room, n
<1>5. n \in Nat /\ n <= room /\ bytes_read + n \in 0 .. Len(file) /\ (n = 0 => bytes_read = Len(file))
  BY <1>1, <1>2, <1>3, <1>4
<1>6. s \in Seq(Byte) /\ Len(s) = n /\ \A j \in 1 .. n : s[j] = file[bytes_read + j]
  <2> DEFINE k == bytes_read
             m == bytes_read + n
  <2>1. k \in Nat /\ m \in Nat /\ k <= m /\ m <= Len(file) /\ m - k = n
    BY <1>1, <1>5
  <2> HIDE DEF k, m
  <2>2. /\ SubSeq(file, k + 1, m) \in Seq(Byte)
        /\ Len(SubSeq(file, k + 1, m)) = m - k
        /\ \A j \in 1 .. m - k : SubSeq(file, k + 1, m)[j] = file[k + j]
    BY <1>1, <2>1, Slice
  <2>3. QED
    BY <2>1, <2>2 DEF k, m
<1> HIDE DEF s
<1>7. /\ QueueOf(retrieve_buffer', RetrieveSize) /\ retrieve_buffer'.bytes = b \o s
      /\ Len(retrieve_buffer'.bytes) = Len(b) + n
  <2> DEFINE r == Q!Append_(retrieve_buffer, s)
  <2>1. Len(s) <= Q!Room(retrieve_buffer, RetrieveSize) /\ RetrieveSize \in Nat
    BY <1>5, <1>6, RetrievalAssumption DEF room
  <2>2. QueueOf(r, RetrieveSize) /\ r.bytes = b \o s /\ Len(r.bytes) = Len(b) + Len(s)
    <3>1. s \in Seq(Byte) /\ QueueOf(retrieve_buffer, RetrieveSize)
      BY <1>1, <1>6
    <3>2. QED
      BY <2>1, <3>1, QueueAppend
  <2> HIDE DEF r
  <2>3. retrieve_buffer' = r
    BY <1>2 DEF r
  <2>4. QED
    BY <1>6, <2>2, <2>3
<1>8. StreamTypes'
  BY <1>1, <1>2, <1>5, <1>7 DEF StreamTypes
<1>9. b \in Seq(Byte) /\ Len(b) \in Nat /\ Moved = bytes_read - Len(b) /\ Moved \in Nat
  BY <1>1 DEF QueueOf, HoldsTheRest, Moved
<1>10. Moved' = Moved
  <2>1. Moved' = (bytes_read + n) - (Len(b) + n)
    BY <1>2, <1>7 DEF Moved
  <2>2. QED
    BY <1>1, <1>5, <1>9, <2>1
<1>11. HoldsTheRest'
  <2>1. ASSUME NEW j \in 1 .. Len(b) + n PROVE (b \o s)[j] = file[Moved + j]
    <3>1. (b \o s)[j] = IF j <= Len(b) THEN b[j] ELSE s[j - Len(b)]
      BY <1>6, <1>9, ConcatProperties
    <3>2. CASE j <= Len(b)
      <4>1. j \in 1 .. Len(b)
        BY <3>2
      <4>2. QED
        BY <1>1, <3>1, <3>2, <4>1 DEF HoldsTheRest
    <3>3. CASE ~(j <= Len(b))
      <4>1. j - Len(b) \in 1 .. n /\ bytes_read + (j - Len(b)) = Moved + j
        BY <1>1, <1>5, <1>9, <3>3
      <4>2. QED
        BY <1>6, <3>1, <3>3, <4>1
    <3>4. QED
      BY <3>2, <3>3
  <2>2. QED
    BY <1>2, <1>7, <1>9, <1>10, <2>1 DEF HoldsTheRest
<1>12. ReadsToTheEnd'
  <2>1. finished_reading' => bytes_read' = Len(file)
    <3>1. finished_reading' => n = 0
      BY <1>2
    <3>2. n = 0 => bytes_read + n = Len(file)
      BY <1>1, <1>5
    <3>3. QED
      BY <1>2, <3>1, <3>2
  <2>2. QED
    BY <1>2, <2>1 DEF ReadsToTheEnd
<1>13. StreamCarries'
  <2>1. ~finished' /\ Stream' = Stream /\ parser' = parser
    BY <1>2 DEF Stream
  <2>2. /\ part \in Seq(Byte) /\ Len(part) = bytes_read
        /\ \A i \in 1 .. bytes_read : part[i] = file[i]
    BY <1>1, PartIs
  <2>3. /\ part' \in Seq(Byte) /\ Len(part') = bytes_read + n
        /\ \A i \in 1 .. bytes_read + n : part'[i] = file[i]
    <3>1. part' = SubSeq(file, 1, bytes_read + n)
      BY <1>2 DEF part
    <3>2. QED
      BY <1>1, <1>5, <3>1
  <2>4. SUFFICES ASSUME part' # <<>> => part'[1] # "." PROVE Mode(Stream, Moved, parser, part')
    BY <1>10, <2>1 DEF StreamCarries
  <2>5. part # <<>> => part[1] # "."
    <3>1. part # <<>> => 1 \in 1 .. bytes_read /\ 1 \in 1 .. bytes_read + n /\ part' # <<>>
      BY <1>1, <1>5, <2>2, <2>3
    <3>2. QED
      BY <2>2, <2>3, <2>4, <3>1
  <2>6. Mode(Stream, Moved, parser, part)
    BY <1>1, <1>2, <2>5 DEF StreamCarries
  <2>7. /\ Moved \in 0 .. Len(part) /\ Len(part) <= Len(part')
        /\ \A i \in 1 .. Len(part) : part[i] = part'[i]
    <3>1. Moved \in 0 .. bytes_read
      BY <1>1, <1>9
    <3>2. bytes_read <= bytes_read + n /\ \A i \in 1 .. bytes_read : i \in 1 .. bytes_read + n
      BY <1>1, <1>5
    <3>3. QED
      BY <2>2, <2>3, <3>1, <3>2
  <2>8. QED
    BY <2>2, <2>3, <2>6, <2>7, ModeExtends
<1>14. QED
  BY <1>8, <1>11, <1>12, <1>13 DEF StreamInv

(* Moving bytes and ending the answer keeps the invariant; w is the write  *)
(* buffer and s what was sent when it begins.                              *)
LEMMA RetrieveStep ==
  ASSUME StreamInv, ~finished, NEW w, QueueOf(w, WriteSize), retrieve_mail(w),
         sent' \in Seq(Byte), sent' \o w.bytes = Stream,
         UNCHANGED <<file, bytes_read, read_failed, finished_reading>>
  PROVE  StreamInv'
<1> DEFINE input == retrieve_buffer.bytes
           room == Q!Room(w, WriteSize)
           t == transfer_bytes(input, room, parser)
           w1 == Q!Append_(w, t.out)
           e == terminator(t.p)
           ends == finished_reading /\ Len(e) <= Q!Room(w1, WriteSize)
           v == sent' \o w.bytes
<1>1. /\ StreamTypes /\ HoldsTheRest /\ ReadsToTheEnd /\ StreamCarries
      /\ file \in Seq(Byte) /\ Len(file) \in Nat /\ bytes_read \in 0 .. Len(file)
      /\ QueueOf(retrieve_buffer, RetrieveSize) /\ parser \in StuffingParser
      /\ finished_reading \in BOOLEAN
  BY DEF StreamInv, StreamTypes
<1>2. /\ retrieve_buffer' = Q!ReadAdv(retrieve_buffer, t.read)
      /\ parser' = t.p
      /\ write_buffer' = IF ends THEN Q!Append_(w1, e) ELSE w1
      /\ finished' = ends
  BY DEF retrieve_mail
<1>3. /\ input \in Seq(Byte) /\ Len(input) \in Nat /\ room \in Nat
      /\ Moved = bytes_read - Len(input) /\ Moved \in Nat /\ w.bytes \in Seq(Byte)
      /\ RetrieveSize \in Nat /\ WriteSize \in Nat
  <2>1. RetrieveSize \in Nat /\ WriteSize \in Nat
    BY RetrievalAssumption
  <2>2. room \in Nat
    BY <2>1, QueueRoom
  <2>3. input \in Seq(Byte) /\ Len(input) \in Nat /\ w.bytes \in Seq(Byte)
    BY <1>1 DEF QueueOf
  <2>4. Moved = bytes_read - Len(input) /\ Moved \in Nat
    BY <1>1 DEF HoldsTheRest, Moved
  <2>5. QED
    BY <2>1, <2>2, <2>3, <2>4
<1>4. /\ t \in TransferState(Len(input)) /\ Len(t.out) <= room
      /\ t.read < Len(input) => Len(t.out) = room
  BY <1>1, <1>3, TransferFits
<1>5. /\ t.read \in 0 .. Len(input) /\ t.out \in Seq(Byte) /\ t.p \in StuffingParser
      /\ Len(t.out) \in Nat
  BY <1>4 DEF TransferState
<1>0. /\ part \in Seq(Byte) /\ Len(part) = bytes_read
      /\ \A i \in 1 .. bytes_read : part[i] = file[i]
      /\ part' = part
  <2>1. part' = part
    BY DEF part
  <2>2. QED
    BY <1>1, <2>1, PartIs
<1>6. (part # <<>> => part[1] # ".") => Mode(v \o t.out, Moved + t.read, t.p, part)
  <2> SUFFICES ASSUME part # <<>> => part[1] # "." PROVE Mode(v \o t.out, Moved + t.read, t.p, part)
    OBVIOUS
  <2>1. Mode(v, Moved, parser, part)
    BY <1>1 DEF StreamCarries
  <2>2. v \in Seq(Byte)
    <3>1. w.bytes \in Seq(Byte)
      BY <1>3
    <3>2. QED
      BY <3>1, ConcatBytes
  <2>3. Moved + Len(input) <= Len(part) /\ \A j \in 1 .. Len(input) : input[j] = part[Moved + j]
    <3>1. \A j \in 1 .. Len(input) : input[j] = file[Moved + j]
      BY <1>1 DEF HoldsTheRest
    <3>2. Moved + Len(input) = bytes_read /\ \A j \in 1 .. Len(input) : Moved + j \in 1 .. bytes_read
      <4> HIDE DEF input, Moved
      <4>1. QED
        BY <1>1, <1>3
    <3>3. QED
      BY <1>0, <3>1, <3>2
  <2> HIDE DEF input, room, v, Moved
  <2>4. QED
    BY <1>0, <1>1, <1>3, <2>1, <2>2, <2>3, TransferCarries
<1> HIDE DEF t
<1>7. /\ QueueOf(retrieve_buffer', RetrieveSize)
      /\ Len(retrieve_buffer'.bytes) = Len(input) - t.read
      /\ \A j \in 1 .. Len(retrieve_buffer'.bytes) : retrieve_buffer'.bytes[j] = input[t.read + j]
  <2> DEFINE k == t.read
             r == Q!ReadAdv(retrieve_buffer, k)
  <2>1. k \in 0 .. Len(retrieve_buffer.bytes) /\ RetrieveSize \in Nat /\ QueueOf(retrieve_buffer, RetrieveSize)
    BY <1>1, <1>3, <1>5
  <2> HIDE DEF k
  <2>2. /\ QueueOf(r, RetrieveSize) /\ Len(r.bytes) = Len(retrieve_buffer.bytes) - k
        /\ \A j \in 1 .. Len(r.bytes) : r.bytes[j] = retrieve_buffer.bytes[k + j]
    BY <2>1, QueueAdv
  <2> HIDE DEF r
  <2>3. retrieve_buffer' = r
    BY <1>2 DEF r, k
  <2>4. QED
    BY <2>2, <2>3 DEF k
<1>8. /\ QueueOf(w1, WriteSize) /\ w1.bytes = w.bytes \o t.out
      /\ Q!Room(w1, WriteSize) = room - Len(t.out)
  <2>1. QueueOf(w1, WriteSize) /\ w1.bytes = w.bytes \o t.out /\ Len(w1.bytes) = Len(w.bytes) + Len(t.out)
    <3> DEFINE y == t.out
               r == Q!Append_(w, y)
    <3>1. y \in Seq(Byte) /\ Len(y) <= Q!Room(w, WriteSize) /\ WriteSize \in Nat
      BY <1>3, <1>4, <1>5
    <3> HIDE DEF y
    <3>2. QueueOf(r, WriteSize) /\ r.bytes = w.bytes \o y /\ Len(r.bytes) = Len(w.bytes) + Len(y)
      BY <3>1, QueueAppend
    <3>3. w1 = r
      BY DEF y
    <3> HIDE DEF r, w1
    <3>4. QED
      BY <3>2, <3>3 DEF y
  <2>2. w1.gap = w.gap
    <3>1. w1 = [w EXCEPT !.bytes = @ \o t.out] /\ w \in [gap : Nat, bytes : Seq(Byte)]
      BY DEF Q!Append_, QueueOf
    <3> HIDE DEF w1
    <3>2. QED
      BY <3>1
  <2>3. w.gap \in Nat /\ Len(w.bytes) \in Nat
    BY DEF QueueOf
  <2> HIDE DEF w1
  <2>4. Q!Room(w1, WriteSize) = room - Len(t.out)
    <3> DEFINE a == Len(w.bytes)
               c == Len(w1.bytes)
               d == Len(t.out)
    <3>1. Q!Room(w1, WriteSize) = WriteSize - (w.gap + c) /\ room = WriteSize - (w.gap + a)
      BY <2>2 DEF Q!Room
    <3>2. c = a + d /\ a \in Nat /\ d \in Nat /\ w.gap \in Nat /\ WriteSize \in Nat
      BY <1>3, <1>5, <2>1, <2>3
    <3> HIDE DEF a, c, d, room
    <3>3. Q!Room(w1, WriteSize) = room - d
      BY <3>1, <3>2
    <3>4. QED
      BY <3>3 DEF d
  <2>5. QED
    BY <2>1, <2>4
<1>9. e \in Seq(Byte) /\ Len(e) >= 3
  <2>1. {".", "\r", "\n"} \subseteq Byte
    BY DEF Byte
  <2>2. QED
    BY <2>1 DEF terminator
<1> HIDE DEF w1, e
<1>10. ends => t.read = Len(input) /\ Len(e) <= Q!Room(w1, WriteSize)
  <2> HIDE DEF input, room
  <2>1. QED
    BY <1>3, <1>4, <1>5, <1>8, <1>9
<1>11. /\ QueueOf(write_buffer', WriteSize)
       /\ write_buffer'.bytes = IF ends THEN w1.bytes \o e ELSE w1.bytes
  <2> DEFINE r == Q!Append_(w1, e)
  <2>1. e \in Seq(Byte) /\ QueueOf(w1, WriteSize) /\ WriteSize \in Nat
    BY <1>3, <1>8, <1>9
  <2>2. Len(e) <= Q!Room(w1, WriteSize) => QueueOf(r, WriteSize) /\ r.bytes = w1.bytes \o e
    BY <2>1, QueueAppend
  <2>3. write_buffer' = IF ends THEN r ELSE w1
    BY <1>2
  <2> HIDE DEF r
  <2>4. QED
    BY <1>10, <2>1, <2>2, <2>3
<1>12. Moved' = Moved + t.read /\ Moved' \in Nat
  <2>1. Moved' = bytes_read - (Len(input) - t.read)
    BY <1>7 DEF Moved
  <2>2. Moved = bytes_read - Len(input) /\ Moved \in Nat /\ Len(input) \in Nat
    BY <1>3
  <2>3. bytes_read \in Nat /\ t.read \in Nat
    <3>1. Len(file) \in Nat /\ bytes_read \in 0 .. Len(file)
      BY <1>1
    <3>2. t.read \in 0 .. Len(input) /\ Len(input) \in Nat
      BY <1>3, <1>5
    <3> HIDE DEF input
    <3>3. QED
      BY <3>1, <3>2
  <2> HIDE DEF input, Moved
  <2>4. QED
    BY <2>1, <2>2, <2>3
<1>13. StreamTypes'
  <2>1. finished' \in BOOLEAN
    BY <1>2
  <2>2. QED
    BY <1>1, <1>2, <1>5, <1>7, <1>11, <2>1 DEF StreamTypes
<1>14. HoldsTheRest'
  <2>1. ASSUME NEW j \in 1 .. Len(retrieve_buffer'.bytes)
        PROVE  retrieve_buffer'.bytes[j] = file[Moved' + j]
    <3>1. t.read + j \in 1 .. Len(input) /\ Moved + (t.read + j) = Moved' + j
      <4> DEFINE a == t.read
                 c == Len(input)
                 d == Len(retrieve_buffer'.bytes)
      <4>1. a \in 0 .. c /\ c \in Nat /\ d = c - a /\ j \in 1 .. d
        BY <1>3, <1>5, <1>7
      <4>2. Moved \in Nat /\ Moved' = Moved + a
        BY <1>3, <1>12
      <4> HIDE DEF a, c, d, Moved
      <4>3. a + j \in 1 .. c /\ Moved + (a + j) = Moved' + j
        BY <4>1, <4>2
      <4>4. QED
        BY <4>3 DEF a, c
    <3>2. input[t.read + j] = file[Moved + (t.read + j)]
      BY <1>1, <3>1 DEF HoldsTheRest
    <3>3. QED
      BY <1>7, <3>1, <3>2
  <2>2. QED
    BY <1>12, <2>1 DEF HoldsTheRest
<1>15. ReadsToTheEnd'
  <2>1. finished' => retrieve_buffer'.bytes = <<>>
    <3>1. finished' => Len(retrieve_buffer'.bytes) = 0
      <4>1. finished' => t.read = Len(input)
        BY <1>2, <1>10
      <4>2. Len(retrieve_buffer'.bytes) = Len(input) - t.read /\ Len(input) \in Nat
        BY <1>3, <1>7
      <4> HIDE DEF input
      <4>3. QED
        BY <4>1, <4>2
    <3>2. retrieve_buffer'.bytes \in Seq(Byte)
      BY <1>7 DEF QueueOf
    <3>3. QED
      BY <3>1, <3>2
  <2>2. QED
    BY <1>1, <1>2, <2>1 DEF ReadsToTheEnd
<1>16. StreamCarries'
  <2> SUFFICES ASSUME part # <<>> => part[1] # "."
               PROVE  /\ ends /\ DotsAreInside(part) => Complete(Stream', part)
                      /\ ~ends => Mode(Stream', Moved', parser', part)
    BY <1>0, <1>2 DEF StreamCarries, DotsAreInside
  <2>1. sent' \o w1.bytes = v \o t.out /\ v \o t.out \in Seq(Byte)
    <3> DEFINE x == w.bytes
               y == t.out
    <3>1. x \in Seq(Byte) /\ y \in Seq(Byte) /\ w1.bytes = x \o y
      BY <1>3, <1>5, <1>8
    <3> HIDE DEF x, y
    <3>2. sent' \o x \in Seq(Byte) /\ (sent' \o x) \o y = sent' \o (x \o y)
      BY <3>1, ConcatBytes
    <3>3. (sent' \o x) \o y \in Seq(Byte)
      BY <3>1, <3>2, ConcatBytes
    <3>4. QED
      BY <3>1, <3>2, <3>3 DEF x, y
  <2>2. Mode(v \o t.out, Moved', t.p, part)
    BY <1>6, <1>12
  <2> HIDE DEF v
  <2>3. CASE ends /\ DotsAreInside(part)
    <3>1. Moved' = Len(part)
      <4>1. t.read = Len(input)
        BY <1>10, <2>3
      <4> HIDE DEF input, Moved
      <4>2. QED
        BY <1>0, <1>1, <1>3, <1>12, <4>1
    <3>2. ~IsSuffix(<<"\r", "\n", ".">>, part)
      BY <2>3 DEF DotsAreInside
    <3>3. Complete((v \o t.out) \o e, part)
      <4> DEFINE x == v \o t.out
      <4>1. x \in Seq(Byte) /\ Mode(x, Len(part), t.p, part)
        BY <2>1, <2>2, <3>1
      <4> HIDE DEF x
      <4>2. Complete(x \o terminator(t.p), part)
        BY <1>0, <3>2, <4>1, ModeEnds
      <4>3. QED
        BY <4>2 DEF x, e
    <3>4. Stream' = (v \o t.out) \o e
      <4>1. Stream' = sent' \o (w1.bytes \o e)
        BY <1>11, <2>3 DEF Stream
      <4>2. w1.bytes \in Seq(Byte)
        BY <1>8 DEF QueueOf
      <4> DEFINE x == w1.bytes
      <4>3. x \in Seq(Byte) /\ e \in Seq(Byte) /\ Stream' = sent' \o (x \o e) /\ sent' \o x = v \o t.out
        BY <1>9, <2>1, <4>1, <4>2
      <4> HIDE DEF x
      <4>4. (sent' \o x) \o e = sent' \o (x \o e)
        BY <4>3, ConcatBytes
      <4>5. QED
        BY <4>3, <4>4
    <3>5. QED
      BY <2>3, <3>3, <3>4
  <2>4. CASE ~ends
    <3>1. Stream' = v \o t.out
      <4>1. write_buffer'.bytes = w1.bytes
        BY <1>11, <2>4
      <4>2. QED
        BY <2>1, <4>1 DEF Stream
    <3>2. QED
      BY <1>2, <2>2, <2>4, <3>1
  <2>5. QED
    BY <2>3, <2>4
<1>17. QED
  BY <1>13, <1>14, <1>15, <1>16 DEF StreamInv

(* Sending changes where the stream is cut and nothing else.               *)
LEMMA WriteStep ==
  ASSUME StreamInv, NEW n \in 0 .. Len(write_buffer.bytes), write_handler(n)
  PROVE  StreamInv'
<1> DEFINE b == write_buffer.bytes
           w == Q!ReadAdv(write_buffer, n)
<1>1. /\ QueueOf(write_buffer, WriteSize) /\ sent \in Seq(Byte) /\ b \in Seq(Byte)
      /\ Len(b) \in Nat /\ n \in Nat /\ n <= Len(b) /\ WriteSize \in Nat
  BY RetrievalAssumption DEF StreamInv, StreamTypes, QueueOf
<1>2. /\ sent' = sent \o SubSeq(b, 1, n)
      /\ IF ~finished THEN retrieve_mail(w)
         ELSE write_buffer' = w /\ UNCHANGED <<retrieve_buffer, parser, finished>>
      /\ UNCHANGED <<file, bytes_read, read_failed, finished_reading>>
  BY DEF write_handler
<1>3. QueueOf(w, WriteSize) /\ w.bytes = SubSeq(b, n + 1, Len(b)) /\ w.bytes \in Seq(Byte)
  <2>1. QueueOf(w, WriteSize) /\ w.bytes = SubSeq(b, n + 1, Len(b))
    BY <1>1, QueueAdv
  <2>2. QED
    BY <2>1 DEF QueueOf
<1>4. SubSeq(b, 1, n) \in Seq(Byte) /\ sent' \in Seq(Byte)
  <2>1. SubSeq(b, 1, n) \in Seq(Byte)
    BY <1>1
  <2>2. QED
    BY <1>1, <1>2, <2>1, ConcatProperties
<1>5. SubSeq(b, 1, n) \o SubSeq(b, n + 1, Len(b)) = b
  <2> DEFINE x == SubSeq(b, 1, n)
             y == SubSeq(b, n + 1, Len(b))
             z == x \o y
  <2>1. x \in Seq(Byte) /\ Len(x) = n /\ \A i \in 1 .. n : x[i] = b[i]
    BY <1>1
  <2>2. y \in Seq(Byte) /\ Len(y) = Len(b) - n /\ \A i \in 1 .. Len(b) - n : y[i] = b[n + i]
    BY <1>1, Slice
  <2> HIDE DEF x, y, b
  <2>3. /\ z \in Seq(Byte) /\ Len(z) = n + (Len(b) - n)
        /\ \A i \in 1 .. n + (Len(b) - n) : z[i] = IF i <= n THEN x[i] ELSE y[i - n]
    BY <2>1, <2>2, ConcatProperties
  <2>4. n + (Len(b) - n) = Len(b)
    BY <1>1
  <2> HIDE DEF z
  <2>5. ASSUME NEW i \in 1 .. Len(z) PROVE z[i] = b[i]
    <3>1. CASE i <= n
      <4>1. i \in 1 .. n
        BY <1>1, <3>1
      <4>2. QED
        BY <2>1, <2>3, <2>4, <3>1, <4>1
    <3>2. CASE ~(i <= n)
      <4>1. i - n \in 1 .. Len(b) - n /\ n + (i - n) = i
        BY <1>1, <2>3, <2>4, <3>2
      <4>2. QED
        BY <2>2, <2>3, <2>4, <3>2, <4>1
    <3>3. QED
      BY <3>1, <3>2
  <2>6. z = b
    BY <1>1, <2>3, <2>4, <2>5, SeqEqual
  <2>7. QED
    BY <2>6 DEF z, x, y
<1>6. sent' \o w.bytes = Stream
  <2>1. sent' \o w.bytes = (sent \o SubSeq(b, 1, n)) \o SubSeq(b, n + 1, Len(b))
    BY <1>2, <1>3
  <2>2. (sent \o SubSeq(b, 1, n)) \o SubSeq(b, n + 1, Len(b))
          = sent \o (SubSeq(b, 1, n) \o SubSeq(b, n + 1, Len(b)))
    <3> DEFINE x == SubSeq(b, 1, n)
               y == SubSeq(b, n + 1, Len(b))
    <3>1. x \in Seq(Byte) /\ y \in Seq(Byte) /\ sent \in Seq(Byte)
      BY <1>1, <1>3, <1>4
    <3> HIDE DEF x, y
    <3>2. (sent \o x) \o y = sent \o (x \o y)
      BY <3>1, ConcatBytes
    <3>3. QED
      BY <3>2 DEF x, y
  <2>3. QED
    BY <1>5, <2>1, <2>2 DEF Stream
<1> HIDE DEF w
<1>7. CASE ~finished
  BY <1>2, <1>3, <1>4, <1>6, <1>7, RetrieveStep
<1>8. CASE finished
  <2>1. /\ write_buffer' = w
        /\ UNCHANGED <<file, bytes_read, read_failed, finished_reading, retrieve_buffer, parser, finished>>
    BY <1>2, <1>8
  <2>2. StreamTypes'
    BY <1>3, <1>4, <2>1 DEF StreamInv, StreamTypes
  <2>3. Stream' = Stream /\ Moved' = Moved /\ part' = part
    BY <1>6, <2>1 DEF Stream, Moved, part
  <2>4. HoldsTheRest'
    BY <2>1, <2>3 DEF StreamInv, HoldsTheRest
  <2>5. ReadsToTheEnd'
    BY <2>1 DEF StreamInv, ReadsToTheEnd
  <2>6. StreamCarries'
    BY <1>8, <2>1, <2>3 DEF StreamInv, StreamCarries
  <2>7. QED
    BY <2>2, <2>4, <2>5, <2>6 DEF StreamInv
<1>9. QED
  BY <1>7, <1>8

(* Every step keeps the invariant.                                         *)
LEMMA StreamStep == StreamInv /\ [Next]_vars => StreamInv'
<1> SUFFICES ASSUME StreamInv, [Next]_vars PROVE StreamInv'
  OBVIOUS
<1>1. CASE mail_read_handler
  BY <1>1, ReadStep
<1>2. ASSUME NEW n \in 0 .. Len(write_buffer.bytes), write_handler(n) PROVE StreamInv'
  BY <1>2, WriteStep
<1>3. CASE UNCHANGED vars
  <2>1. UNCHANGED <<file, bytes_read, read_failed, retrieve_buffer, finished_reading, parser,
                    write_buffer, sent, finished>>
    BY <1>3 DEF vars
  <2>2. Stream' = Stream /\ Moved' = Moved /\ part' = part
    BY <2>1 DEF Stream, Moved, part
  <2>3. QED
    BY <2>1, <2>2 DEF StreamInv, StreamTypes, HoldsTheRest, ReadsToTheEnd, StreamCarries
<1>4. QED
  BY <1>1, <1>2, <1>3 DEF Next

(* Whatever the file and the sizes of the buffers, and wherever a read()   *)
(* fails, the buffers are never overrun and no byte that was read is lost  *)
(* or moved twice between them (buffer.c, mail.c:430).                     *)
THEOREM StreamIsKept == Spec => []StreamInv
<1>1. QED
  BY StreamInit, StreamStep, PTL DEF Spec

(* The terminator follows all that was read, and unless a read() failed    *)
(* the last byte of the file, however the reads from the file and the      *)
(* writes to the client alternate (mail.c:569).                            *)
THEOREM AnswersEndLate == Spec => []NoEarlyEnd
<1>1. StreamInv => NoEarlyEnd
  BY DEF StreamInv, ReadsToTheEnd, NoEarlyEnd, Q!CanRead
<1>2. QED
  BY <1>1, StreamIsKept, PTL

(* What the client is to decode is a file with its last line ended.        *)
LEMMA MessageIs == ASSUME NEW f \in Seq(Byte) PROVE Message(f) = Ended(f)
<1> DEFINE n == Len(f)
           d == SubSeq(f, n - 1, n)
           e == <<"\r", "\n">>
<1>1. /\ {"\r", "\n"} \subseteq Byte /\ n \in Nat
      /\ e \in Seq(Byte) /\ Len(e) = 2 /\ e[1] = "\r" /\ e[2] = "\n"
  BY DEF Byte
<1>2. ASSUME n >= 2 PROVE d = e <=> f[n - 1] = "\r" /\ f[n] = "\n"
  <2> DEFINE k == n - 2
  <2>1. k \in Nat /\ k <= n /\ k + 1 = n - 1 /\ n - k = 2 /\ k + 2 = n
    BY <1>1, <1>2
  <2> HIDE DEF k, n
  <2>2. /\ SubSeq(f, k + 1, n) \in Seq(Byte) /\ Len(SubSeq(f, k + 1, n)) = n - k
        /\ \A j \in 1 .. n - k : SubSeq(f, k + 1, n)[j] = f[k + j]
    <3>1. n \in Nat /\ n <= Len(f)
      BY <1>1 DEF n
    <3>2. QED
      BY <2>1, <3>1, Slice
  <2>3. d \in Seq(Byte) /\ Len(d) = 2 /\ d[1] = f[n - 1] /\ d[2] = f[n]
    <3>1. d = SubSeq(f, k + 1, n)
      BY <2>1
    <3> HIDE DEF d
    <3>2. d \in Seq(Byte) /\ Len(d) = 2 /\ \A j \in 1 .. 2 : d[j] = f[k + j]
      BY <2>1, <2>2, <3>1
    <3>3. 1 \in 1 .. 2 /\ 2 \in 1 .. 2
      OBVIOUS
    <3>4. QED
      BY <2>1, <3>2, <3>3
  <2> HIDE DEF d, e
  <2>4. d[1] = "\r" /\ d[2] = "\n" => d = e
    <3> SUFFICES ASSUME d[1] = "\r", d[2] = "\n" PROVE d = e
      OBVIOUS
    <3>1. \A j \in 1 .. 2 : j = 1 \/ j = 2
      OBVIOUS
    <3>2. \A j \in 1 .. Len(d) : d[j] = e[j]
      BY <1>1, <2>3, <3>1
    <3>3. QED
      BY <1>1, <2>3, <3>2, SeqEqual
  <2>5. QED
    BY <1>1, <2>3, <2>4
<1>3. n >= 2 /\ d = e <=> CrLf(f)
  BY <1>2 DEF CrLf
<1>4. f \o e = Append(Append(f, "\r"), "\n")
  BY <1>1
<1>5. QED
  BY <1>3, <1>4 DEF Message, Ended

(* A client that takes the dots off decodes exactly what was read of the   *)
(* file, and unless a read() failed the file, for files of every length    *)
(* and content and whatever the bytes the buffers were cut at, and finds   *)
(* no end before the one the server wrote (mail.c:398).  Left out are, as  *)
(* in the property, a first byte that is a dot and a last one that is      *)
(* alone on its line.                                                      *)
THEOREM RetrGivesTheFile == Spec => []ClientGetsFile
<1>1. StreamInv => ClientGetsFile
  <2> SUFFICES ASSUME StreamInv, finished, ~Q!CanRead(write_buffer), DotsAreInside(part)
               PROVE  /\ Ends(sent) = {Len(sent) - 2} /\ Decoded(sent) = Message(part)
                      /\ ~read_failed => part = file
    BY DEF ClientGetsFile
  <2>0. /\ file \in Seq(Byte) /\ bytes_read \in 0 .. Len(file) /\ sent \in Seq(Byte)
        /\ bytes_read = Len(file) \/ read_failed
    BY DEF StreamInv, StreamTypes, ReadsToTheEnd
  <2>1. part \in Seq(Byte) /\ (bytes_read = Len(file) => part = file)
    BY <2>0, PartIs
  <2>2. Complete(Stream, part)
    BY DEF StreamInv, StreamCarries
  <2>3. Stream = sent
    <3>1. write_buffer.bytes = <<>>
      BY DEF Q!CanRead
    <3>2. QED
      BY <2>0, <3>1 DEF Stream
  <2>4. PICK t \in Seq(Byte) : Carries(t, Ended(part)) /\ CrLf(t) /\ sent = t \o <<".", "\r", "\n">>
    BY <2>2, <2>3 DEF Complete
  <2>5. QED
    BY <2>0, <2>1, <2>4, EndIsFound, MessageIs
<1>2. QED
  BY <1>1, StreamIsKept, PTL

-----------------------------------------------------------------------------
(* LIST: how long its lines are.                                           *)

(* num_string_size[] is what its equation says, for every number.          *)
LEMMA DigitsUnfold ==
  /\ num_string_size \in [Nat -> Nat]
  /\ \A n \in Nat : num_string_size[n] = IF n < 10 THEN 1 ELSE 1 + num_string_size[n \div 10]
<1> DEFINE B == {n \in Nat : n < 10}
           back == [n \in Nat |-> n \div 10]
           step == [n \in Nat |-> [v \in Nat |-> 1 + v]]
<1>1. \A n \in Nat \ B : back[n] \in Nat /\ back[n] < n /\ step[n] \in [Nat -> Nat]
  <2>1. ASSUME NEW n \in Nat \ B PROVE n \div 10 \in Nat /\ n \div 10 < n
    OBVIOUS
  <2>2. QED
    BY <2>1
<1>2. PICK f : IsRecursion(f, Nat, Nat, B, 1, back, step)
  <2>1. Nat \in SUBSET Nat /\ 1 \in Nat
    OBVIOUS
  <2> HIDE DEF B, back, step
  <2>2. QED
    BY <1>1, <2>1, Recursion
<1>3. f \in [Nat -> Nat] /\ \A n \in Nat : f[n] = IF n < 10 THEN 1 ELSE 1 + f[n \div 10]
  <2>1. f \in [Nat -> Nat]
    BY <1>2 DEF IsRecursion
  <2>2. ASSUME NEW n \in Nat PROVE f[n] = IF n < 10 THEN 1 ELSE 1 + f[n \div 10]
    <3>1. f[n] = IF n \in B THEN 1 ELSE step[n][f[back[n]]]
      BY <1>2 DEF IsRecursion
    <3>2. n \in B <=> n < 10
      OBVIOUS
    <3>3. n \div 10 \in Nat
      OBVIOUS
    <3>4. step[n][f[back[n]]] = 1 + f[n \div 10]
      BY <2>1, <3>3
    <3>5. QED
      BY <3>1, <3>2, <3>4
  <2>3. QED
    BY <2>1, <2>2
<1> DEFINE Is(g) == g = [n \in Nat |-> IF n < 10 THEN 1 ELSE 1 + g[n \div 10]]
<1>4. Is(f)
  BY <1>3
<1>5. Is(num_string_size)
  <2>1. Is(CHOOSE g : Is(g))
    <3> HIDE DEF Is
    <3>1. QED
      BY <1>4
  <2>2. QED
    BY <2>1 DEF num_string_size
<1>6. \A n \in Nat : num_string_size[n] = IF n < 10 THEN 1 ELSE 1 + num_string_size[n \div 10]
  BY <1>5
<1>7. \A n \in Nat : num_string_size[n] \in Nat
  <2> DEFINE G == {k \in Nat : \A n \in Nat : n < k => num_string_size[n] \in Nat}
  <2>1. 0 \in G
    OBVIOUS
  <2>2. ASSUME NEW k \in Nat, k \in G PROVE k + 1 \in G
    <3> SUFFICES ASSUME NEW n \in Nat, n < k + 1 PROVE num_string_size[n] \in Nat
      OBVIOUS
    <3>1. n >= 10 => n \div 10 \in Nat /\ n \div 10 < k
      OBVIOUS
    <3>2. n >= 10 => num_string_size[n \div 10] \in Nat
      BY <2>2, <3>1
    <3>3. QED
      BY <1>6, <3>2
  <2>3. \A k \in Nat : k \in G
    <3> HIDE DEF G
    <3>1. QED
      BY <2>1, <2>2, NatInductionOnSet
  <2>4. QED
    <3>1. ASSUME NEW n \in Nat PROVE num_string_size[n] \in Nat
      <4>1. n + 1 \in G /\ n < n + 1
        BY <2>3
      <4>2. QED
        BY <4>1
    <3>2. QED
      BY <3>1
<1>8. QED
  BY <1>5, <1>6, <1>7

(* The next number has as many digits, or one more.                        *)
LEMMA DigitsGrow ==
  ASSUME NEW n \in Nat
  PROVE  num_string_size[n + 1] \in {num_string_size[n], num_string_size[n] + 1}
<1> DEFINE Fine(k) == num_string_size[k + 1] \in {num_string_size[k], num_string_size[k] + 1}
           G == {k \in Nat : \A i \in Nat : i < k => Fine(i)}
<1>1. 0 \in G
  OBVIOUS
<1>2. ASSUME NEW k \in Nat, k \in G PROVE k + 1 \in G
  <2> SUFFICES ASSUME NEW i \in Nat, i < k + 1 PROVE Fine(i)
    OBVIOUS
  <2> DEFINE d == i \div 10
             e == (i + 1) \div 10
  <2>1. /\ num_string_size[i] = IF i < 10 THEN 1 ELSE 1 + num_string_size[d]
        /\ num_string_size[i + 1] = IF i + 1 < 10 THEN 1 ELSE 1 + num_string_size[e]
    BY DigitsUnfold
  <2>2. i < 10 => i + 1 < 10 \/ e = 1
    OBVIOUS
  <2>3. num_string_size[1] = 1
    BY DigitsUnfold
  <2>4. d \in Nat /\ e \in {d, d + 1} /\ (~(i < 10) => d < k)
    OBVIOUS
  <2>5. ~(i < 10) => Fine(d)
    BY <1>2, <2>4
  <2>6. num_string_size[d] \in Nat
    BY <2>4, DigitsUnfold
  <2> HIDE DEF d, e
  <2>7. CASE i < 10
    BY <2>1, <2>2, <2>3, <2>7
  <2>8. CASE ~(i < 10)
    BY <2>1, <2>4, <2>5, <2>6, <2>8
  <2>9. QED
    BY <2>7, <2>8
<1>3. \A k \in Nat : k \in G
  <2> HIDE DEF G
  <2>1. QED
    BY <1>1, <1>2, NatInductionOnSet
<1>4. n + 1 \in G /\ n < n + 1
  BY <1>3
<1>5. QED
  BY <1>4

(* The octets of the unmarked messages add up.                             *)
LEMMA OctetsAdd == total_octets \in Nat
<1> DEFINE pick == [T \in SUBSET left |-> CHOOSE x \in T : TRUE]
           step == [m \in left |-> [v \in Nat |-> Octets[m] + v]]
           Is(g) == g = [T \in SUBSET left |->
                           IF T = {} THEN 0
                           ELSE Octets[CHOOSE x \in T : TRUE] + g[T \ {CHOOSE x \in T : TRUE}]]
<1>1. /\ IsFiniteSet(left) /\ left \subseteq 1 .. MailCount
      /\ \A m \in left : Octets[m] \in Nat
  BY FS_Interval, FS_Subset, ListAssumption DEF left
<1>2. \A T \in SUBSET left : T # {} => pick[T] \in T
  OBVIOUS
<1>3. PICK f : IsFold(f, left, 0, pick, step)
  <2> HIDE DEF pick, step
  <2>1. QED
    BY <1>1, <1>2, SubsetRecursion
<1>4. \A T \in SUBSET left : f[T] = IF T = {} THEN 0 ELSE step[pick[T]][f[T \ {pick[T]}]]
  BY <1>3 DEF IsFold
<1>5. ASSUME NEW h, h[{}] = 0,
             \A T \in SUBSET left : T # {} /\ h[T \ {pick[T]}] \in Nat =>
               h[T] = Octets[pick[T]] + h[T \ {pick[T]}]
      PROVE  \A T \in SUBSET left : h[T] \in Nat
  <2> DEFINE G == {T \in SUBSET left : h[T] \in Nat}
  <2>1. ASSUME NEW T \in SUBSET left, \A x \in T : T \ {x} \in G PROVE T \in G
    <3>1. CASE T = {}
      BY <1>5, <3>1
    <3>2. CASE T # {}
      <4>1. pick[T] \in T /\ T \ {pick[T]} \in G
        BY <1>2, <2>1, <3>2
      <4>2. h[T \ {pick[T]}] \in Nat /\ Octets[pick[T]] \in Nat
        BY <1>1, <4>1
      <4>3. h[T] = Octets[pick[T]] + h[T \ {pick[T]}]
        BY <1>5, <3>2, <4>2
      <4> HIDE DEF pick
      <4>4. h[T] \in Nat
        BY <4>2, <4>3
      <4>5. QED
        BY <4>4
    <3>3. QED
      BY <3>1, <3>2
  <2>2. ASSUME NEW U \in SUBSET left PROVE h[U] \in Nat
    <3>1. IsFiniteSet(U)
      BY <1>1, FS_Subset
    <3>2. \A T \in SUBSET U : (\A x \in T : T \ {x} \in G) => T \in G
      <4> HIDE DEF G
      <4>1. QED
        BY <2>1
    <3>3. U \in G
      <4> HIDE DEF G
      <4>1. QED
        BY <3>1, <3>2, SubsetInduction
    <3>4. QED
      BY <3>3
  <2>3. QED
    BY <2>2
<1>6. Is(f)
  <2>1. ASSUME NEW T \in SUBSET left, T # {}, f[T \ {pick[T]}] \in Nat
        PROVE  f[T] = Octets[pick[T]] + f[T \ {pick[T]}]
    <3>1. pick[T] \in left
      BY <1>2, <2>1
    <3> HIDE DEF pick
    <3>2. QED
      BY <1>4, <2>1, <3>1
  <2>2. f[{}] = 0
    BY <1>4
  <2>3. \A T \in SUBSET left : f[T] \in Nat
    <3> HIDE DEF pick, step
    <3>1. QED
      BY <1>5, <2>1, <2>2
  <2>4. ASSUME NEW T \in SUBSET left, T # {} PROVE f[T] = Octets[pick[T]] + f[T \ {pick[T]}]
    <3>1. T \ {pick[T]} \in SUBSET left
      OBVIOUS
    <3>2. f[T \ {pick[T]}] \in Nat
      <4> HIDE DEF pick
      <4>1. QED
        BY <2>3, <3>1
    <3> HIDE DEF pick, step
    <3>3. QED
      BY <2>1, <2>4, <3>2
  <2>5. f = [T \in SUBSET left |-> f[T]]
    BY <1>3 DEF IsFold
  <2>6. \A T \in SUBSET left : pick[T] = CHOOSE x \in T : TRUE
    OBVIOUS
  <2>7. f = [T \in SUBSET left |-> IF T = {} THEN 0 ELSE Octets[pick[T]] + f[T \ {pick[T]}]]
    <3> HIDE DEF pick, step
    <3>1. QED
      BY <2>2, <2>4, <2>5
  <2>8. QED
    BY <2>6, <2>7
<1>7. ASSUME NEW g, Is(g) PROVE g[left] \in Nat
  <2>1. \A T \in SUBSET left : pick[T] = CHOOSE x \in T : TRUE
    OBVIOUS
  <2>2. \A T \in SUBSET left : T # {} => g[T] = Octets[pick[T]] + g[T \ {pick[T]}]
    BY <1>7, <2>1
  <2>3. g[{}] = 0
    BY <1>7
  <2> HIDE DEF pick
  <2>4. \A T \in SUBSET left : g[T] \in Nat
    BY <1>5, <2>2, <2>3
  <2>5. QED
    BY <2>4
<1>8. total_octets = (CHOOSE g : Is(g))[left]
  BY DEF total_octets, MapThenSumSet, MapThenFoldSet
<1>9. Is(CHOOSE g : Is(g))
  <2> HIDE DEF Is
  <2>1. QED
    BY <1>6
<1>10. QED
  <2> HIDE DEF Is
  <2>1. QED
    BY <1>7, <1>8, <1>9

(* The first line has a length.                                            *)
LEMMA FirstLine == FIRST_LINE_LIST_LEN \in Nat /\ FIRST_LINE_LIST_LEN > 0
<1>1. Cardinality(left) \in Nat
  <2>1. IsFiniteSet(1 .. MailCount) /\ left \subseteq 1 .. MailCount
    BY FS_Interval, ListAssumption DEF left
  <2>2. QED
    BY <2>1, FS_Subset, FS_CardinalityType
<1>2. QED
  BY <1>1, OctetsAdd, DigitsUnfold DEF FIRST_LINE_LIST_LEN

(* f adds up the lengths w of the lines.                                   *)
AddsUp(f, w) ==
  /\ f \in [0 .. MailCount -> Nat]
  /\ w \in [1 .. MailCount -> Nat]
  /\ f[0] = 0
  /\ \A m \in 1 .. MailCount : f[m] = f[m - 1] + w[m]

(* The function that adds up lengths exists.                               *)
LEMMA AddsUnfold ==
  ASSUME NEW w \in [1 .. MailCount -> Nat], NEW f,
         f = CHOOSE g : g = [m \in 0 .. MailCount |-> IF m = 0 THEN 0 ELSE g[m - 1] + w[m]]
  PROVE  AddsUp(f, w)
<1> DEFINE D == 0 .. MailCount
           B == {0}
           back == [m \in D |-> m - 1]
           step == [m \in D |-> [v \in Nat |-> v + w[m]]]
           Is(g) == g = [m \in D |-> IF m = 0 THEN 0 ELSE g[m - 1] + w[m]]
<1>1. MailCount \in Nat
  BY ListAssumption
<1>2. \A m \in D : m # 0 => m \in 1 .. MailCount /\ m - 1 \in D /\ m - 1 < m /\ w[m] \in Nat
  BY <1>1
<1>3. \A m \in D \ B : back[m] \in D /\ back[m] < m /\ step[m] \in [Nat -> Nat]
  BY <1>2
<1>4. PICK h : IsRecursion(h, D, Nat, B, 0, back, step)
  <2>1. D \in SUBSET Nat /\ 0 \in Nat
    BY <1>1
  <2> HIDE DEF D, B, back, step
  <2>2. QED
    BY <1>3, <2>1, Recursion
<1>5. Is(h)
  <2>1. h \in [D -> Nat] /\ \A m \in D : h[m] = IF m \in B THEN 0 ELSE step[m][h[back[m]]]
    <3> HIDE DEF D, B, back, step
    <3>1. QED
      BY <1>4 DEF IsRecursion
  <2>2. ASSUME NEW m \in D PROVE h[m] = IF m = 0 THEN 0 ELSE h[m - 1] + w[m]
    <3>1. CASE m = 0
      BY <2>1, <3>1
    <3>2. CASE m # 0
      <4>1. m - 1 \in D /\ h[m - 1] \in Nat
        BY <1>2, <2>1, <3>2
      <4>2. step[m][h[back[m]]] = h[m - 1] + w[m]
        BY <4>1
      <4>3. QED
        BY <2>1, <3>2, <4>2
    <3>3. QED
      BY <3>1, <3>2
  <2>3. QED
    BY <2>1, <2>2
<1>6. Is(f)
  <2>1. f = CHOOSE g : Is(g)
    OBVIOUS
  <2> HIDE DEF Is
  <2>2. QED
    BY <1>5, <2>1
<1>7. f[0] = 0 /\ \A m \in 1 .. MailCount : f[m] = f[m - 1] + w[m]
  <2>1. 0 \in D /\ \A m \in 1 .. MailCount : m \in D /\ m # 0
    BY <1>1
  <2>2. \A m \in D : f[m] = IF m = 0 THEN 0 ELSE f[m - 1] + w[m]
    BY <1>6
  <2> HIDE DEF D, Is
  <2>3. QED
    BY <2>1, <2>2
<1>8. \A m \in D : f[m] \in Nat
  <2> DEFINE G == {m \in Nat : m \in D => f[m] \in Nat}
  <2>1. 0 \in G
    BY <1>7
  <2>2. ASSUME NEW m \in Nat, m \in G PROVE m + 1 \in G
    <3> SUFFICES ASSUME m + 1 \in D PROVE f[m + 1] \in Nat
      OBVIOUS
    <3>1. m \in D /\ m + 1 \in 1 .. MailCount /\ (m + 1) - 1 = m
      BY <1>1
    <3>2. f[m] \in Nat /\ w[m + 1] \in Nat
      BY <2>2, <3>1
    <3>3. f[m + 1] = f[m] + w[m + 1]
      BY <1>7, <3>1
    <3>4. QED
      BY <3>2, <3>3
  <2>3. \A m \in Nat : m \in G
    <3> HIDE DEF G
    <3>1. QED
      BY <2>1, <2>2, NatInductionOnSet
  <2>4. QED
    BY <1>1, <2>3
<1>9. f = [m \in D |-> f[m]]
  BY <1>6
<1>10. QED
  BY <1>7, <1>8, <1>9 DEF AddsUp

(* More messages are at least as long,                                     *)
LEMMA AddsGrow ==
  ASSUME NEW f, NEW w, AddsUp(f, w), NEW i \in 0 .. MailCount, NEW j \in 0 .. MailCount, i <= j
  PROVE  f[i] <= f[j]
<1> DEFINE G == {k \in Nat : i + k <= MailCount => f[i] <= f[i + k]}
<1>0. MailCount \in Nat
  BY ListAssumption
<1>1. 0 \in G
  BY DEF AddsUp
<1>2. ASSUME NEW k \in Nat, k \in G PROVE k + 1 \in G
  <2> SUFFICES ASSUME i + (k + 1) <= MailCount PROVE f[i] <= f[i + (k + 1)]
    OBVIOUS
  <2> DEFINE m == i + (k + 1)
  <2>1. m \in 1 .. MailCount /\ m - 1 = i + k /\ i + k \in 0 .. MailCount /\ i + k <= MailCount
    BY <1>0
  <2> HIDE DEF m
  <2>2. f[m] = f[i + k] + w[m] /\ w[m] \in Nat /\ f[i + k] \in Nat /\ f[i] \in Nat
    BY <2>1 DEF AddsUp
  <2>3. f[i] <= f[i + k]
    BY <1>2, <2>1
  <2>4. f[i] <= f[m]
    BY <2>2, <2>3
  <2>5. QED
    BY <2>4 DEF m
<1>3. \A k \in Nat : k \in G
  <2> HIDE DEF G
  <2>1. QED
    BY <1>1, <1>2, NatInductionOnSet
<1>4. j - i \in Nat /\ i + (j - i) = j /\ j <= MailCount
  BY <1>0
<1>5. j - i \in G
  BY <1>3, <1>4
<1>6. QED
  BY <1>4, <1>5

(* exactly as long if no message between has a line.                       *)
LEMMA AddsSame ==
  ASSUME NEW f, NEW w, AddsUp(f, w), NEW i \in 0 .. MailCount, NEW j \in 0 .. MailCount, i <= j
  PROVE  f[i] = f[j] <=> \A m \in i + 1 .. j : w[m] = 0
<1>0. MailCount \in Nat
  BY ListAssumption
<1>1. ASSUME f[i] = f[j], NEW m \in i + 1 .. j PROVE w[m] = 0
  <2>1. m \in 1 .. MailCount /\ m \in 0 .. MailCount /\ m - 1 \in 0 .. MailCount /\ i <= m - 1 /\ m <= j
    BY <1>0
  <2>2. f[i] <= f[m - 1] /\ f[m] <= f[j]
    BY <2>1, AddsGrow
  <2>3. f[m] = f[m - 1] + w[m] /\ w[m] \in Nat /\ f[m - 1] \in Nat /\ f[i] \in Nat
    BY <2>1 DEF AddsUp
  <2>4. QED
    BY <1>1, <2>2, <2>3
<1>2. ASSUME \A m \in i + 1 .. j : w[m] = 0 PROVE f[i] = f[j]
  <2> DEFINE G == {k \in Nat : i + k <= j => f[i] = f[i + k]}
  <2>1. 0 \in G
    OBVIOUS
  <2>2. ASSUME NEW k \in Nat, k \in G PROVE k + 1 \in G
    <3> SUFFICES ASSUME i + (k + 1) <= j PROVE f[i] = f[i + (k + 1)]
      OBVIOUS
    <3> DEFINE m == i + (k + 1)
    <3>1. m \in 1 .. MailCount /\ m \in i + 1 .. j /\ m - 1 = i + k /\ i + k \in 0 .. MailCount /\ i + k <= j
      BY <1>0
    <3> HIDE DEF m
    <3>2. f[m] = f[i + k] + w[m] /\ w[m] = 0 /\ f[i + k] \in Nat
      BY <1>2, <3>1 DEF AddsUp
    <3>3. f[i] = f[i + k]
      BY <2>2, <3>1
    <3>4. f[i] = f[m]
      BY <3>2, <3>3
    <3>5. QED
      BY <3>4 DEF m
  <2>3. \A k \in Nat : k \in G
    <3> HIDE DEF G
    <3>1. QED
      BY <2>1, <2>2, NatInductionOnSet
  <2>4. j - i \in Nat /\ i + (j - i) = j /\ i + (j - i) <= j
    BY <1>0
  <2>5. j - i \in G
    BY <2>3, <2>4
  <2>6. QED
    BY <2>4, <2>5
<1>3. QED
  BY <1>1, <1>2

(* What a visit that resumes counts for each message, and what was written *)
(* for it.                                                                 *)
Counted == [m \in 1 .. MailCount |-> IF m \in deleted THEN 0 ELSE LIST_LINE_LEN(m - 1, Octets[m])]

Printed == [m \in 1 .. MailCount |-> IF m \in deleted THEN 0 ELSE LIST_LINE_LEN(m, Octets[m])]

(* Every line has a length, at most one more than what is counted for it.  *)
LEMMA LineLengths ==
  /\ Counted \in [1 .. MailCount -> Nat] /\ Printed \in [1 .. MailCount -> Nat]
  /\ \A m \in 1 .. MailCount \ left : Counted[m] = 0 /\ Printed[m] = 0
  /\ \A m \in left : /\ Counted[m] = LIST_LINE_LEN(m - 1, Octets[m]) /\ Counted[m] > 0
                     /\ Printed[m] > 0 /\ Printed[m] <= Counted[m] + 1
                     /\ num_string_size[m - 1] = num_string_size[m] => Printed[m] = Counted[m]
<1>1. MailCount \in Nat /\ Octets \in [1 .. MailCount -> Nat]
  BY ListAssumption
<1>2. ASSUME NEW m \in 1 .. MailCount
      PROVE  /\ LIST_LINE_LEN(m - 1, Octets[m]) \in Nat \ {0}
             /\ LIST_LINE_LEN(m, Octets[m]) \in Nat \ {0}
             /\ LIST_LINE_LEN(m, Octets[m]) <= LIST_LINE_LEN(m - 1, Octets[m]) + 1
             /\ num_string_size[m - 1] = num_string_size[m] =>
                  LIST_LINE_LEN(m, Octets[m]) = LIST_LINE_LEN(m - 1, Octets[m])
  <2>1. m - 1 \in Nat /\ m \in Nat /\ (m - 1) + 1 = m /\ Octets[m] \in Nat
    BY <1>1
  <2>2. /\ num_string_size[m - 1] \in Nat /\ num_string_size[m] \in Nat
        /\ num_string_size[Octets[m]] \in Nat
    BY <2>1, DigitsUnfold
  <2>3. num_string_size[m] \in {num_string_size[m - 1], num_string_size[m - 1] + 1}
    <3> DEFINE k == m - 1
    <3>1. k \in Nat /\ k + 1 = m
      BY <2>1
    <3> HIDE DEF k
    <3>2. num_string_size[m] \in {num_string_size[k], num_string_size[k] + 1}
      BY <3>1, DigitsGrow
    <3>3. QED
      BY <3>2 DEF k
  <2>4. QED
    BY <2>2, <2>3 DEF LIST_LINE_LEN
<1>3. \A m \in 1 .. MailCount : m \in left <=> m \notin deleted
  BY DEF left
<1>4. left \subseteq 1 .. MailCount
  BY DEF left
<1> HIDE DEF LIST_LINE_LEN, left
<1>5. Counted \in [1 .. MailCount -> Nat] /\ Printed \in [1 .. MailCount -> Nat]
  BY <1>2 DEF Counted, Printed
<1>6. \A m \in 1 .. MailCount \ left : Counted[m] = 0 /\ Printed[m] = 0
  BY <1>3 DEF Counted, Printed
<1>7. ASSUME NEW m \in left
      PROVE  Counted[m] = LIST_LINE_LEN(m - 1, Octets[m]) /\ Printed[m] = LIST_LINE_LEN(m, Octets[m])
  BY <1>3, <1>4 DEF Counted, Printed
<1>8. ASSUME NEW m \in left
      PROVE  /\ Counted[m] = LIST_LINE_LEN(m - 1, Octets[m]) /\ Counted[m] > 0
             /\ Printed[m] > 0 /\ Printed[m] <= Counted[m] + 1
             /\ num_string_size[m - 1] = num_string_size[m] => Printed[m] = Counted[m]
  <2>1. m \in 1 .. MailCount
    BY <1>4
  <2> DEFINE a == LIST_LINE_LEN(m - 1, Octets[m])
             b == LIST_LINE_LEN(m, Octets[m])
  <2>2. a \in Nat \ {0} /\ b \in Nat \ {0} /\ b <= a + 1
        /\ (num_string_size[m - 1] = num_string_size[m] => b = a)
    BY <1>2, <2>1
  <2>3. Counted[m] = a /\ Printed[m] = b
    BY <1>7
  <2> HIDE DEF a, b
  <2>4. Counted[m] = a /\ Counted[m] > 0 /\ Printed[m] > 0 /\ Printed[m] <= Counted[m] + 1
        /\ (num_string_size[m - 1] = num_string_size[m] => Printed[m] = Counted[m])
    BY <2>2, <2>3
  <2>5. QED
    BY <2>4 DEF a
<1>9. QED
  BY <1>5, <1>6, <1>8

(* Both ways to add them up do so.                                         *)
LEMMA LengthsAdd == AddsUp(previous_sent, Counted) /\ AddsUp(printed, Printed)
<1>1. MailCount \in Nat
  BY ListAssumption
<1>2. \A m \in 0 .. MailCount : m # 0 => m \in 1 .. MailCount
  BY <1>1
<1>3. previous_sent = CHOOSE g : g = [m \in 0 .. MailCount |-> IF m = 0 THEN 0 ELSE g[m - 1] + Counted[m]]
  <2>1. \A m \in 0 .. MailCount : m # 0 =>
          Counted[m] = IF m \in deleted THEN 0 ELSE LIST_LINE_LEN(m - 1, Octets[m])
    BY <1>2 DEF Counted
  <2>2. \A g : [m \in 0 .. MailCount |-> IF m = 0 THEN 0 ELSE g[m - 1] + Counted[m]]
             = [m \in 0 .. MailCount |-> IF m = 0 THEN 0
                  ELSE g[m - 1] + IF m \in deleted THEN 0 ELSE LIST_LINE_LEN(m - 1, Octets[m])]
    BY <2>1
  <2>3. QED
    BY <2>2 DEF previous_sent
<1>4. printed = CHOOSE g : g = [m \in 0 .. MailCount |-> IF m = 0 THEN 0 ELSE g[m - 1] + Printed[m]]
  <2>1. \A m \in 0 .. MailCount : m # 0 =>
          Printed[m] = IF m \in deleted THEN 0 ELSE LIST_LINE_LEN(m, Octets[m])
    BY <1>2 DEF Printed
  <2>2. \A g : [m \in 0 .. MailCount |-> IF m = 0 THEN 0 ELSE g[m - 1] + Printed[m]]
             = [m \in 0 .. MailCount |-> IF m = 0 THEN 0
                  ELSE g[m - 1] + IF m \in deleted THEN 0 ELSE LIST_LINE_LEN(m, Octets[m])]
    BY <2>1
  <2>3. QED
    BY <2>2 DEF printed
<1>5. QED
  BY <1>3, <1>4, LineLengths, AddsUnfold

(* A set of numbers from 1 that has every smaller one is an interval.      *)
LEMMA DownSet ==
  ASSUME NEW n \in Nat, NEW S \in SUBSET (1 .. n), \A m \in S : \A k \in 1 .. m : k \in S
  PROVE  Cardinality(S) \in 0 .. n /\ S = 1 .. Cardinality(S)
<1>1. CASE S = {}
  <2>1. Cardinality(S) = 0
    BY <1>1, FS_EmptySet
  <2>2. QED
    BY <1>1, <2>1
<1>2. CASE S # {}
  <2>1. S \in SUBSET Nat /\ \A x \in S : x <= n
    OBVIOUS
  <2>2. PICK m \in S : \A x \in S : m >= x
    BY <1>2, <2>1, GreatestExists
  <2>3. S = 1 .. m
    <3>1. \A x \in S : x \in 1 .. m
      BY <2>2
    <3>2. \A k \in 1 .. m : k \in S
      BY <2>2
    <3>3. QED
      BY <3>1, <3>2
  <2>4. Cardinality(1 .. m) = m
    <3>1. m \in Nat /\ 1 <= m
      OBVIOUS
    <3>2. QED
      BY <3>1, FS_Interval
  <2>5. QED
    BY <2>3, <2>4
<1>3. QED
  BY <1>1, <1>2

-----------------------------------------------------------------------------
(* LIST: where a visit goes on, and where it stops.                        *)

(* No unmarked message has one digit more than its index: messages 10,     *)
(* 100, ... do not exist or are marked.                                    *)
SameDigits ==
  \A D \in Deletions : \A m \in (1 .. MailCount) \ D : num_string_size[m - 1] = num_string_size[m]

(* What is counted when a visit resumes is then what was written.          *)
LEMMA SameLengths ==
  ASSUME SameDigits, deleted \in Deletions
  PROVE  previous_sent = printed
<1>0. MailCount \in Nat
  BY ListAssumption
<1>1. \A m \in 1 .. MailCount : Counted[m] = Printed[m]
  <2>1. \A m \in left : m \in 1 .. MailCount /\ num_string_size[m - 1] = num_string_size[m]
    BY DEF SameDigits, left
  <2>2. QED
    BY <2>1, LineLengths
<1> DEFINE G == {m \in Nat : m <= MailCount => previous_sent[m] = printed[m]}
<1>2. 0 \in G
  BY LengthsAdd DEF AddsUp
<1>3. ASSUME NEW m \in Nat, m \in G PROVE m + 1 \in G
  <2> SUFFICES ASSUME m + 1 <= MailCount PROVE previous_sent[m + 1] = printed[m + 1]
    OBVIOUS
  <2>1. m + 1 \in 1 .. MailCount /\ (m + 1) - 1 = m /\ m <= MailCount
    BY <1>0
  <2>2. /\ previous_sent[m + 1] = previous_sent[m] + Counted[m + 1]
        /\ printed[m + 1] = printed[m] + Printed[m + 1]
    BY <2>1, LengthsAdd DEF AddsUp
  <2>3. QED
    BY <1>1, <1>3, <2>1, <2>2
<1>4. \A m \in Nat : m \in G
  <2> HIDE DEF G
  <2>1. QED
    BY <1>2, <1>3, NatInductionOnSet
<1>5. \A m \in 0 .. MailCount : previous_sent[m] = printed[m]
  BY <1>0, <1>4
<1>6. previous_sent \in [0 .. MailCount -> Nat] /\ printed \in [0 .. MailCount -> Nat]
  BY LengthsAdd DEF AddsUp
<1> HIDE DEF G
<1>7. /\ previous_sent = [m \in 0 .. MailCount |-> previous_sent[m]]
      /\ printed = [m \in 0 .. MailCount |-> printed[m]]
  BY <1>6
<1>8. QED
  BY <1>5, <1>7

(* A visit passes over no more messages than there are.                    *)
LEMMA ResumeBounds == ASSUME NEW written PROVE resume(written) \in 0 .. MailCount
<1> DEFINE S == {m \in 1 .. MailCount : FIRST_LINE_LIST_LEN + previous_sent[m - 1] < written}
<1>1. IsFiniteSet(1 .. MailCount) /\ Cardinality(1 .. MailCount) = MailCount /\ MailCount \in Nat
  BY ListAssumption, FS_Interval
<1>2. S \in SUBSET (1 .. MailCount) /\ resume(written) = Cardinality(S)
  BY DEF resume
<1> HIDE DEF S
<1>3. IsFiniteSet(S) /\ Cardinality(S) \in Nat /\ Cardinality(S) <= MailCount
  BY <1>1, <1>2, FS_Subset, FS_CardinalityType
<1>4. QED
  BY <1>1, <1>2, <1>3

(* If the answer was written up to message p, a visit goes on after p, or  *)
(* before it with marked messages only between.                            *)
LEMMA ResumesWhereItWas ==
  ASSUME previous_sent = printed, NEW p \in 0 .. MailCount, NEW q,
         q = resume(FIRST_LINE_LIST_LEN + printed[p])
  PROVE  /\ q \in 0 .. p /\ printed[q] = printed[p]
         /\ \A m \in q + 1 .. p : m \notin left
<1> DEFINE S == {m \in 1 .. MailCount :
                   FIRST_LINE_LIST_LEN + previous_sent[m - 1] < FIRST_LINE_LIST_LEN + printed[p]}
<1>0. MailCount \in Nat /\ FIRST_LINE_LIST_LEN \in Nat /\ AddsUp(printed, Printed)
  BY ListAssumption, FirstLine, LengthsAdd
<1>1. \A m \in 0 .. MailCount : printed[m] \in Nat
  BY <1>0 DEF AddsUp
<1>2. \A m \in 1 .. MailCount : m \in Nat /\ m - 1 \in 0 .. MailCount /\ m \in 0 .. MailCount
  BY <1>0
<1>3. ASSUME NEW m \in 1 .. MailCount PROVE m \in S <=> printed[m - 1] < printed[p]
  <2> DEFINE a == printed[m - 1]
             b == printed[p]
             F == FIRST_LINE_LIST_LEN
  <2>1. a \in Nat /\ b \in Nat /\ F \in Nat
    BY <1>0, <1>1, <1>2
  <2>2. m \in S <=> F + a < F + b
    OBVIOUS
  <2> HIDE DEF a, b, F, S
  <2>3. m \in S <=> a < b
    BY <2>1, <2>2
  <2>4. QED
    BY <2>3 DEF a, b
<1>4. S \in SUBSET (1 .. MailCount) /\ q = Cardinality(S)
  BY DEF resume
<1> HIDE DEF S
<1>5. ASSUME NEW m \in S, NEW k \in 1 .. m PROVE k \in S
  <2>1. m \in 1 .. MailCount /\ k \in 1 .. MailCount /\ k - 1 <= m - 1
    BY <1>0, <1>4
  <2>2. printed[k - 1] <= printed[m - 1] /\ printed[m - 1] < printed[p]
    BY <1>0, <1>2, <1>3, <2>1, AddsGrow
  <2>3. printed[k - 1] \in Nat /\ printed[m - 1] \in Nat /\ printed[p] \in Nat
    BY <1>1, <1>2, <2>1
  <2>4. printed[k - 1] < printed[p]
    BY <2>2, <2>3
  <2>5. QED
    BY <1>3, <2>1, <2>4
<1>6. q \in 0 .. MailCount /\ S = 1 .. q
  <2>1. MailCount \in Nat /\ \A m \in S : \A k \in 1 .. m : k \in S
    BY <1>0, <1>5
  <2>2. Cardinality(S) \in 0 .. MailCount /\ S = 1 .. Cardinality(S)
    BY <1>4, <2>1, DownSet
  <2>3. QED
    BY <1>4, <2>2
<1>7. q <= p
  <2>1. ASSUME q > p PROVE FALSE
    <3>1. q \in 1 .. MailCount /\ q \in S /\ q - 1 \in 0 .. MailCount /\ p <= q - 1
      BY <1>0, <1>6, <2>1
    <3>2. printed[q - 1] < printed[p] /\ printed[p] <= printed[q - 1]
      BY <1>0, <1>3, <3>1, AddsGrow
    <3>3. QED
      BY <1>1, <3>1, <3>2
  <2>2. QED
    BY <1>6, <2>1
<1>8. printed[q] = printed[p]
  <2>1. CASE q = p
    BY <2>1
  <2>2. CASE q # p
    <3>1. q + 1 \in 1 .. MailCount /\ (q + 1) - 1 = q /\ q + 1 \notin S
      BY <1>0, <1>6, <1>7, <2>2
    <3>2. ~(printed[q] < printed[p]) /\ printed[q] <= printed[p]
      BY <1>0, <1>3, <1>6, <1>7, <3>1, AddsGrow
    <3>3. QED
      BY <1>1, <1>6, <3>2
  <2>3. QED
    BY <2>1, <2>2
<1>9. ASSUME NEW m \in q + 1 .. p PROVE m \notin left
  <2>1. Printed[m] = 0
    BY <1>0, <1>6, <1>7, <1>8, AddsSame
  <2>2. m \in left => Printed[m] > 0
    BY LineLengths
  <2>3. QED
    BY <2>1, <2>2
<1>10. QED
  BY <1>6, <1>7, <1>8, <1>9

(* A visit stops where the next line cannot be written and not before, and *)
(* the lines up to there can.                                              *)
LEMMA StopsInTime ==
  ASSUME NEW start \in 0 .. MailCount, NEW room, NEW stop,
         stop = MailCount - Cardinality(unwritten(start, room))
  PROVE  /\ stop \in start .. MailCount
         /\ \A k \in left : start < k /\ k <= stop =>
              CAN_WRITE_LIST_LINE(k, room + printed[start] - printed[k - 1])
         /\ \A m \in start + 1 .. MailCount :
              (\A k \in left : start < k /\ k <= m =>
                 CAN_WRITE_LIST_LINE(k, room + printed[start] - printed[k - 1])) => m <= stop
<1> DEFINE all == 1 .. MailCount
           U == unwritten(start, room)
           S == all \ U
           Fit(k) == CAN_WRITE_LIST_LINE(k, room + printed[start] - printed[k - 1])
<1>0. MailCount \in Nat /\ IsFiniteSet(all) /\ Cardinality(all) = MailCount
  BY ListAssumption, FS_Interval
<1>1. \A m : m \in U <=> m \in start + 1 .. MailCount /\ \E k \in left : start < k /\ k <= m /\ ~Fit(k)
  BY DEF unwritten
<1> HIDE DEF U, Fit
<1>2. U \subseteq all
  BY <1>0, <1>1
<1>3. IsFiniteSet(S) /\ Cardinality(S) = MailCount - Cardinality(U)
  <2>1. all \cap U = U
    BY <1>2
  <2> HIDE DEF all
  <2>2. IsFiniteSet(all \ U) /\ Cardinality(all \ U) = Cardinality(all) - Cardinality(all \cap U)
    BY <1>0, FS_Difference
  <2>3. QED
    BY <1>0, <2>1, <2>2
<1>4. ASSUME NEW m \in S, NEW k \in 1 .. m PROVE k \in S
  <2>1. m \in all /\ m \notin U /\ k \in all /\ k <= m
    BY <1>0
  <2>2. ASSUME k \in U PROVE FALSE
    <3>1. PICK j \in left : start < j /\ j <= k /\ ~Fit(j)
      BY <1>1, <2>2
    <3>2. k \in start + 1 .. MailCount
      BY <1>1, <2>2
    <3>3. j \in 1 .. MailCount
      BY <3>1 DEF left
    <3>4. j <= m /\ m \in start + 1 .. MailCount
      BY <1>0, <2>1, <3>1, <3>2, <3>3
    <3>5. m \in U
      BY <1>1, <3>1, <3>4
    <3>6. QED
      BY <2>1, <3>5
  <2>3. QED
    BY <2>1, <2>2
<1>5. stop \in 0 .. MailCount /\ S = 1 .. stop
  <2>1. stop = Cardinality(S) /\ S \in SUBSET (1 .. MailCount)
    BY <1>3 DEF U
  <2> HIDE DEF S
  <2>2. MailCount \in Nat /\ \A m \in S : \A k \in 1 .. m : k \in S
    BY <1>0, <1>4
  <2>3. Cardinality(S) \in 0 .. MailCount /\ S = 1 .. Cardinality(S)
    BY <2>1, <2>2, DownSet
  <2>4. QED
    BY <2>1, <2>3
<1>6. start <= stop
  <2>1. CASE start = 0
    BY <1>5, <2>1
  <2>2. CASE start # 0
    <3>1. start \in all /\ start \notin start + 1 .. MailCount
      BY <1>0, <2>2
    <3>2. start \in S
      BY <1>1, <3>1
    <3>3. QED
      BY <1>5, <3>2
  <2>3. QED
    BY <2>1, <2>2
<1>7. ASSUME NEW k \in left, start < k, k <= stop PROVE Fit(k)
  <2>1. k \in 1 .. MailCount
    BY DEF left
  <2>2. k \in S /\ k \in start + 1 .. MailCount /\ k <= k
    BY <1>0, <1>5, <1>7, <2>1
  <2>3. k \notin U
    BY <2>2
  <2>4. QED
    BY <1>1, <1>7, <2>2, <2>3
<1>8. ASSUME NEW m \in start + 1 .. MailCount, \A k \in left : start < k /\ k <= m => Fit(k)
      PROVE  m <= stop
  <2>1. m \notin U /\ m \in all
    BY <1>0, <1>1, <1>8
  <2>2. m \in S
    BY <2>1
  <2>3. QED
    BY <1>5, <2>2
<1>9. stop \in start .. MailCount
  BY <1>0, <1>5, <1>6
<1>10. QED
  BY <1>7, <1>8, <1>9 DEF Fit

(* What lines() says of message m.                                         *)
Line(m) == IF m \in left THEN <<m>> ELSE <<>>

(* Between a message and itself there are none.                            *)
LEMMA LinesNone == ASSUME NEW a \in Nat PROVE lines(a, a) = <<>>
<1> DEFINE s == [i \in 1 .. a - a |-> IF a + i \in left THEN <<a + i>> ELSE <<>>]
<1>1. s = <<>>
  <2>1. 1 .. a - a = {}
    OBVIOUS
  <2>2. QED
    BY <2>1
<1>2. lines(a, a) = FlattenSeq(s)
  BY DEF lines
<1> HIDE DEF s
<1>3. QED
  BY <1>1, <1>2 DEF FlattenSeq

(* One message more.                                                       *)
LEMMA LinesNext ==
  ASSUME NEW a \in Nat, NEW b \in Nat, a <= b
  PROVE  /\ lines(a, b) \in Seq(Nat)
         /\ lines(a, b + 1) = lines(a, b) \o Line(b + 1)
<1> DEFINE n == b - a
           s == [i \in 1 .. n |-> IF a + i \in left THEN <<a + i>> ELSE <<>>]
           t == [i \in 1 .. n + 1 |-> IF a + i \in left THEN <<a + i>> ELSE <<>>]
           x == Line(b + 1)
<1>1. n \in Nat /\ n + 1 = (b + 1) - a /\ a + (n + 1) = b + 1
  OBVIOUS
<1>2. lines(a, b) = FlattenSeq(s) /\ lines(a, b + 1) = FlattenSeq(t)
  BY <1>1 DEF lines
<1> HIDE DEF n
<1>3. \A k \in Nat : <<k>> \in Seq(Nat) /\ <<>> \in Seq(Nat)
  OBVIOUS
<1>4. s \in Seq(Seq(Nat)) /\ x \in Seq(Nat) /\ Len(s) = n
  <2>1. \A i \in 1 .. n : (IF a + i \in left THEN <<a + i>> ELSE <<>>) \in Seq(Nat)
    BY <1>1, <1>3
  <2>2. s \in [1 .. n -> Seq(Nat)]
    BY <2>1
  <2>3. x \in Seq(Nat)
    BY <1>3 DEF Line
  <2> HIDE DEF x, s
  <2>4. QED
    BY <1>1, <2>2, <2>3
<1>5. t = Append(s, x)
  <2>1. \A i \in 1 .. n : t[i] = s[i]
    BY <1>1
  <2>2. t[n + 1] = x
    <3>1. n + 1 \in 1 .. n + 1
      BY <1>1
    <3>2. t[n + 1] = IF a + (n + 1) \in left THEN <<a + (n + 1)>> ELSE <<>>
      BY <3>1
    <3>3. QED
      BY <1>1, <3>2 DEF Line
  <2>3. t \in Seq(Seq(Nat)) /\ Len(t) = n + 1
    <3>1. \A i \in 1 .. n + 1 : (IF a + i \in left THEN <<a + i>> ELSE <<>>) \in Seq(Nat)
      BY <1>1, <1>3
    <3>2. t \in [1 .. n + 1 -> Seq(Nat)]
      BY <3>1
    <3> HIDE DEF t
    <3>3. QED
      BY <1>1, <3>2
  <2> HIDE DEF t, x, s
  <2>4. /\ Append(s, x) \in Seq(Seq(Nat)) /\ Len(Append(s, x)) = n + 1
        /\ \A i \in 1 .. n : Append(s, x)[i] = s[i]
        /\ Append(s, x)[n + 1] = x
    BY <1>4, AppendProperties
  <2>5. \A i \in 1 .. n + 1 : t[i] = Append(s, x)[i]
    <3>1. \A i \in 1 .. n + 1 : i \in 1 .. n \/ i = n + 1
      BY <1>1
    <3>2. QED
      BY <2>1, <2>2, <2>4, <3>1
  <2>6. QED
    BY <2>3, <2>4, <2>5, SeqEqual
<1> HIDE DEF s, t, x
<1>6. FlattenSeq(s) \in Seq(Nat) /\ FlattenSeq(t) = FlattenSeq(s) \o x
  BY <1>4, <1>5, FlattenTypes, FlattenAppend
<1>7. QED
  BY <1>2, <1>6 DEF x

(* The lines of adjacent stretches.                                        *)
LEMMA LinesSplit ==
  ASSUME NEW a \in Nat, NEW b \in Nat, NEW c \in Nat, a <= b, b <= c
  PROVE  /\ lines(a, b) \in Seq(Nat) /\ lines(b, c) \in Seq(Nat)
         /\ lines(a, c) = lines(a, b) \o lines(b, c)
<1> DEFINE G == {k \in Nat : lines(a, b + k) = lines(a, b) \o lines(b, b + k)}
<1>1. lines(a, b) \in Seq(Nat)
  BY LinesNext
<1>2. \A k \in Nat : b + k \in Nat /\ b <= b + k /\ a <= b + k /\ b + (k + 1) = (b + k) + 1
  OBVIOUS
<1>3. 0 \in G
  <2>1. b + 0 = b /\ lines(b, b) = <<>>
    BY LinesNone
  <2>2. lines(a, b) \o <<>> = lines(a, b)
    BY <1>1
  <2>3. QED
    BY <2>1, <2>2
<1>4. ASSUME NEW k \in Nat, k \in G PROVE k + 1 \in G
  <2> DEFINE d == b + k
             s == lines(a, b)
             t == lines(b, d)
             u == Line(d + 1)
  <2>1. d \in Nat /\ b <= d /\ a <= d /\ b + (k + 1) = d + 1
    BY <1>2
  <2>2. lines(a, d) = s \o t
    BY <1>4
  <2> HIDE DEF d
  <2>3. lines(a, d + 1) = (s \o t) \o u /\ lines(b, d + 1) = t \o u /\ t \in Seq(Nat)
    BY <2>1, <2>2, LinesNext
  <2>4. u \in Seq(Nat)
    BY <2>1 DEF Line
  <2>5. (s \o t) \o u = s \o (t \o u)
    <3>1. s \in Seq(Nat) /\ t \in Seq(Nat) /\ u \in Seq(Nat)
      BY <1>1, <2>3, <2>4
    <3> HIDE DEF s, t, u
    <3>2. QED
      BY <3>1, ConcatAssociative, SMTT(30)
  <2>6. lines(a, b + (k + 1)) = lines(a, b) \o lines(b, b + (k + 1))
    BY <2>1, <2>3, <2>5
  <2>7. QED
    BY <2>6
<1>5. \A k \in Nat : k \in G
  <2> HIDE DEF G
  <2>1. QED
    BY <1>3, <1>4, NatInductionOnSet
<1>6. c - b \in Nat /\ b + (c - b) = c
  OBVIOUS
<1>7. lines(b, c) \in Seq(Nat)
  BY LinesNext
<1>8. c - b \in G
  BY <1>5, <1>6
<1>9. QED
  BY <1>1, <1>6, <1>7, <1>8

(* Marked messages have none.                                              *)
LEMMA LinesSkip ==
  ASSUME NEW a \in Nat, NEW b \in Nat, a <= b, \A m \in a + 1 .. b : m \notin left
  PROVE  lines(a, b) = <<>>
<1> DEFINE G == {k \in Nat : a + k <= b => lines(a, a + k) = <<>>}
<1>1. 0 \in G
  BY LinesNone
<1>2. ASSUME NEW k \in Nat, k \in G PROVE k + 1 \in G
  <2> SUFFICES ASSUME a + (k + 1) <= b PROVE lines(a, a + (k + 1)) = <<>>
    OBVIOUS
  <2> DEFINE d == a + k
  <2>1. d \in Nat /\ a <= d /\ a + (k + 1) = d + 1 /\ d + 1 \in a + 1 .. b /\ a + k <= b
    OBVIOUS
  <2>2. lines(a, d) = <<>>
    BY <1>2, <2>1
  <2> HIDE DEF d
  <2>3. lines(a, d + 1) = <<>> \o <<>>
    BY <2>1, <2>2, LinesNext DEF Line
  <2>4. QED
    BY <2>1, <2>3
<1>3. \A k \in Nat : k \in G
  <2> HIDE DEF G
  <2>1. QED
    BY <1>1, <1>2, NatInductionOnSet
<1>4. b - a \in Nat /\ a + (b - a) = b /\ a + (b - a) <= b
  OBVIOUS
<1>5. b - a \in G
  BY <1>3, <1>4
<1>6. QED
  BY <1>4, <1>5

-----------------------------------------------------------------------------
(* LIST: a visit.                                                          *)

(* A visit, in the terms of list_lines().                                  *)
Visit(room, first, start, stop) ==
  /\ first = IF bytes_written = 0 THEN FIRST_LINE_LIST_LEN ELSE 0
  /\ start = resume(bytes_written + first)
  /\ stop = MailCount - Cardinality(unwritten(start, room - first))
  /\ is_dir_valid /\ ~finished
  /\ first < room
  /\ bytes_written' = bytes_written + (first + printed[stop] - printed[start])
  /\ listed' = listed \o lines(start, stop)
  /\ finished' = (stop = MailCount /\ room - (first + printed[stop] - printed[start]) >= 3)
  /\ UNCHANGED <<is_dir_valid, deleted>>

(* A step of list_lines() is such a visit.                                 *)
LEMMA VisitIs ==
  ASSUME NEW room, list_lines(room)
  PROVE  \E first, start, stop : Visit(room, first, start, stop)
<1> DEFINE first == IF bytes_written = 0 THEN FIRST_LINE_LIST_LEN ELSE 0
           start == resume(bytes_written + first)
           stop == MailCount - Cardinality(unwritten(start, room - first))
<1>1. Visit(room, first, start, stop)
  BY DEF list_lines, Visit
<1> HIDE DEF first, start, stop
<1>2. QED
  BY <1>1

(* What LIST needs to know of its state to stay within its room.           *)
ListTypes == deleted \in Deletions \cup {{}} /\ bytes_written \in Nat

(* What a visit adds fits the room, with "." CR LF if it ends a list.      *)
Fits(room) ==
  bytes_written' + (IF finished' /\ is_dir_valid THEN 3 ELSE 0) <= bytes_written + room

(* The lines that were each found to fit, fit together: the last one may   *)
(* be a digit longer than what was counted, and three bytes were spared.   *)
LEMMA LinesFit ==
  ASSUME NEW start \in 0 .. MailCount, NEW stop \in start .. MailCount, NEW room \in Nat,
         \A k \in left : start < k /\ k <= stop =>
           CAN_WRITE_LIST_LINE(k, room + printed[start] - printed[k - 1])
  PROVE  printed[stop] - printed[start] \in Nat /\ printed[stop] - printed[start] <= room
<1> DEFINE S == {k \in left : start < k /\ k <= stop}
<1>0. /\ MailCount \in Nat /\ AddsUp(printed, Printed) /\ stop \in 0 .. MailCount /\ start <= stop
      /\ start \in Nat /\ stop \in Nat
  BY ListAssumption, LengthsAdd
<1>1. \A m \in 0 .. MailCount : printed[m] \in Nat
  BY <1>0 DEF AddsUp
<1>2. left \subseteq 1 .. MailCount
  BY DEF left
<1>3. printed[start] <= printed[stop]
  BY <1>0, AddsGrow
<1>4. CASE S = {}
  <2>1. ASSUME NEW m \in start + 1 .. stop PROVE Printed[m] = 0
    <3>1. m \in 1 .. MailCount /\ start < m /\ m <= stop
      BY <1>0
    <3>2. m \notin left
      BY <1>4, <3>1
    <3>3. QED
      BY <3>1, <3>2, LineLengths
  <2>2. printed[start] = printed[stop]
    BY <1>0, <2>1, AddsSame
  <2>3. printed[stop] \in Nat
    BY <1>0, <1>1
  <2>4. QED
    BY <2>2, <2>3
<1>5. CASE S # {}
  <2>1. S \in SUBSET Nat /\ \A k \in S : k <= stop
    <3>1. \A k \in S : k \in 1 .. MailCount /\ k <= stop
      BY <1>2
    <3>2. \A k \in 1 .. MailCount : k \in Nat
      BY <1>0
    <3> HIDE DEF S
    <3>3. QED
      BY <3>1, <3>2
  <2>2. PICK k \in S : \A m \in S : k >= m
    <3> HIDE DEF S
    <3>1. QED
      BY <1>0, <1>5, <2>1, GreatestExists
  <2>3. /\ k \in left /\ start < k /\ k <= stop /\ k \in 1 .. MailCount
        /\ k \in 0 .. MailCount /\ k - 1 \in 0 .. MailCount
    BY <1>0, <1>2
  <2>4. ASSUME NEW m \in k + 1 .. stop PROVE Printed[m] = 0
    <3>1. m \in 1 .. MailCount /\ start < m /\ m <= stop /\ ~(k >= m)
      BY <1>0, <2>3
    <3>2. m \notin left
      BY <2>2, <3>1
    <3>3. QED
      BY <3>1, <3>2, LineLengths
  <2>5. printed[k] = printed[stop]
    BY <1>0, <2>3, <2>4, AddsSame
  <2>6. printed[k] = printed[k - 1] + Printed[k] /\ Printed[k] <= Counted[k] + 1
        /\ Printed[k] \in Nat /\ Counted[k] \in Nat
    BY <1>0, <2>3, LineLengths DEF AddsUp
  <2>7. Counted[k] + 3 < room + printed[start] - printed[k - 1]
    <3>1. CAN_WRITE_LIST_LINE(k, room + printed[start] - printed[k - 1])
      BY <2>3
    <3>2. Counted[k] = LIST_LINE_LEN(k - 1, Octets[k])
      BY <2>3, LineLengths
    <3>3. QED
      BY <3>1, <3>2 DEF CAN_WRITE_LIST_LINE
  <2>8. printed[k - 1] \in Nat /\ printed[start] \in Nat /\ printed[stop] \in Nat
    BY <1>0, <1>1, <2>3
  <2>9. QED
    BY <1>3, <2>5, <2>6, <2>7, <2>8
<1>6. QED
  BY <1>4, <1>5

(* A visit keeps to the room it was given.                                 *)
LEMMA LinesVisitFits ==
  ASSUME NEW room \in Rooms, ListTypes, list_lines(room)
  PROVE  ListTypes' /\ Fits(room)
<1>1. PICK first, start, stop : Visit(room, first, start, stop)
  BY VisitIs
<1> DEFINE more == printed[stop] - printed[start]
<1>2. room \in Nat /\ bytes_written \in Nat /\ FIRST_LINE_LIST_LEN \in Nat /\ MailCount \in Nat
  BY ListAssumption, FirstLine DEF ListTypes
<1>3. /\ first \in Nat /\ first <= room /\ room - first \in Nat
      /\ start = resume(bytes_written + first)
      /\ stop = MailCount - Cardinality(unwritten(start, room - first))
      /\ bytes_written' = bytes_written + (first + printed[stop] - printed[start])
      /\ finished' = (stop = MailCount /\ room - (first + printed[stop] - printed[start]) >= 3)
      /\ deleted' = deleted
  BY <1>1, <1>2 DEF Visit
<1>4. start \in 0 .. MailCount
  BY <1>3, ResumeBounds
<1>5. /\ stop \in start .. MailCount
      /\ \A k \in left : start < k /\ k <= stop =>
           CAN_WRITE_LIST_LINE(k, (room - first) + printed[start] - printed[k - 1])
  BY <1>3, <1>4, StopsInTime
<1>6. more \in Nat /\ more <= room - first
  BY <1>3, <1>4, <1>5, LinesFit
<1>7. printed[stop] \in Nat /\ printed[start] \in Nat
  BY <1>2, <1>4, <1>5, LengthsAdd DEF AddsUp
<1>8. first + printed[stop] - printed[start] = first + more
  BY <1>3, <1>7
<1> HIDE DEF more
<1>9. bytes_written' = bytes_written + (first + more) /\ (finished' => room - (first + more) >= 3)
  BY <1>3, <1>8
<1>10. bytes_written' \in Nat
  BY <1>2, <1>3, <1>6, <1>9
<1>11. Fits(room)
  <2>1. CASE finished'
    BY <1>2, <1>3, <1>6, <1>9, <2>1 DEF Fits
  <2>2. CASE ~finished'
    BY <1>2, <1>3, <1>6, <1>9, <2>2 DEF Fits
  <2>3. QED
    BY <2>1, <2>2
<1>12. ListTypes'
  BY <1>3, <1>10 DEF ListTypes
<1>13. QED
  BY <1>11, <1>12

LEMMA VisitFits ==
  ASSUME NEW room \in Rooms, ListTypes, list_mails(room)
  PROVE  ListTypes' /\ Fits(room)
<1>1. CASE list_lines(room)
  BY <1>1, LinesVisitFits
<1>2. CASE list_nothing(room)
  <2>1. /\ ~is_dir_valid /\ 27 < room /\ bytes_written' = bytes_written + 27
        /\ deleted' = deleted
    BY <1>2 DEF list_nothing, NO_MAILDROP_LEN
  <2>2. room \in Nat
    BY ListAssumption
  <2>3. QED
    BY <2>1, <2>2 DEF ListTypes, Fits
<1>3. QED
  BY <1>1, <1>2 DEF list_mails

(* The marks and the count of bytes are what the lemmas need.              *)
LEMMA ListTypesHold == ListSpec => []ListTypes
<1>1. ListInit => ListTypes
  BY DEF ListInit, ListTypes
<1>2. ListTypes /\ [ListNext]_list_vars => ListTypes'
  <2> SUFFICES ASSUME ListTypes, [ListNext]_list_vars PROVE ListTypes'
    OBVIOUS
  <2>1. ASSUME NEW room \in Rooms, list_mails(room) PROVE ListTypes'
    BY <2>1, VisitFits
  <2>2. CASE UNCHANGED list_vars
    BY <2>2 DEF list_vars, ListTypes
  <2>3. QED
    BY <2>1, <2>2 DEF ListNext
<1>3. QED
  BY <1>1, <1>2, PTL DEF ListSpec

(* Whatever the messages, their sizes, the marks and the room a visit      *)
(* finds, what it writes fits that room: the lengths the code tests        *)
(* (mail.c:302) are those of the indices, and what it prints (mail.c:306)  *)
(* may be one longer, which the three spare bytes cover.                   *)
THEOREM VisitsFit ==
  ListSpec => [][\A room \in Rooms : list_mails(room) => Fits(room)]_list_vars
<1>1. ListTypes => \A room \in Rooms : list_mails(room) => Fits(room)
  BY VisitFits
<1>2. ListTypes /\ [ListNext]_list_vars => [\A room \in Rooms : list_mails(room) => Fits(room)]_list_vars
  BY <1>1
<1>3. QED
  BY <1>2, ListTypesHold, PTL DEF ListSpec

(* The lines up to a message and those after it.                           *)
LEMMA LinesUpTo ==
  ASSUME NEW b \in Nat, NEW c \in Nat, b <= c
  PROVE  /\ lines(0, b) \in Seq(Nat) /\ lines(b, c) \in Seq(Nat)
         /\ lines(0, c) = lines(0, b) \o lines(b, c)
<1>1. 0 \in Nat /\ 0 <= b
  OBVIOUS
<1>2. QED
  BY <1>1, LinesSplit

(* Who changes no mark changes no line.                                    *)
LEMMA SameLines ==
  ASSUME deleted' = deleted
  PROVE  /\ FIRST_LINE_LIST_LEN' = FIRST_LINE_LIST_LEN
         /\ printed' = printed
         /\ \A a, b : lines(a, b)' = lines(a, b)
<1>1. left' = left
  BY DEF left
<1>2. total_octets' = total_octets
  <2> DEFINE Is(g, S) == g = [T \in SUBSET S |->
                                IF T = {} THEN 0
                                ELSE Octets[CHOOSE x \in T : TRUE] + g[T \ {CHOOSE x \in T : TRUE}]]
             Sum(S) == (CHOOSE g : Is(g, S))[S]
  <2>1. total_octets = Sum(left)
    BY DEF total_octets, MapThenSumSet, MapThenFoldSet
  <2>2. total_octets' = Sum(left')
    BY DEF total_octets, MapThenSumSet, MapThenFoldSet
  <2> HIDE DEF Sum
  <2>3. QED
    BY <1>1, <2>1, <2>2
<1>3. FIRST_LINE_LIST_LEN' = FIRST_LINE_LIST_LEN
  BY <1>1, <1>2 DEF FIRST_LINE_LIST_LEN
<1>4. printed' = printed
  <2>1. \A g : [m \in 0 .. MailCount |-> IF m = 0 THEN 0
                  ELSE g[m - 1] + IF m \in deleted' THEN 0 ELSE LIST_LINE_LEN(m, Octets[m])]
             = [m \in 0 .. MailCount |-> IF m = 0 THEN 0
                  ELSE g[m - 1] + IF m \in deleted THEN 0 ELSE LIST_LINE_LEN(m, Octets[m])]
    OBVIOUS
  <2>2. QED
    BY <2>1 DEF printed
<1>5. \A a, b : lines(a, b)' = lines(a, b)
  BY <1>1 DEF lines
<1>6. QED
  BY <1>3, <1>4, <1>5

(* The answer was written up to message p, and its lengths say so.         *)
Reached(p) ==
  /\ listed = lines(0, p)
  /\ IF bytes_written = 0 THEN p = 0 ELSE bytes_written = FIRST_LINE_LIST_LEN + printed[p]
  /\ finished => p = MailCount

(* The inductive invariant.                                                *)
ListInv ==
  /\ is_dir_valid => deleted \in Deletions /\ \E p \in 0 .. MailCount : Reached(p)
  /\ ~is_dir_valid => listed = <<>>

(* A visit leads from one message to a later one.                          *)
LEMMA LinesVisitReaches ==
  ASSUME SameDigits, NEW room \in Rooms, ListInv, list_lines(room)
  PROVE  ListInv'
<1>0. is_dir_valid /\ is_dir_valid' = is_dir_valid /\ deleted \in Deletions
  BY DEF list_lines, ListInv
<1>1. PICK p \in 0 .. MailCount : Reached(p)
  BY <1>0 DEF ListInv
<1>2. PICK first, start, stop : Visit(room, first, start, stop)
  BY VisitIs
<1> DEFINE F == FIRST_LINE_LIST_LEN
<1>3. /\ first = IF bytes_written = 0 THEN F ELSE 0
      /\ start = resume(bytes_written + first)
      /\ stop = MailCount - Cardinality(unwritten(start, room - first))
      /\ bytes_written' = bytes_written + (first + printed[stop] - printed[start])
      /\ listed' = listed \o lines(start, stop)
      /\ finished' = (stop = MailCount /\ room - (first + printed[stop] - printed[start]) >= 3)
      /\ deleted' = deleted
  BY <1>2 DEF Visit
<1>4. /\ MailCount \in Nat /\ F \in Nat /\ F > 0 /\ AddsUp(printed, Printed)
      /\ previous_sent = printed
  BY <1>0, ListAssumption, FirstLine, LengthsAdd, SameLengths
<1>5. \A m \in 0 .. MailCount : printed[m] \in Nat
  BY <1>4 DEF AddsUp
<1>6. bytes_written + first = F + printed[p] /\ bytes_written \in Nat /\ first \in Nat
  <2>1. printed[0] = 0 /\ printed[p] \in Nat
    BY <1>4, <1>5 DEF AddsUp
  <2>2. IF bytes_written = 0 THEN p = 0 ELSE bytes_written = F + printed[p]
    BY <1>1 DEF Reached
  <2>3. QED
    BY <1>3, <1>4, <2>1, <2>2
<1>7. /\ start \in 0 .. p /\ printed[start] = printed[p]
      /\ \A m \in start + 1 .. p : m \notin left
  BY <1>3, <1>4, <1>6, ResumesWhereItWas
<1>8. start \in 0 .. MailCount /\ start \in Nat /\ p \in Nat /\ start <= p
  BY <1>4, <1>7
<1>9. stop \in start .. MailCount
  BY <1>3, <1>8, StopsInTime
<1>10. stop \in 0 .. MailCount /\ stop \in Nat /\ start <= stop
  BY <1>4, <1>8, <1>9
<1>11. listed' = lines(0, stop)
  <2>1. listed = lines(0, start)
    <3>1. listed = lines(0, p) /\ lines(start, p) = <<>>
      BY <1>1, <1>7, <1>8, LinesSkip DEF Reached
    <3>2. lines(0, start) \in Seq(Nat) /\ lines(0, p) = lines(0, start) \o lines(start, p)
      BY <1>8, LinesUpTo
    <3>3. \A s \in Seq(Nat) : s \o <<>> = s
      OBVIOUS
    <3>4. QED
      BY <3>1, <3>2, <3>3
  <2>2. lines(0, stop) = lines(0, start) \o lines(start, stop)
    BY <1>8, <1>10, LinesUpTo
  <2>3. QED
    BY <1>3, <2>1, <2>2
<1>12. bytes_written' = F + printed[stop] /\ bytes_written' # 0
  <2> DEFINE a == printed[start]
             b == printed[stop]
  <2>1. a \in Nat /\ b \in Nat /\ bytes_written + first = F + a
    BY <1>5, <1>6, <1>7, <1>8, <1>10
  <2>2. bytes_written' = bytes_written + (first + b - a)
    BY <1>3
  <2> HIDE DEF a, b, F
  <2>3. bytes_written' = F + b /\ bytes_written' # 0
    BY <1>4, <1>6, <2>1, <2>2
  <2>4. QED
    BY <2>3 DEF b
<1>13. deleted' = deleted
  BY <1>3
<1>14. \A m : lines(0, m)' = lines(0, m)
  BY <1>13, SameLines
<1>15. printed' = printed /\ FIRST_LINE_LIST_LEN' = FIRST_LINE_LIST_LEN
  BY <1>13, SameLines
<1>16. Reached(stop)'
  <2>1. finished' => stop = MailCount
    BY <1>3
  <2>2. listed' = lines(0, stop)'
    BY <1>11, <1>14
  <2>3. bytes_written' # 0 /\ bytes_written' = FIRST_LINE_LIST_LEN' + printed'[stop]
    BY <1>12, <1>15
  <2>4. QED
    BY <2>1, <2>2, <2>3 DEF Reached
<1>17. QED
  <2>1. deleted' \in Deletions /\ is_dir_valid'
    BY <1>0, <1>3
  <2>2. \E p1 \in 0 .. MailCount : Reached(p1)'
    BY <1>10, <1>16
  <2>3. QED
    BY <2>1, <2>2 DEF ListInv

LEMMA VisitReaches ==
  ASSUME SameDigits, NEW room \in Rooms, ListInv, list_mails(room)
  PROVE  ListInv'
<1>1. CASE list_lines(room)
  BY <1>1, LinesVisitReaches
<1>2. CASE list_nothing(room)
  BY <1>2 DEF list_nothing, ListInv
<1>3. QED
  BY <1>1, <1>2 DEF list_mails

(* The answer is always a whole number of lines from the beginning, and    *)
(* bytes_written says which (mail.c:284), in every maildrop in which no    *)
(* unmarked message has one digit more than its index.                     *)
THEOREM ListIsResumed == ASSUME SameDigits PROVE ListSpec => []ListInv
<1>1. ListInit => ListInv
  <2> SUFFICES ASSUME ListInit PROVE ListInv
    OBVIOUS
  <2>1. 0 \in 0 .. MailCount /\ lines(0, 0) = <<>>
    BY ListAssumption, LinesNone
  <2>2. Reached(0)
    BY <2>1 DEF ListInit, Reached
  <2>3. QED
    BY <2>1, <2>2 DEF ListInit, ListInv
<1>2. ListInv /\ [ListNext]_list_vars => ListInv'
  <2> SUFFICES ASSUME ListInv, [ListNext]_list_vars PROVE ListInv'
    OBVIOUS
  <2>1. ASSUME NEW room \in Rooms, list_mails(room) PROVE ListInv'
    BY <2>1, VisitReaches
  <2>2. CASE UNCHANGED list_vars
    <3>1. UNCHANGED <<is_dir_valid, deleted, bytes_written, listed, finished>>
      BY <2>2 DEF list_vars
    <3>2. deleted' = deleted
      BY <3>1
    <3>3. \A m : lines(0, m)' = lines(0, m)
      BY <3>2, SameLines
    <3>4. printed' = printed /\ FIRST_LINE_LIST_LEN' = FIRST_LINE_LIST_LEN
      BY <3>2, SameLines
    <3>5. \A p \in 0 .. MailCount : Reached(p) => Reached(p)'
      BY <3>1, <3>3, <3>4 DEF Reached
    <3>6. QED
      BY <3>1, <3>5 DEF ListInv
  <2>3. QED
    BY <2>1, <2>2 DEF ListNext
<1>3. QED
  BY <1>1, <1>2, PTL DEF ListSpec

(* In such a maildrop every unmarked message is listed once and in order,  *)
(* wherever the visits are cut (mail.c:284-312).                           *)
THEOREM NoneIsSkipped == ASSUME SameDigits PROVE ListSpec => []ListsEachOnce
<1>1. ListInv => ListsEachOnce
  <2>0. ASSUME ListInv, ~is_dir_valid PROVE ListsEachOnce
    <3>1. listed = <<>>
      BY <2>0 DEF ListInv
    <3>2. Len(<<>>) = 0 /\ SubSeq(<<>>, 1, 0) = <<>>
      OBVIOUS
    <3>3. QED
      BY <2>0, <3>1, <3>2 DEF ListsEachOnce
  <2> SUFFICES ASSUME ListInv, is_dir_valid PROVE ListsEachOnce
    BY <2>0
  <2>1. PICK p \in 0 .. MailCount : Reached(p)
    BY DEF ListInv
  <2>2. listed = lines(0, p) /\ (finished => p = MailCount)
    BY <2>1 DEF Reached
  <2>3. MailCount \in Nat /\ p \in Nat /\ p <= MailCount
    BY ListAssumption
  <2> DEFINE s == lines(0, p)
             t == lines(p, MailCount)
             all == lines(0, MailCount)
  <2>4. s \in Seq(Nat) /\ t \in Seq(Nat) /\ all = s \o t
    BY <2>3, LinesUpTo
  <2> HIDE DEF s, t, all
  <2>5. Len(s) <= Len(all) /\ SubSeq(all, 1, Len(s)) = s
    <3>1. Len(s) \in Nat /\ Len(t) \in Nat /\ Len(all) = Len(s) + Len(t)
      BY <2>4, ConcatProperties
    <3>2. SubSeq(s \o t, 1, Len(s)) = s
      BY <2>4, SubSeqOfConcat1, SubSeqFull
    <3>3. QED
      BY <2>4, <3>1, <3>2
  <2>6. finished => s = all
    BY <2>2 DEF s, all
  <2>7. listed = s
    BY <2>2 DEF s
  <2>8. /\ Len(listed) <= Len(all) /\ listed = SubSeq(all, 1, Len(listed))
        /\ finished => listed = all
    BY <2>5, <2>6, <2>7
  <2>9. QED
    BY <2>8 DEF ListsEachOnce, all
<1>2. QED
  BY <1>1, ListIsResumed, PTL

(* A maildrop of up to nine messages is one, whatever is marked and        *)
(* however long the messages are.                                          *)
THEOREM NineMessages == ASSUME MailCount <= 9 PROVE ListSpec => []ListsEachOnce
<1>1. SameDigits
  <2>1. ASSUME NEW m \in 1 .. MailCount PROVE num_string_size[m - 1] = num_string_size[m]
    <3>1. m \in Nat /\ m - 1 \in Nat /\ m < 10 /\ m - 1 < 10
      BY ListAssumption
    <3>2. num_string_size[m] = 1 /\ num_string_size[m - 1] = 1
      BY <3>1, DigitsUnfold
    <3>3. QED
      BY <3>2
  <2>2. QED
    BY <2>1 DEF SameDigits
<1>2. QED
  BY <1>1, NoneIsSkipped

(* The whole buffer holds the end of the answer, and each line with the    *)
(* three bytes that are spared.                                            *)
RoomForALine ==
  /\ WriteSize >= 3
  /\ \A m \in 1 .. MailCount : LIST_LINE_LEN(m - 1, Octets[m]) + 3 < WriteSize

(* A visit that finds the whole buffer writes a line or ends the answer:   *)
(* none is in vain (mail.c:300-312), which is what the end of the answer   *)
(* rests on.  Said of the action itself: within [][...]_list_vars a visit  *)
(* in vain would pass for a step that changes nothing.                     *)
THEOREM VisitsAdvance ==
  ASSUME RoomForALine, ListTypes, list_mails(WriteSize)
  PROVE  finished' \/ bytes_written' > bytes_written
<1>0. CASE list_nothing(WriteSize)
  BY <1>0 DEF list_nothing
<1> SUFFICES ASSUME list_lines(WriteSize) PROVE finished' \/ bytes_written' > bytes_written
  BY <1>0 DEF list_mails
<1>1. PICK first, start, stop : Visit(WriteSize, first, start, stop)
  BY VisitIs
<1>2. /\ bytes_written \in Nat /\ FIRST_LINE_LIST_LEN \in Nat /\ FIRST_LINE_LIST_LEN > 0
      /\ MailCount \in Nat /\ WriteSize \in Nat /\ AddsUp(printed, Printed)
  BY ListAssumption, FirstLine, LengthsAdd DEF ListTypes
<1>3. /\ first = IF bytes_written = 0 THEN FIRST_LINE_LIST_LEN ELSE 0
      /\ start = resume(bytes_written + first)
      /\ stop = MailCount - Cardinality(unwritten(start, WriteSize - first))
      /\ bytes_written' = bytes_written + (first + printed[stop] - printed[start])
      /\ finished' = (stop = MailCount /\ WriteSize - (first + printed[stop] - printed[start]) >= 3)
  BY <1>1 DEF Visit
<1>4. start \in 0 .. MailCount
  BY <1>3, ResumeBounds
<1>5. /\ stop \in start .. MailCount
      /\ \A m \in start + 1 .. MailCount :
           (\A k \in left : start < k /\ k <= m =>
              CAN_WRITE_LIST_LINE(k, (WriteSize - first) + printed[start] - printed[k - 1])) => m <= stop
  BY <1>3, <1>4, StopsInTime
<1>6. stop \in 0 .. MailCount /\ start <= stop /\ start \in Nat /\ stop \in Nat
  BY <1>2, <1>4, <1>5
<1>7. \A m \in 0 .. MailCount : printed[m] \in Nat
  BY <1>2 DEF AddsUp
<1>8. printed[start] <= printed[stop] /\ printed[start] \in Nat /\ printed[stop] \in Nat
  BY <1>2, <1>4, <1>6, <1>7, AddsGrow
<1>9. CASE bytes_written = 0
  BY <1>2, <1>3, <1>8, <1>9
<1>10. CASE bytes_written # 0
  <2>1. first = 0
    BY <1>3, <1>10
  <2> DEFINE S == {k \in left : start < k}
  <2>2. \A k \in left : k \in 1 .. MailCount
    BY DEF left
  <2>3. CASE S = {}
    <3>1. stop = MailCount
      <4>1. CASE start = MailCount
        BY <1>2, <1>5, <4>1
      <4>2. CASE start # MailCount
        <5>1. MailCount \in start + 1 .. MailCount
          BY <1>2, <1>4, <4>2
        <5>2. \A k \in left : ~(start < k)
          BY <2>3
        <5>3. MailCount <= stop
          BY <1>5, <5>1, <5>2
        <5>4. QED
          BY <1>2, <1>5, <5>3
      <4>3. QED
        BY <4>1, <4>2
    <3>2. ASSUME NEW m \in start + 1 .. stop PROVE Printed[m] = 0
      <4>1. m \in 1 .. MailCount /\ start < m
        BY <1>2, <1>6
      <4>2. m \notin left
        BY <2>3, <4>1
      <4>3. QED
        BY <4>1, <4>2, LineLengths
    <3>3. printed[start] = printed[stop]
      BY <1>2, <1>4, <1>6, <3>2, AddsSame
    <3>4. WriteSize >= 3
      BY DEF RoomForALine
    <3>5. stop = MailCount /\ WriteSize - (first + printed[stop] - printed[start]) >= 3
      BY <1>2, <1>8, <2>1, <3>1, <3>3, <3>4
    <3>6. finished'
      BY <1>3, <3>5
    <3>7. QED
      BY <3>6
  <2>4. CASE S # {}
    <3>1. S \in SUBSET Nat
      <4>1. \A k \in S : k \in 1 .. MailCount
        BY <2>2
      <4>2. \A k \in 1 .. MailCount : k \in Nat
        BY <1>2
      <4> HIDE DEF S
      <4>3. QED
        BY <4>1, <4>2
    <3>2. PICK k \in S : \A m \in S : k <= m
      <4> HIDE DEF S
      <4>1. QED
        BY <2>4, <3>1, LeastExists
    <3>3. /\ k \in left /\ start < k /\ k \in 1 .. MailCount /\ k \in start + 1 .. MailCount
          /\ k - 1 \in 0 .. MailCount /\ start <= k - 1 /\ k \in 0 .. MailCount
      BY <1>2, <1>4, <2>2
    <3>4. ASSUME NEW m \in start + 1 .. k - 1 PROVE Printed[m] = 0
      <4>1. m \in 1 .. MailCount /\ start < m /\ ~(k <= m)
        BY <1>2, <1>4, <3>3
      <4>2. m \notin left
        BY <3>2, <4>1
      <4>3. QED
        BY <4>1, <4>2, LineLengths
    <3>5. printed[start] = printed[k - 1]
      BY <1>2, <1>4, <3>3, <3>4, AddsSame
    <3>6. CAN_WRITE_LIST_LINE(k, (WriteSize - first) + printed[start] - printed[k - 1])
      <4>1. LIST_LINE_LEN(k - 1, Octets[k]) + 3 < WriteSize
        BY <3>3 DEF RoomForALine
      <4>2. (WriteSize - first) + printed[start] - printed[k - 1] = WriteSize
        BY <1>2, <1>8, <2>1, <3>5
      <4>3. QED
        BY <4>1, <4>2 DEF CAN_WRITE_LIST_LINE
    <3>7. ASSUME NEW j \in left, start < j, j <= k
          PROVE  CAN_WRITE_LIST_LINE(j, (WriteSize - first) + printed[start] - printed[j - 1])
      <4>1. k <= j
        BY <3>2, <3>7
      <4>2. j = k
        BY <2>2, <3>3, <3>7, <4>1
      <4>3. QED
        BY <3>6, <4>2
    <3>8. k <= stop
      BY <1>5, <3>3, <3>7
    <3>9. printed[k] = printed[k - 1] + Printed[k] /\ Printed[k] \in Nat /\ Printed[k] > 0
      BY <1>2, <3>3, LineLengths DEF AddsUp
    <3>10. printed[k] <= printed[stop]
      BY <1>2, <1>6, <3>3, <3>8, AddsGrow
    <3>11. printed[start] < printed[stop]
      BY <1>7, <1>8, <3>3, <3>5, <3>9, <3>10
    <3>12. QED
      BY <1>2, <1>3, <1>8, <2>1, <3>11
  <2>5. QED
    BY <2>3, <2>4
<1>11. QED
  BY <1>9, <1>10
=============================================================================
