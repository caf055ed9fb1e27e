---------------------------- MODULE BufferProofs ----------------------------
(***************************************************************************)
(* The invariant of buffer.h, and that the pointers implement the queue of *)
(* ByteQueue, for buffers of every size and content.                       *)
(***************************************************************************)
EXTENDS Buffer, SequenceTheorems, TLAPS

(* No operation takes the pointers out of order.                           *)
LEMMA PointersStep == PointersInOrder /\ [Next]_vars => PointersInOrder'
<1> SUFFICES ASSUME PointersInOrder, [Next]_vars PROVE PointersInOrder'
  OBVIOUS
<1> USE SizeAssumption DEF PointersInOrder, can_write, can_read
<1>1. ASSUME NEW s \in Offers, buffer_write_n(s) PROVE PointersInOrder'
  <2>1. Len(s) \in Nat
    BY <1>1 DEF Offers
  <2>2. QED
    BY <1>1, <2>1 DEF buffer_write_n, write_adv
<1>2. ASSUME NEW n \in 0 .. Size, buffer_read_adv(n) PROVE PointersInOrder'
  BY <1>2 DEF buffer_read_adv, reset
<1>3. CASE buffer_compact
  BY <1>3 DEF buffer_compact, reset
<1>4. ASSUME NEW s \in Offers, NEW pos \in 1 .. Len(s), buffer_write_chunk(s, pos)
      PROVE  PointersInOrder'
  <2>1. Len(SubSeq(s, pos + 1, Len(s))) \in Nat
    <3>1. s \in Seq(Byte)
      BY DEF Offers
    <3>2. QED
      BY <3>1
  <2>2. QED
    BY <1>4, <2>1 DEF buffer_write_chunk, buffer_write_n, write_adv
<1>5. ASSUME NEW c \in Byte, buffer_write(c) PROVE PointersInOrder'
  BY <1>5 DEF buffer_write, write_adv, vars
<1>6. CASE buffer_read
  BY <1>6 DEF buffer_read, buffer_read_adv, reset, vars
<1>7. CASE UNCHANGED vars
  BY <1>7 DEF vars
<1>8. QED
  BY <1>1, <1>2, <1>3, <1>4, <1>5, <1>6, <1>7 DEF Next

(* No sequence of operations that respects what buffer_write_ptr() and     *)
(* buffer_read_ptr() report makes an assertion of buffer.c fail.           *)
THEOREM PointersStayInOrder == Spec => []PointersInOrder
<1>1. Init => PointersInOrder
  BY SizeAssumption DEF Init, PointersInOrder
<1>2. PointersInOrder /\ [Next]_vars => PointersInOrder'
  BY PointersStep
<1>3. QED
  BY <1>1, <1>2, PTL DEF Spec

-----------------------------------------------------------------------------
(* The buffer holds bytes, and its pointers are in order.                  *)
BufferInv == PointersInOrder /\ data \in [1 .. Size -> Byte]

(* The fields of a queue.                                                 *)
IsQueue(q, g, b) == q = [gap |-> g, bytes |-> b]

(* What appending and compacting do to the fields of a queue.              *)
LEMMA QueueFields ==
  ASSUME NEW g, NEW b, NEW s, NEW q, IsQueue(q, g, b)
  PROVE  /\ Queue!Append_(q, s) = [gap |-> g, bytes |-> b \o s]
         /\ Queue!Compact(q) = [gap |-> 0, bytes |-> b]
<1> USE DEF IsQueue
<1> DEFINE c == b \o s
<1>1. Queue!Append_(q, s) = [q EXCEPT !.bytes = c]
  BY DEF Queue!Append_
<1>2. [q EXCEPT !.bytes = c] = [gap |-> g, bytes |-> c]
  <2> HIDE DEF c
  <2>1. QED
    OBVIOUS
<1>3. [q EXCEPT !.gap = 0] = [gap |-> 0, bytes |-> b]
  OBVIOUS
<1>4. QED
  BY <1>1, <1>2, <1>3 DEF Queue!Compact

(* What lies between two positions of an array of bytes.                   *)
LEMMA Window ==
  ASSUME NEW d \in [1 .. Size -> Byte], NEW r \in Nat, NEW w \in Nat, r <= w, w <= Size
  PROVE  /\ SubSeq(d, r + 1, w) \in Seq(Byte)
         /\ Len(SubSeq(d, r + 1, w)) = w - r
         /\ \A i \in 1 .. w - r : SubSeq(d, r + 1, w)[i] = d[r + i]
<1>1. \A i \in r + 1 .. w : d[i] \in Byte
  BY SizeAssumption
<1>2. r + 1 \in Int /\ w \in Int
  OBVIOUS
<1>3. /\ SubSeq(d, r + 1, w) \in Seq(Byte)
      /\ Len(SubSeq(d, r + 1, w)) = IF r + 1 <= w THEN w - (r + 1) + 1 ELSE 0
      /\ \A i \in 1 .. w - (r + 1) + 1 : SubSeq(d, r + 1, w)[i] = d[(r + 1) + i - 1]
  BY <1>1, <1>2, SubSeqProperties
<1>4. \A i \in 1 .. w - r : (r + 1) + i - 1 = r + i
  OBVIOUS
<1>5. w - (r + 1) + 1 = w - r
  OBVIOUS
<1>6. Len(SubSeq(d, r + 1, w)) = w - r
  BY <1>3, <1>5
<1>7. QED
  BY <1>3, <1>4, <1>5, <1>6

(* The first n members of a sequence.                                      *)
LEMMA Prefix ==
  ASSUME NEW s \in Seq(Byte), NEW n \in 0 .. Len(s)
  PROVE  /\ SubSeq(s, 1, n) \in Seq(Byte)
         /\ Len(SubSeq(s, 1, n)) = n
         /\ \A i \in 1 .. n : SubSeq(s, 1, n)[i] = s[i]
<1>1. /\ SubSeq(s, 1, n) \in Seq(Byte)
      /\ Len(SubSeq(s, 1, n)) = IF 1 <= n THEN n - 1 + 1 ELSE 0
      /\ \A i \in 1 .. n - 1 + 1 : SubSeq(s, 1, n)[i] = s[1 + i - 1]
  BY SubSeqProperties
<1>2. QED
  BY <1>1

(* Bytes that fit are appended to what is between the pointers.            *)
LEMMA WriteAppends ==
  ASSUME BufferInv, NEW s \in Seq(Byte), NEW n \in 0 .. Len(s), n <= can_write,
         write_adv(s, n)
  PROVE  queue' = [gap |-> read, bytes |-> SubSeq(data, read + 1, write) \o SubSeq(s, 1, n)]
<1> DEFINE old == SubSeq(data, read + 1, write)
           new == SubSeq(data', read + 1, write + n)
           add == SubSeq(s, 1, n)
<1>1. /\ read \in Nat /\ write \in Nat /\ Size \in Nat /\ n \in Nat /\ Len(s) \in Nat
      /\ read <= write /\ write <= Size /\ n <= Len(s) /\ write + n <= Size
      /\ data \in [1 .. Size -> Byte]
  BY SizeAssumption DEF BufferInv, PointersInOrder, can_write
<1>2. write' = write + n /\ read' = read
  BY DEF write_adv
<1>3. /\ \A i \in 1 .. Size : data'[i] = IF i \in write + 1 .. write + n THEN s[i - write] ELSE data[i]
      /\ DOMAIN data' = 1 .. Size
      /\ data' = [i \in 1 .. Size |-> data'[i]]
  BY DEF write_adv
<1>4. data' \in [1 .. Size -> Byte]
  <2>1. ASSUME NEW i \in 1 .. Size PROVE data'[i] \in Byte
    <3>1. CASE i \in write + 1 .. write + n
      <4>1. i - write \in 1 .. Len(s)
        BY <1>1, <3>1
      <4>2. QED
        BY <1>3, <3>1, <4>1, ElementOfSeq
    <3>2. CASE i \notin write + 1 .. write + n
      BY <1>1, <1>3, <3>2
    <3>3. QED
      BY <3>1, <3>2
  <2>2. QED
    BY <1>3, <2>1
<1>5. old \in Seq(Byte) /\ Len(old) = write - read /\ \A i \in 1 .. write - read : old[i] = data[read + i]
  BY <1>1, Window
<1>6. /\ new \in Seq(Byte) /\ Len(new) = (write + n) - read
      /\ \A i \in 1 .. (write + n) - read : new[i] = data'[read + i]
  <2>1. write + n \in Nat /\ read <= write + n
    BY <1>1
  <2>2. QED
    BY <1>1, <1>4, <2>1, Window
<1>7. add \in Seq(Byte) /\ Len(add) = n /\ \A i \in 1 .. n : add[i] = s[i]
  BY Prefix
<1> HIDE DEF old, new, add
<1>8. new = old \o add
  <2>1. /\ old \o add \in Seq(Byte) /\ Len(old \o add) = Len(old) + Len(add)
        /\ \A i \in 1 .. Len(old) + Len(add) :
             (old \o add)[i] = IF i <= Len(old) THEN old[i] ELSE add[i - Len(old)]
    BY <1>5, <1>7, ConcatProperties
  <2>2. Len(new) = Len(old \o add)
    BY <1>1, <1>5, <1>6, <1>7, <2>1
  <2>3. ASSUME NEW i \in 1 .. Len(new) PROVE new[i] = (old \o add)[i]
    <3>1. /\ i \in Nat /\ 1 <= i /\ i <= (write + n) - read
          /\ new[i] = data'[read + i]
          /\ read + i \in 1 .. Size
      BY <1>1, <1>6, <2>3
    <3>2. i \in 1 .. Len(old) + Len(add)
      BY <1>1, <1>5, <1>7, <3>1
    <3>3. CASE i <= Len(old)
      <4>1. i \in 1 .. write - read /\ ~(read + i \in write + 1 .. write + n)
        BY <1>1, <1>5, <3>1, <3>3
      <4>2. QED
        BY <1>3, <1>5, <2>1, <3>1, <3>2, <3>3, <4>1
    <3>4. CASE ~(i <= Len(old))
      <4>1. /\ read + i \in write + 1 .. write + n
            /\ (read + i) - write = i - Len(old) /\ i - Len(old) \in 1 .. n
        BY <1>1, <1>5, <3>1, <3>4
      <4>2. QED
        BY <1>3, <1>7, <2>1, <3>1, <3>2, <3>4, <4>1
    <3>5. QED
      BY <3>3, <3>4
  <2>4. QED
    BY <1>6, <2>1, <2>2, <2>3, SeqEqual
<1>9. QED
  BY <1>2, <1>8 DEF queue, old, new, add

(* buffer_write_n() does what the queue does: it appends what fits.        *)
LEMMA WriteNAppends ==
  ASSUME BufferInv, NEW s \in Seq(Byte), buffer_write_n(s)
  PROVE  queue' = Queue!WriteN(queue, s, Size)
<1> DEFINE old == SubSeq(data, read + 1, write)
<1>1. /\ read \in Nat /\ write \in Nat /\ Size \in Nat /\ Len(s) \in Nat
      /\ read <= write /\ write <= Size
      /\ data \in [1 .. Size -> Byte]
  BY SizeAssumption DEF BufferInv, PointersInOrder
<1>2. Len(old) = write - read
  BY <1>1, Window
<1>3. queue = [gap |-> read, bytes |-> old] /\ IsQueue(queue, read, old)
  BY DEF queue, IsQueue
<1> HIDE DEF old
<1>4. Queue!Room(queue, Size) = can_write /\ can_write \in Nat
  BY <1>1, <1>2, <1>3 DEF Queue!Room, can_write
<1>5. CASE Len(s) <= can_write
  <2>0. (IF Len(s) < can_write THEN Len(s) ELSE can_write) = Len(s)
    BY <1>1, <1>4, <1>5
  <2>1. write_adv(s, Len(s))
    BY <2>0 DEF buffer_write_n
  <2>2. SubSeq(s, 1, Len(s)) = s
    BY SubSeqFull
  <2>3. Len(s) \in 0 .. Len(s)
    BY <1>1
  <2>4. queue' = [gap |-> read, bytes |-> old \o SubSeq(s, 1, Len(s))]
    BY <1>5, <2>1, <2>3, WriteAppends DEF old
  <2>5. Queue!WriteN(queue, s, Size) = Queue!Append_(queue, s)
    BY <1>4, <1>5 DEF Queue!WriteN
  <2>6. Queue!Append_(queue, s) = [gap |-> read, bytes |-> old \o s]
    BY <1>3, QueueFields
  <2>7. QED
    BY <2>2, <2>4, <2>5, <2>6
<1>6. CASE ~(Len(s) <= can_write)
  <2>0. (IF Len(s) < can_write THEN Len(s) ELSE can_write) = can_write
    BY <1>1, <1>4, <1>6
  <2>1. write_adv(s, can_write)
    BY <2>0 DEF buffer_write_n
  <2>2. can_write \in 0 .. Len(s) /\ can_write <= can_write
    BY <1>1, <1>4, <1>6
  <2>3. queue' = [gap |-> read, bytes |-> old \o SubSeq(s, 1, can_write)]
    BY <2>1, <2>2, WriteAppends DEF old
  <2>4. Queue!WriteN(queue, s, Size) = Queue!Append_(queue, SubSeq(s, 1, can_write))
    BY <1>4, <1>6 DEF Queue!WriteN
  <2>5. \A t : Queue!Append_(queue, t) = [gap |-> read, bytes |-> old \o t]
    BY SMTT(30), <1>3, QueueFields
  <2>6. QED
    BY <2>3, <2>4, <2>5
<1>7. QED
  BY <1>5, <1>6

(* Reading takes bytes from the front, and an empty buffer starts anew.    *)
LEMMA ReadAdvances ==
  ASSUME BufferInv, NEW n \in Nat, buffer_read_adv(n)
  PROVE  queue' = Queue!ReadAdv(queue, n)
<1> DEFINE old == SubSeq(data, read + 1, write)
<1>1. /\ read \in Nat /\ write \in Nat /\ Size \in Nat
      /\ read <= write /\ write <= Size /\ n <= write - read
      /\ data \in [1 .. Size -> Byte]
  BY SizeAssumption DEF BufferInv, PointersInOrder, buffer_read_adv, can_read
<1>2. old \in Seq(Byte) /\ Len(old) = write - read /\ \A i \in 1 .. write - read : old[i] = data[read + i]
  BY <1>1, Window
<1>3. queue = [gap |-> read, bytes |-> old] /\ IsQueue(queue, read, old)
  BY DEF queue, IsQueue
<1>4. CASE read + n = write
  <2>1. read' = 0 /\ write' = 0
    BY <1>4 DEF buffer_read_adv, reset
  <2>2. SubSeq(data', 1, 0) = << >>
    BY SubSeqEmpty
  <2>3. queue' = [gap |-> 0, bytes |-> << >>]
    BY <2>1, <2>2 DEF queue
  <2>4. n = Len(old)
    BY <1>1, <1>2, <1>4
  <2>5. QED
    BY <1>3, <2>3, <2>4 DEF Queue!ReadAdv, Queue!Empty
<1>5. CASE read + n # write
  <2>1. read' = read + n /\ write' = write /\ data' = data
    BY <1>5 DEF buffer_read_adv
  <2>2. n # Len(old)
    BY <1>1, <1>2, <1>5
  <2> DEFINE new == SubSeq(data, (read + n) + 1, write)
             rest == SubSeq(old, n + 1, Len(old))
  <2>3. /\ new \in Seq(Byte) /\ Len(new) = write - (read + n)
        /\ \A i \in 1 .. write - (read + n) : new[i] = data[(read + n) + i]
    <3>1. read + n \in Nat /\ read + n <= write
      BY <1>1
    <3>2. QED
      BY <1>1, <3>1, Window
  <2>4. /\ rest \in Seq(Byte)
        /\ Len(rest) = IF n + 1 <= Len(old) THEN Len(old) - (n + 1) + 1 ELSE 0
        /\ \A i \in 1 .. Len(old) - (n + 1) + 1 : rest[i] = old[(n + 1) + i - 1]
    <3>1. n + 1 \in Int /\ Len(old) \in Int
      BY <1>1, <1>2
    <3>2. \A i \in n + 1 .. Len(old) : i \in 1 .. Len(old)
      BY <1>1, <1>2
    <3>3. \A i \in n + 1 .. Len(old) : old[i] \in Byte
      BY <1>2, <3>2, ElementOfSeq
    <3>4. QED
      <4> HIDE DEF old
      <4>1. QED
        BY <3>1, <3>3, SubSeqProperties
  <2> HIDE DEF new, rest, old
  <2>5. Len(rest) = Len(new) /\ Len(new) = Len(old) - (n + 1) + 1
    BY <1>1, <1>2, <2>2, <2>3, <2>4
  <2>6. ASSUME NEW i \in 1 .. Len(new) PROVE new[i] = rest[i]
    <3>1. /\ i \in Nat /\ i \in 1 .. write - (read + n) /\ i \in 1 .. Len(old) - (n + 1) + 1
          /\ (n + 1) + i - 1 \in 1 .. write - read
          /\ (n + 1) + i - 1 = n + i /\ read + (n + i) = (read + n) + i
      BY <1>1, <1>2, <2>3, <2>5
    <3>2. rest[i] = data[read + (n + i)]
      BY <1>2, <2>4, <3>1
    <3>3. QED
      BY <2>3, <3>1, <3>2
  <2>7. new = rest
    BY <2>3, <2>4, <2>5, <2>6, SeqEqual
  <2>8. queue' = [gap |-> read + n, bytes |-> new]
    BY <2>1 DEF queue, new
  <2>9. QED
    BY <1>3, <2>2, <2>7, <2>8 DEF Queue!ReadAdv, rest
<1>6. QED
  BY <1>4, <1>5

(* Compacting moves the bytes to the start and keeps them.                 *)
LEMMA CompactKeeps ==
  ASSUME BufferInv, buffer_compact
  PROVE  queue' = Queue!Compact(queue)
<1> DEFINE old == SubSeq(data, read + 1, write)
<1>1. /\ read \in Nat /\ write \in Nat /\ Size \in Nat
      /\ read <= write /\ write <= Size
      /\ data \in [1 .. Size -> Byte]
  BY SizeAssumption DEF BufferInv, PointersInOrder
<1>2. old \in Seq(Byte) /\ Len(old) = write - read /\ \A i \in 1 .. write - read : old[i] = data[read + i]
  BY <1>1, Window
<1>3. queue = [gap |-> read, bytes |-> old] /\ IsQueue(queue, read, old)
  BY DEF queue, IsQueue
<1>4. CASE read = write
  <2>1. read' = 0 /\ write' = 0
    BY <1>4 DEF buffer_compact, reset
  <2>2. SubSeq(data', 1, 0) = << >> /\ old = << >>
    BY <1>1, <1>4, SubSeqEmpty
  <2>3. queue' = [gap |-> 0, bytes |-> << >>]
    BY <2>1, <2>2 DEF queue
  <2>4. Queue!Compact(queue) = [gap |-> 0, bytes |-> old]
    BY <1>3, QueueFields
  <2>5. QED
    BY <2>2, <2>3, <2>4
<1>5. CASE read # write
  <2> DEFINE len == write - read
             new == SubSeq(data', 1, len)
  <2>1. /\ read' = 0 /\ write' = len
        /\ data' = [i \in 1 .. Size |-> IF i <= len THEN data[i + read] ELSE data[i]]
    BY <1>5 DEF buffer_compact, can_read
  <2>2. len \in Nat /\ len <= Size
    BY <1>1
  <2>3. data' \in [1 .. Size -> Byte]
    <3>1. \A i \in 1 .. Size : i <= len => i + read \in 1 .. Size
      BY <1>1
    <3>2. QED
      BY <1>1, <2>1, <3>1
  <2>4. /\ SubSeq(data', 0 + 1, len) \in Seq(Byte) /\ Len(SubSeq(data', 0 + 1, len)) = len - 0
        /\ \A i \in 1 .. len - 0 : SubSeq(data', 0 + 1, len)[i] = data'[0 + i]
    <3> HIDE DEF len
    <3>1. 0 \in Nat /\ 0 <= len
      BY <2>2
    <3>2. QED
      BY <2>2, <2>3, <3>1, Window
  <2>5. new \in Seq(Byte) /\ Len(new) = len /\ \A i \in 1 .. len : new[i] = data'[i]
    <3>1. 0 + 1 = 1 /\ len - 0 = len /\ \A i \in 1 .. len : 0 + i = i
      BY <2>2
    <3>2. QED
      BY <2>4, <3>1
  <2>6. ASSUME NEW i \in 1 .. len PROVE new[i] = old[i]
    <3>1. i <= len /\ i \in 1 .. Size /\ i + read = read + i /\ i \in 1 .. write - read
      BY <1>1
    <3>2. data'[i] = data[i + read]
      BY <2>1, <3>1
    <3>3. QED
      BY <1>2, <2>5, <3>1, <3>2
  <2>7. new = old
    <3> HIDE DEF new, old
    <3>1. Len(new) = Len(old)
      BY <1>2, <2>5
    <3>2. QED
      BY <1>2, <2>5, <2>6, <3>1, SeqEqual
  <2>8. queue' = [gap |-> 0, bytes |-> new]
    BY <2>1 DEF queue
  <2>9. QED
    BY <1>3, <2>7, <2>8, QueueFields
<1>6. QED
  BY <1>4, <1>5

(* What is written is bytes, and moving bytes leaves bytes.                *)
LEMMA BufferStep == BufferInv /\ [Next]_vars => BufferInv'
<1> SUFFICES ASSUME BufferInv, [Next]_vars PROVE data' \in [1 .. Size -> Byte]
  BY PointersStep DEF BufferInv
<1>0. /\ read \in Nat /\ write \in Nat /\ Size \in Nat /\ read <= write /\ write <= Size
      /\ data \in [1 .. Size -> Byte]
  BY SizeAssumption DEF BufferInv, PointersInOrder
<1>1. ASSUME NEW s \in Seq(Byte), NEW n \in 0 .. Len(s), write_adv(s, n)
      PROVE  data' \in [1 .. Size -> Byte]
  <2>1. ASSUME NEW i \in write + 1 .. write + n PROVE s[i - write] \in Byte
    <3>1. i - write \in 1 .. Len(s)
      BY <1>0, <1>1, LenProperties
    <3>2. QED
      BY <3>1, ElementOfSeq
  <2>2. QED
    BY <1>0, <1>1, <2>1 DEF write_adv
<1>2. ASSUME NEW s \in Seq(Byte), buffer_write_n(s) PROVE data' \in [1 .. Size -> Byte]
  <2> DEFINE n == IF Len(s) < can_write THEN Len(s) ELSE can_write
  <2>1. n \in 0 .. Len(s)
    BY <1>0, LenProperties DEF can_write
  <2>2. QED
    BY <1>1, <1>2, <2>1 DEF buffer_write_n
<1>3. ASSUME NEW s \in Offers PROVE s \in Seq(Byte)
  BY <1>0 DEF Offers
<1>4. ASSUME NEW s \in Offers, NEW pos \in 1 .. Len(s), buffer_write_chunk(s, pos)
      PROVE  data' \in [1 .. Size -> Byte]
  <2>1. s \in Seq(Byte) /\ Len(s) \in Nat
    BY <1>3, LenProperties
  <2>2. SubSeq(s, pos + 1, Len(s)) \in Seq(Byte)
    BY <2>1, ElementOfSeq, SubSeqProperties
  <2>3. QED
    BY <1>2, <1>4, <2>2 DEF buffer_write_chunk
<1>5. ASSUME NEW c \in Byte, buffer_write(c) PROVE data' \in [1 .. Size -> Byte]
  <2>1. <<c>> \in Seq(Byte) /\ 1 \in 0 .. Len(<<c>>)
    OBVIOUS
  <2>2. QED
    BY <1>0, <1>1, <1>5, <2>1 DEF buffer_write, vars
<1>6. CASE buffer_compact
  <2>1. \A i \in 1 .. Size : i <= can_read => i + read \in 1 .. Size
    BY <1>0 DEF can_read
  <2>2. QED
    BY <1>0, <1>6, <2>1 DEF buffer_compact
<1>7. CASE \/ \E n \in 0 .. Size : buffer_read_adv(n)
           \/ buffer_read
           \/ UNCHANGED vars
  BY <1>0, <1>7 DEF buffer_read_adv, buffer_read, vars
<1>8. QED
  BY <1>2, <1>3, <1>4, <1>5, <1>6, <1>7 DEF Next

(* Each operation on the pointers is the operation of the queue.           *)
LEMMA OperationsAreQueues == BufferInv => ActsAsQueue
<1> SUFFICES ASSUME BufferInv PROVE ActsAsQueue
  OBVIOUS
<1>0. /\ read \in Nat /\ write \in Nat /\ Size \in Nat /\ read <= write /\ write <= Size
      /\ data \in [1 .. Size -> Byte]
  BY SizeAssumption DEF BufferInv, PointersInOrder
<1>1. ASSUME NEW s \in Offers, buffer_write_n(s)
      PROVE  queue' = Queue!WriteN(queue, s, Size)
  <2>1. s \in Seq(Byte)
    BY <1>0 DEF Offers
  <2>2. QED
    BY <1>1, <2>1, WriteNAppends
<1>2. ASSUME NEW c \in Byte, buffer_write(c)
      PROVE  queue' = Queue!WriteN(queue, <<c>>, Size)
  <2>1. <<c>> \in Seq(Byte) /\ Len(<<c>>) = 1
    OBVIOUS
  <2>2. CASE can_write > 0
    <3>1. (IF Len(<<c>>) < can_write THEN Len(<<c>>) ELSE can_write) = 1
      BY <1>0, <2>1, <2>2 DEF can_write
    <3>2. buffer_write_n(<<c>>)
      BY <1>2, <2>2, <3>1 DEF buffer_write, buffer_write_n
    <3>3. QED
      BY <2>1, <3>2, WriteNAppends
  <2>3. CASE ~(can_write > 0)
    <3>1. can_write = 0
      BY <1>0, <2>3 DEF can_write
    <3>2. UNCHANGED vars
      BY <1>2, <2>3 DEF buffer_write
    <3>3. buffer_write_n(<<c>>)
      <4>1. (IF Len(<<c>>) < can_write THEN Len(<<c>>) ELSE can_write) = 0
        BY <2>1, <3>1
      <4>2. data = [i \in 1 .. Size |-> IF i \in write + 1 .. write + 0 THEN <<c>>[i - write]
                                                                       ELSE data[i]]
        BY <1>0
      <4>3. write_adv(<<c>>, 0)
        BY <1>0, <3>2, <4>2 DEF write_adv, vars
      <4>4. QED
        BY <4>1, <4>3 DEF buffer_write_n
    <3>4. QED
      BY <2>1, <3>3, WriteNAppends
  <2>4. QED
    BY <2>2, <2>3
<1>3. ASSUME buffer_read, can_read > 0 PROVE queue' = Queue!ReadAdv(queue, 1)
  BY <1>3, ReadAdvances DEF buffer_read
<1>4. ASSUME NEW n \in 0 .. Size, buffer_read_adv(n)
      PROVE  queue' = Queue!ReadAdv(queue, n)
  BY <1>0, <1>4, ReadAdvances
<1>5. ASSUME buffer_compact PROVE queue' = Queue!Compact(queue)
  BY <1>5, CompactKeeps
<1>6. QED
  BY <1>1, <1>2, <1>3, <1>4, <1>5 DEF ActsAsQueue

(* The pointer buffer implements the byte queue that the other modules     *)
(* use: it starts empty, and no operation, at any offset, loses, repeats   *)
(* or reorders a byte.                                                     *)
THEOREM BufferIsQueue == Spec => ImplementsQueue
<1>1. Init => BufferInv /\ queue = Queue!Empty
  <2> SUFFICES ASSUME Init PROVE BufferInv /\ queue = Queue!Empty
    OBVIOUS
  <2>1. BufferInv
    BY SizeAssumption DEF Init, BufferInv, PointersInOrder
  <2>2. SubSeq(data, 0 + 1, 0) = << >>
    BY SubSeqEmpty
  <2>3. QED
    BY <2>1, <2>2 DEF Init, queue, Queue!Empty
<1>2. BufferInv /\ [Next]_vars => BufferInv'
  BY BufferStep
<1>3. BufferInv => ActsAsQueue
  BY OperationsAreQueues
<1>4. QED
  BY <1>1, <1>2, <1>3, PTL DEF Spec, ImplementsQueue
=============================================================================
