------------------------------- MODULE Buffer -------------------------------
(***************************************************************************)
(* The buffer of utils/buffer.c: an array with a read and a write pointer, *)
(* kept as offsets from its start; limit is Size.  Callers copy bytes in   *)
(* at the write pointer and out at the read pointer, and advance them.     *)
(***************************************************************************)
EXTENDS Naturals, Sequences

CONSTANTS Byte, Size

ASSUME SizeAssumption == Size \in Nat

VARIABLES data, read, write

vars == <<data, read, write>>

(* Mutant: the room is measured from the read pointer.                     *)
RoomFromRead == Size - read

can_write == Size - write
can_read == write - read

Init ==
  /\ data \in [1 .. Size -> Byte]   \* the memory given to buffer_init()
  /\ read = 0
  /\ write = 0

(* The first n bytes of s are copied to the write pointer, which advances. *)
write_adv(s, n) ==
  /\ data' = [i \in 1 .. Size |-> IF i \in write + 1 .. write + n THEN s[i - write]
                                                                 ELSE data[i]]
  /\ write' = write + n
  /\ UNCHANGED read

(* Copies what fits.  A recv() or read() into the write pointer, which is  *)
(* told how much fits, is the case where all of s does.                    *)
buffer_write_n(s) == write_adv(s, IF Len(s) < can_write THEN Len(s) ELSE can_write)

(* Mutant: only the read pointer goes back.                                *)
ResetReadOnly == read' = 0 /\ UNCHANGED write

reset == read' = 0 /\ write' = 0

buffer_read_adv(n) ==
  /\ n <= can_read
  /\ IF read + n = write THEN reset ELSE read' = read + n /\ UNCHANGED write
  /\ UNCHANGED data

(* One byte in or out, if there is room or something to read.              *)
buffer_write(c) == IF can_write > 0 THEN write_adv(<<c>>, 1) ELSE UNCHANGED vars
buffer_read == IF can_read > 0 THEN buffer_read_adv(1) ELSE UNCHANGED vars

(* What fits of the rest of a message.                                     *)
buffer_write_chunk(msg, msg_pos) == buffer_write_n(SubSeq(msg, msg_pos + 1, Len(msg)))

buffer_compact ==
  IF read = write
  THEN reset /\ UNCHANGED data
  ELSE /\ data' = [i \in 1 .. Size |-> IF i <= can_read THEN data[i + read] ELSE data[i]]
       /\ read' = 0
       /\ write' = can_read

(* What callers offer: anything up to a byte more than ever fits.          *)
Offers == UNION {[1 .. n -> Byte] : n \in 0 .. Size + 1}

Next ==
  \/ \E s \in Offers : buffer_write_n(s)
  \/ \E s \in Offers : \E pos \in 1 .. Len(s) : buffer_write_chunk(s, pos)
  \/ \E c \in Byte : buffer_write(c)
  \/ \E n \in 0 .. Size : buffer_read_adv(n)
  \/ buffer_read
  \/ buffer_compact

Spec == Init /\ [][Next]_vars

-----------------------------------------------------------------------------
(* "R <= W <= limit", the invariant buffer.h:25 writes down and the        *)
(* assertions of buffer.c test.                                            *)
PointersInOrder ==
  /\ read \in Nat /\ write \in Nat
  /\ read <= write
  /\ write <= Size

Queue == INSTANCE ByteQueue

(* What lies between the pointers.                                         *)
queue == [gap |-> read, bytes |-> SubSeq(data, read + 1, write)]

ActsAsQueue ==
  /\ \A s \in Offers : buffer_write_n(s) => queue' = Queue!WriteN(queue, s, Size)
  /\ \A c \in Byte : buffer_write(c) => queue' = Queue!WriteN(queue, <<c>>, Size)
  /\ buffer_read /\ can_read > 0 => queue' = Queue!ReadAdv(queue, 1)
  /\ \A n \in 0 .. Size : buffer_read_adv(n) => queue' = Queue!ReadAdv(queue, n)
  /\ buffer_compact => queue' = Queue!Compact(queue)

(* The bytes come out as they went in: what lies between the pointers is a *)
(* queue, and every operation does to it what ByteQueue says, whatever the *)
(* position of the pointers.                                               *)
ImplementsQueue == queue = Queue!Empty /\ [][ActsAsQueue]_vars
=============================================================================
