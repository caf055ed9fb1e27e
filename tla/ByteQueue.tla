----------------------------- MODULE ByteQueue ------------------------------
(***************************************************************************)
(* The I/O buffer as its callers see it: the bytes between the read and    *)
(* the write pointer, and the gap that was read already and that comes     *)
(* back only when the buffer runs empty.  Buffer shows that the pointers   *)
(* of buffer.c implement this.  The bytes of other modules are coarser     *)
(* units, so a queue is a sequence of anything.                            *)
(***************************************************************************)
EXTENDS Naturals, Sequences

Empty == [gap |-> 0, bytes |-> <<>>]

(* What buffer_write_ptr() reports of a buffer of this size.               *)
Room(q, size) == size - (q.gap + Len(q.bytes))

CanRead(q) == q.bytes # <<>>

Append_(q, s) == [q EXCEPT !.bytes = @ \o s]

(* buffer_write_n(): what does not fit is dropped.                         *)
WriteN(q, s, size) ==
  LET room == Room(q, size) IN Append_(q, IF Len(s) <= room THEN s ELSE SubSeq(s, 1, room))

(* Mutant: a buffer that runs empty is not reset.                          *)
ReadAdvNoReset(q, n) == [gap |-> q.gap + n, bytes |-> SubSeq(q.bytes, n + 1, Len(q.bytes))]

(* buffer_read_adv() of n bytes.                                           *)
ReadAdv(q, n) ==
  IF n = Len(q.bytes) THEN Empty
  ELSE [gap |-> q.gap + n, bytes |-> SubSeq(q.bytes, n + 1, Len(q.bytes))]

Compact(q) == [q EXCEPT !.gap = 0]
=============================================================================
