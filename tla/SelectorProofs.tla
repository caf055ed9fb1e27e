---------------------------- MODULE SelectorProofs ---------------------------
(***************************************************************************)
(* Theorems about Selector, for any number of connections and descriptors. *)
(* DescriptorInv is the inductive invariant: the record of the selector is *)
(* sound, everything registered is held by who registered it, what a       *)
(* connection remembers is what it holds, and readiness is fresh. The      *)
(* operations of the selector are shown to keep a record sound once, and   *)
(* each handler is then an argument about who holds what.                  *)
(***************************************************************************)
EXTENDS Selector, Induction

(* What a descriptor may be watched for.                                   *)
Interest == {"noop", "read", "write"}

(* What the operations of the selector are applied to and return.          *)
SelectorRecord ==
  [item : [Fd -> Holder], interest : [Fd -> Interest], r : SUBSET Fd, w : SUBSET Fd,
   max : Fd, size : Nat]

(* The sets and max_fd of s agree with its items; the listeners stay, and  *)
(* the table has room for whatever select() can watch.                     *)
Sound(s) ==
  /\ s \in SelectorRecord
  /\ s.r = {fd \in Fd : s.item[fd] # Nobody /\ s.interest[fd] = "read"}
  /\ s.w = {fd \in Fd : s.item[fd] # Nobody /\ s.interest[fd] = "write"}
  /\ s.item[s.max] # Nobody
  /\ \A fd \in Fd : s.item[fd] # Nobody => fd <= s.max /\ fd < ItemsMax
  /\ s.item[Passive] = Listener
  /\ s.size = ItemsMax + 1

-----------------------------------------------------------------------------
(* Holders of different kinds, or of different connections, differ.        *)
LEMMA Holders ==
  /\ {Nobody, Listener, LostStream} \subseteq Holder
  /\ Nobody # Listener /\ Nobody # LostStream /\ Listener # LostStream
  /\ \A c \in Client :
       /\ Socket(c) \in Holder /\ File(c) \in Holder
       /\ {Socket(c), File(c)} \cap {Nobody, Listener, LostStream} = {}
       /\ Socket(c).kind = "socket" /\ Socket(c).of = c
       /\ File(c).kind = "file" /\ File(c).of = c
       /\ \A d \in Client : /\ Socket(c) # File(d)
                            /\ Socket(c) = Socket(d) => c = d
                            /\ File(c) = File(d) => c = d
  /\ \A h \in {Nobody, Listener, LostStream} : h.kind # "socket" /\ h.kind # "file"
  /\ \A h \in Holder : \/ h \in {Nobody, Listener, LostStream}
                       \/ \E c \in Client : h = Socket(c) \/ h = File(c)
<1>1. \A c \in Client : Socket(c).kind = "socket" /\ Socket(c).of = c
                        /\ File(c).kind = "file" /\ File(c).of = c
  BY DEF Socket, File
<1>2. Nobody.kind = "nobody" /\ Listener.kind = "listener" /\ LostStream.kind = "dir"
  BY DEF Nobody, Listener, LostStream
<1>3. QED
  BY <1>1, <1>2 DEF Holder

(* Descriptors are numbers; the listeners' is one that select() watches.   *)
LEMMA FdFacts ==
  /\ Fd \in SUBSET Nat /\ 0 \in Fd /\ Passive \in Fd /\ Passive # 0 /\ Passive < ItemsMax
  /\ \A fd \in Fd : fd <= OpenMax - 1
  /\ ItemsMax \in Nat /\ OpenMax \in Nat /\ SelectorSize = ItemsMax
BY LimitsAssumption DEF Fd, Passive

(* The least member of a set of numbers.                                   *)
LEMMA MinIsLeast ==
  ASSUME NEW S \in SUBSET Nat, S # {}
  PROVE  Min(S) \in S /\ \A x \in S : Min(S) <= x
BY LeastExists DEF Min

(* The greatest member of a bounded set.                                   *)
LEMMA MaxIsGreatest ==
  ASSUME NEW S \in SUBSET Nat, S # {}, NEW n \in Nat, \A x \in S : x <= n
  PROVE  Max(S) \in S /\ \A x \in S : Max(S) >= x
BY GreatestExists DEF Max

(* The kernel gives a descriptor that nobody has.                          *)
LEMMA LowestIsFree ==
  ASSUME FreeFds # {}
  PROVE  lowest_fd \in Fd /\ lowest_fd # 0 /\ open[lowest_fd] = Nobody
<1>1. FreeFds \in SUBSET Nat
  BY FdFacts DEF FreeFds
<1>2. lowest_fd \in FreeFds
  BY <1>1, MinIsLeast DEF lowest_fd
<1>3. QED
  BY <1>2 DEF FreeFds

-----------------------------------------------------------------------------
(* The capacity of the table.                                              *)
(* 1UL << bits doubles with every bit,                                     *)
LEMMA ShiftedDef ==
  /\ shifted \in [Nat -> Nat] /\ shifted[0] = 1
  /\ \A n \in Nat : shifted[n + 1] = 2 * shifted[n]
<1> DEFINE double == [n \in Nat |-> 2 * n]
           Body(f) == [bits \in Nat |-> IF bits = 0 THEN 1 ELSE 2 * f[bits - 1]]
<1>1. double \in [Nat -> Nat] /\ \A n \in Nat : double[n] = 2 * n
  OBVIOUS
<1>2. PICK f : IsIteration(f, Nat, 1, double)
  <2>1. 1 \in Nat
    OBVIOUS
  <2> HIDE DEF double
  <2>2. QED
    BY <1>1, <2>1, NatRecursion
<1>3. f \in [Nat -> Nat] /\ f[0] = 1 /\ \A n \in Nat : f[n + 1] = double[f[n]]
  BY <1>2 DEF IsIteration
<1>4. f = Body(f)
  <2>1. ASSUME NEW bits \in Nat
        PROVE  f[bits] = IF bits = 0 THEN 1 ELSE 2 * f[bits - 1]
    <3>1. CASE bits = 0
      BY <1>3, <3>1
    <3>2. CASE bits # 0
      <4>1. bits - 1 \in Nat /\ (bits - 1) + 1 = bits
        BY <3>2
      <4>2. f[bits] = double[f[bits - 1]] /\ f[bits - 1] \in Nat
        BY <1>3, <4>1
      <4>3. QED
        BY <1>1, <3>2, <4>2
    <3>3. QED
      BY <3>1, <3>2
  <2>2. QED
    BY <1>3, <2>1
<1>5. shifted = Body(shifted)
  BY <1>4 DEF shifted
<1> DEFINE P == {n \in Nat : shifted[n] \in Nat}
<1>6. \A bits \in Nat : shifted[bits] = IF bits = 0 THEN 1 ELSE 2 * shifted[bits - 1]
  BY <1>5
<1>7. shifted[0] = 1
  BY <1>6
<1>8. ASSUME NEW n \in Nat PROVE shifted[n + 1] = 2 * shifted[n]
  <2>1. n + 1 \in Nat /\ n + 1 # 0 /\ (n + 1) - 1 = n
    OBVIOUS
  <2>2. QED
    BY <1>6, <2>1
<1>9. \A n \in Nat : n \in P
  <2>1. 0 \in P
    BY <1>7
  <2>2. \A n \in Nat : n \in P => n + 1 \in P
    BY <1>8
  <2> HIDE DEF P
  <2>3. QED
    BY <2>1, <2>2, NatInductionOnSet
<1>10. QED
  BY <1>5, <1>7, <1>8, <1>9

(* so that some power of two exceeds n.                                    *)
LEMMA ShiftedGrows == \A n \in Nat : shifted[n] > n
<1> DEFINE G == {n \in Nat : shifted[n] > n}
<1>1. 0 \in G
  BY ShiftedDef
<1>2. ASSUME NEW n \in Nat, n \in G PROVE n + 1 \in G
  <2>1. shifted[n] \in Nat /\ shifted[n + 1] = 2 * shifted[n] /\ shifted[n] > n
    BY <1>2, ShiftedDef
  <2>2. QED
    BY <2>1
<1>3. \A n \in Nat : n \in G
  <2> HIDE DEF G
  <2>1. QED
    BY <1>1, <1>2, NatInductionOnSet
<1>4. QED
  BY <1>3

(* The table that main asks for has an element more than select() watches. *)
LEMMA TableIsWhole == ensure_capacity(0, SelectorSize) = ItemsMax + 1
<1> DEFINE n == ItemsMax
           powers == {shifted[k] : k \in {k \in 0 .. n : shifted[k] > n}}
<1>1. n \in Nat /\ n # 0 /\ SelectorSize = n
  BY LimitsAssumption
<1>2. powers \in SUBSET Nat /\ powers # {} /\ \A p \in powers : p > n
  <2>1. \A k \in 0 .. n : shifted[k] \in Nat
    BY ShiftedDef
  <2>2. n \in 0 .. n /\ shifted[n] > n
    BY <1>1, ShiftedGrows
  <2>3. QED
    BY <2>1, <2>2
<1> HIDE DEF powers
<1>3. Min(powers) \in Nat /\ Min(powers) > n
  BY <1>2, MinIsLeast
<1>4. Min({n, Min(powers)}) = n
  <2>1. {n, Min(powers)} \in SUBSET Nat /\ {n, Min(powers)} # {}
    BY <1>1, <1>3
  <2>2. /\ Min({n, Min(powers)}) \in {n, Min(powers)}
        /\ \A x \in {n, Min(powers)} : Min({n, Min(powers)}) <= x
    BY <2>1, MinIsLeast
  <2>3. QED
    BY <1>1, <1>3, <2>2
<1>5. next_capacity(n) = 1 + n
  BY <1>4 DEF next_capacity, powers
<1>6. QED
  BY <1>1, <1>5 DEF ensure_capacity

-----------------------------------------------------------------------------
(* The two sets follow the interest.                                       *)
LEMMA SetsFollow ==
  ASSUME NEW s \in SelectorRecord, NEW fd \in Fd
  PROVE  LET t == items_update_fdset_for_fd(s, fd)
         IN  /\ t \in SelectorRecord
             /\ t.item = s.item /\ t.interest = s.interest /\ t.max = s.max /\ t.size = s.size
             /\ t.r = IF s.interest[fd] = "read" THEN s.r \cup {fd} ELSE s.r \ {fd}
             /\ t.w = IF s.interest[fd] = "write" THEN s.w \cup {fd} ELSE s.w \ {fd}
<1> DEFINE r == IF s.interest[fd] = "read" THEN s.r \cup {fd} ELSE s.r \ {fd}
           w == IF s.interest[fd] = "write" THEN s.w \cup {fd} ELSE s.w \ {fd}
<1>1. items_update_fdset_for_fd(s, fd) = [s EXCEPT !.r = r, !.w = w]
  BY DEF items_update_fdset_for_fd
<1>2. r \in SUBSET Fd /\ w \in SUBSET Fd
  BY DEF SelectorRecord
<1> HIDE DEF r, w
<1>3. QED
  BY <1>1, <1>2 DEF SelectorRecord, r, w

(* t is s but for the descriptor fd, now h's with the interest i.          *)
Changed(s, t, fd, h, i) ==
  /\ t \in SelectorRecord
  /\ t.item = [s.item EXCEPT ![fd] = h]
  /\ \A x \in Fd : x # fd => t.interest[x] = s.interest[x]
  /\ h # Nobody => t.interest[fd] = i
  /\ t.r = IF h # Nobody /\ i = "read" THEN s.r \cup {fd} ELSE s.r \ {fd}
  /\ t.w = IF h # Nobody /\ i = "write" THEN s.w \cup {fd} ELSE s.w \ {fd}
  /\ t.item[t.max] # Nobody
  /\ \A x \in Fd : t.item[x] # Nobody => x <= t.max
  /\ t.size = s.size

(* Such a change keeps a record sound.                                     *)
LEMMA ChangeOne ==
  ASSUME NEW s, Sound(s), NEW fd \in Fd, NEW h \in Holder, NEW i \in Interest,
         NEW t, Changed(s, t, fd, h, i), fd < ItemsMax, fd = Passive => h = Listener
  PROVE  Sound(t)
<1> USE DEF Changed
<1>1. s.item \in [Fd -> Holder]
  BY DEF Sound, SelectorRecord
<1>2. \A x \in Fd : t.item[x] = IF x = fd THEN h ELSE s.item[x]
  BY <1>1
<1>3. t.r = {x \in Fd : t.item[x] # Nobody /\ t.interest[x] = "read"}
  BY <1>2 DEF Sound
<1>4. t.w = {x \in Fd : t.item[x] # Nobody /\ t.interest[x] = "write"}
  BY <1>2 DEF Sound
<1>5. t.item[Passive] = Listener
  BY <1>2, FdFacts DEF Sound
<1>6. \A x \in Fd : t.item[x] # Nobody => x < ItemsMax
  BY <1>2 DEF Sound
<1>7. QED
  BY <1>3, <1>4, <1>5, <1>6 DEF Sound

(* What registering makes of a record s.                                   *)
Registered(s, t, fd, h, i) ==
  /\ t \in SelectorRecord
  /\ t.item = [s.item EXCEPT ![fd] = h]
  /\ t.interest = [s.interest EXCEPT ![fd] = i]
  /\ t.r = IF i = "read" THEN s.r \cup {fd} ELSE s.r \ {fd}
  /\ t.w = IF i = "write" THEN s.w \cup {fd} ELSE s.w \ {fd}
  /\ t.max = IF fd > s.max THEN fd ELSE s.max
  /\ t.size = s.size

(* selector_register() makes that of it,                                   *)
LEMMA RegisterFields ==
  ASSUME NEW s \in SelectorRecord, NEW fd \in Fd, fd <= s.size,
         NEW h \in Holder, NEW i \in Interest
  PROVE  Registered(s, selector_register(s, fd, h, i), fd, h, i)
<1> DEFINE u == [s EXCEPT !.item[fd] = h, !.interest[fd] = i,
                          !.max = IF fd > @ THEN fd ELSE @,
                          !.size = IF fd > @ THEN ensure_capacity(@, fd) ELSE @]
           t == items_update_fdset_for_fd(u, fd)
<1>1. /\ s.item \in [Fd -> Holder] /\ s.interest \in [Fd -> Interest]
      /\ s.r \in SUBSET Fd /\ s.w \in SUBSET Fd /\ s.max \in Fd /\ s.size \in Nat
  BY DEF SelectorRecord
<1>2. /\ u.item = [s.item EXCEPT ![fd] = h] /\ u.interest = [s.interest EXCEPT ![fd] = i]
      /\ u.r = s.r /\ u.w = s.w
      /\ u.max = IF fd > s.max THEN fd ELSE s.max
      /\ u.size = s.size
      /\ u = [item |-> u.item, interest |-> u.interest, r |-> u.r, w |-> u.w,
              max |-> u.max, size |-> u.size]
  <2> DEFINE size == IF fd > s.size THEN ensure_capacity(s.size, fd) ELSE s.size
             m == IF fd > s.max THEN fd ELSE s.max
             it == [s.item EXCEPT ![fd] = h]
             in == [s.interest EXCEPT ![fd] = i]
  <2>1. size = s.size
    BY <1>1, FdFacts
  <2>2. u = [s EXCEPT !.item = it, !.interest = in, !.max = m, !.size = size]
    OBVIOUS
  <2> HIDE DEF u, size, m, it, in
  <2>3. u = [item |-> it, interest |-> in, r |-> s.r, w |-> s.w, max |-> m, size |-> size]
    BY <2>2 DEF SelectorRecord
  <2>4. QED
    BY <2>1, <2>3 DEF m, it, in
<1>3. u \in SelectorRecord
  <2>1. /\ u.item \in [Fd -> Holder] /\ u.interest \in [Fd -> Interest]
        /\ u.r \in SUBSET Fd /\ u.w \in SUBSET Fd /\ u.max \in Fd /\ u.size \in Nat
    <3> HIDE DEF u
    <3>1. QED
      BY <1>1, <1>2
  <2> HIDE DEF u
  <2>2. QED
    BY <1>2, <2>1 DEF SelectorRecord
<1>4. selector_register(s, fd, h, i) = t
  BY DEF selector_register
<1> HIDE DEF u
<1>5. /\ t \in SelectorRecord
      /\ t.item = u.item /\ t.interest = u.interest /\ t.max = u.max /\ t.size = u.size
      /\ t.r = IF u.interest[fd] = "read" THEN u.r \cup {fd} ELSE u.r \ {fd}
      /\ t.w = IF u.interest[fd] = "write" THEN u.w \cup {fd} ELSE u.w \ {fd}
  BY <1>3, SetsFollow
<1> HIDE DEF t
<1>6. u.interest[fd] = i
  BY <1>1, <1>2
<1>7. QED
  BY <1>2, <1>4, <1>5, <1>6 DEF Registered

(* which keeps a sound record sound, if can_register() allowed it.         *)
LEMMA Registers ==
  ASSUME NEW s, Sound(s), NEW fd \in Fd, can_register(s, fd),
         NEW h \in Holder, h # Nobody, NEW i \in Interest
  PROVE  LET t == selector_register(s, fd, h, i)
         IN  Sound(t) /\ t.item = [s.item EXCEPT ![fd] = h]
<1> DEFINE t == selector_register(s, fd, h, i)
<1>1. /\ s.item \in [Fd -> Holder] /\ s.interest \in [Fd -> Interest]
      /\ s.max \in Fd /\ s \in SelectorRecord
      /\ s.item[s.max] # Nobody /\ \A x \in Fd : s.item[x] # Nobody => x <= s.max
  BY DEF Sound, SelectorRecord
<1>2. fd < ItemsMax /\ s.item[fd] = Nobody /\ fd # Passive /\ fd <= s.size
  <2>1. Nobody # Listener
    BY Holders
  <2>2. QED
    BY <2>1, FdFacts DEF can_register, Sound
<1>3. Registered(s, t, fd, h, i)
  BY <1>1, <1>2, RegisterFields
<1> HIDE DEF t
<1> USE DEF Registered
<1>4. \A x \in Fd : t.item[x] = IF x = fd THEN h ELSE s.item[x]
  BY <1>1, <1>3
<1>5. t.interest[fd] = i /\ \A x \in Fd : x # fd => t.interest[x] = s.interest[x]
  BY <1>1, <1>3
<1>6. t.item[t.max] # Nobody /\ \A x \in Fd : t.item[x] # Nobody => x <= t.max
  <2>1. t.max = (IF fd > s.max THEN fd ELSE s.max) /\ fd \in Nat /\ s.max \in Nat
    BY <1>1, <1>3, FdFacts
  <2>2. t.max = fd \/ (t.max = s.max /\ fd <= s.max)
    BY <2>1
  <2>3. t.item[t.max] # Nobody
    BY <1>1, <1>4, <2>2
  <2>4. \A x \in Fd : x \in Nat
    BY FdFacts
  <2>5. ASSUME NEW x \in Fd, t.item[x] # Nobody PROVE x <= t.max
    <3>1. x \in Nat /\ (x = fd \/ s.item[x] # Nobody)
      BY <1>4, <2>4, <2>5
    <3>2. x = fd \/ x <= s.max
      BY <1>1, <3>1
    <3>3. QED
      BY ONLY <2>1, <3>1, <3>2
  <2>6. QED
    BY <2>3, <2>5
<1>7. Changed(s, t, fd, h, i)
  BY <1>3, <1>5, <1>6 DEF Changed
<1>8. Sound(t)
  BY <1>2, <1>7, ChangeOne
<1>9. QED
  BY <1>3, <1>8 DEF t

(* So does a change of interest, and it leaves the items alone;            *)
LEMMA SetsInterest ==
  ASSUME NEW s, Sound(s), NEW fd \in Fd, NEW i \in Interest
  PROVE  LET t == selector_set_interest(s, fd, i) IN Sound(t) /\ t.item = s.item
<1> DEFINE u == [s EXCEPT !.interest[fd] = i]
           t == items_update_fdset_for_fd(u, fd)
<1>1. /\ s.item \in [Fd -> Holder] /\ s.interest \in [Fd -> Interest]
      /\ s.r \in SUBSET Fd /\ s.w \in SUBSET Fd /\ s.max \in Fd /\ s.size \in Nat
      /\ s \in SelectorRecord
  BY DEF Sound, SelectorRecord
<1>2. CASE s.item[fd] = Nobody
  BY <1>2 DEF selector_set_interest
<1>3. CASE s.item[fd] # Nobody
  <2>1. selector_set_interest(s, fd, i) = t
    BY <1>3 DEF selector_set_interest
  <2>2. /\ u \in SelectorRecord /\ u.interest = [s.interest EXCEPT ![fd] = i]
        /\ u.item = s.item /\ u.r = s.r /\ u.w = s.w /\ u.max = s.max /\ u.size = s.size
    <3> DEFINE in == [s.interest EXCEPT ![fd] = i]
    <3>1. u = [s EXCEPT !.interest = in] /\ in \in [Fd -> Interest]
      BY <1>1
    <3> HIDE DEF u, in
    <3>2. QED
      BY <1>1, <3>1 DEF SelectorRecord, in
  <2> HIDE DEF u
  <2>3. /\ t \in SelectorRecord
        /\ t.item = u.item /\ t.interest = u.interest /\ t.max = u.max /\ t.size = u.size
        /\ t.r = IF u.interest[fd] = "read" THEN u.r \cup {fd} ELSE u.r \ {fd}
        /\ t.w = IF u.interest[fd] = "write" THEN u.w \cup {fd} ELSE u.w \ {fd}
    BY <2>2, SetsFollow
  <2> HIDE DEF t
  <2>4. t.interest[fd] = i /\ \A x \in Fd : x # fd => t.interest[x] = s.interest[x]
    BY <1>1, <2>2, <2>3
  <2>5. s.item = [s.item EXCEPT ![fd] = s.item[fd]] /\ s.item[fd] \in Holder
    BY <1>1
  <2>6. Changed(s, t, fd, s.item[fd], i)
    BY <1>3, <2>2, <2>3, <2>4, <2>5 DEF Changed, Sound
  <2>7. fd < ItemsMax /\ (fd = Passive => s.item[fd] = Listener)
    BY <1>3 DEF Sound
  <2>8. QED
    BY <2>1, <2>2, <2>3, <2>5, <2>6, <2>7, ChangeOne
<1>4. QED
  BY <1>2, <1>3

(* so does unregistering anybody but the listeners.                        *)
LEMMA Unregisters ==
  ASSUME NEW s, Sound(s), NEW fd \in Fd, fd # Passive
  PROVE  LET t == selector_unregister_fd(s, fd)
         IN  Sound(t) /\ t.item = [s.item EXCEPT ![fd] = Nobody]
<1> DEFINE u == [s EXCEPT !.interest[fd] = "noop"]
           cleared == items_update_fdset_for_fd(u, fd)
           forgotten == [cleared EXCEPT !.item[fd] = Nobody]
           t == [forgotten EXCEPT !.max = items_max_fd(forgotten)]
<1>1. /\ s.item \in [Fd -> Holder] /\ s.interest \in [Fd -> Interest]
      /\ s.r \in SUBSET Fd /\ s.w \in SUBSET Fd /\ s.max \in Fd /\ s.size \in Nat
      /\ s \in SelectorRecord
  BY DEF Sound, SelectorRecord
<1>2. CASE s.item[fd] = Nobody
  <2>1. [s.item EXCEPT ![fd] = Nobody] = s.item
    BY <1>1, <1>2
  <2>2. QED
    BY <1>2, <2>1 DEF selector_unregister_fd
<1>3. CASE s.item[fd] # Nobody
  <2>1. selector_unregister_fd(s, fd) = t
    BY <1>3 DEF selector_unregister_fd
  <2>2. /\ u \in SelectorRecord /\ u.interest = [s.interest EXCEPT ![fd] = "noop"]
        /\ u.item = s.item /\ u.r = s.r /\ u.w = s.w /\ u.max = s.max /\ u.size = s.size
    <3> DEFINE in == [s.interest EXCEPT ![fd] = "noop"]
    <3>1. u = [s EXCEPT !.interest = in] /\ in \in [Fd -> Interest]
      BY <1>1 DEF Interest
    <3> HIDE DEF u, in
    <3>2. QED
      BY <1>1, <3>1 DEF SelectorRecord, in
  <2> HIDE DEF u
  <2>3. /\ cleared \in SelectorRecord
        /\ cleared.item = u.item /\ cleared.interest = u.interest
        /\ cleared.max = u.max /\ cleared.size = u.size
        /\ cleared.r = IF u.interest[fd] = "read" THEN u.r \cup {fd} ELSE u.r \ {fd}
        /\ cleared.w = IF u.interest[fd] = "write" THEN u.w \cup {fd} ELSE u.w \ {fd}
    BY <2>2, SetsFollow
  <2> HIDE DEF cleared
  <2>4. u.interest[fd] = "noop" /\ \A x \in Fd : x # fd => cleared.interest[x] = s.interest[x]
    BY <1>1, <2>2, <2>3
  <2>5. cleared.r = s.r \ {fd} /\ cleared.w = s.w \ {fd}
    BY <2>2, <2>3, <2>4
  <2>6. /\ forgotten \in SelectorRecord /\ forgotten.item = [s.item EXCEPT ![fd] = Nobody]
        /\ forgotten.interest = cleared.interest
        /\ forgotten.r = cleared.r /\ forgotten.w = cleared.w
        /\ forgotten.max = s.max /\ forgotten.size = s.size
    <3> DEFINE it == [s.item EXCEPT ![fd] = Nobody]
    <3>1. it \in [Fd -> Holder] /\ cleared.item = s.item
      BY <1>1, <2>2, <2>3, Holders
    <3>2. forgotten = [cleared EXCEPT !.item = it]
      BY <3>1
    <3> HIDE DEF forgotten, it
    <3>3. QED
      BY <2>2, <2>3, <3>1, <3>2 DEF SelectorRecord, it
  <2> HIDE DEF forgotten
  <2> DEFINE used == {x \in 0 .. s.max : forgotten.item[x] # Nobody} \cup {0}
             m == items_max_fd(forgotten)
  <2>7. \A x \in Fd : forgotten.item[x] = IF x = fd THEN Nobody ELSE s.item[x]
    BY <1>1, <2>6
  <2>8. /\ m \in Fd /\ forgotten.item[m] # Nobody
        /\ \A x \in Fd : forgotten.item[x] # Nobody => x <= m
    <3>1. used \in SUBSET Nat /\ used # {} /\ s.max \in Nat /\ \A x \in used : x <= s.max
      <4>1. s.max \in Nat
        BY <1>1, FdFacts
      <4> DEFINE H(x) == forgotten.item[x] # Nobody
      <4> HIDE DEF H
      <4>2. used = {x \in 0 .. s.max : H(x)} \cup {0}
        BY DEF H
      <4> HIDE DEF used
      <4>3. QED
        BY <4>1, <4>2
    <3>2. m = Max(used)
      BY <2>6 DEF items_max_fd
    <3>3. m \in used /\ \A x \in used : m >= x
      <4> HIDE DEF used, m
      <4>1. QED
        BY <3>1, <3>2, MaxIsGreatest
    <3>4. Passive \in used
      <4>1. s.item[Passive] = Listener /\ Listener # Nobody /\ Passive <= s.max
        BY Holders, FdFacts DEF Sound
      <4>2. forgotten.item[Passive] # Nobody
        BY <2>7, <4>1, FdFacts
      <4>3. Passive \in 0 .. s.max
        BY <3>1, <4>1 DEF Passive
      <4>4. QED
        BY <4>2, <4>3
    <3>5. m \in Nat /\ m # 0 /\ m <= s.max /\ m \in Fd
      <4>1. m \in Nat /\ m <= s.max /\ m >= Passive
        <5> HIDE DEF used, m
        <5>1. QED
          BY <3>1, <3>3, <3>4
      <4> HIDE DEF m
      <4>2. QED
        BY <1>1, <4>1, FdFacts DEF Fd, Passive
    <3>6. forgotten.item[m] # Nobody
      <4> HIDE DEF m
      <4>1. QED
        BY <3>3, <3>5
    <3>7. ASSUME NEW x \in Fd, forgotten.item[x] # Nobody PROVE x <= m
      <4>1. x \in Nat /\ x <= s.max
        BY <2>7, <3>7, FdFacts DEF Sound
      <4>2. x \in used
        BY <3>1, <3>7, <4>1
      <4> HIDE DEF m, used
      <4>3. QED
        BY <3>3, <3>5, <4>1, <4>2
    <3>8. QED
      BY <3>5, <3>6, <3>7
  <2> HIDE DEF m
  <2>9. /\ t \in SelectorRecord /\ t.item = forgotten.item /\ t.interest = forgotten.interest
        /\ t.r = forgotten.r /\ t.w = forgotten.w /\ t.max = m /\ t.size = forgotten.size
    <3>1. t = [forgotten EXCEPT !.max = m]
      BY DEF m
    <3> HIDE DEF t
    <3>2. QED
      BY <2>6, <2>8, <3>1 DEF SelectorRecord
  <2> HIDE DEF t
  <2>10. fd < ItemsMax
    BY <1>3 DEF Sound
  <2>11. Changed(s, t, fd, Nobody, "noop")
    BY <2>3, <2>4, <2>5, <2>6, <2>8, <2>9 DEF Changed
  <2>12. Nobody \in Holder /\ "noop" \in Interest
    BY Holders DEF Interest
  <2>13. Sound(t)
    BY <2>10, <2>11, <2>12, ChangeOne
  <2>14. QED
    BY <2>1, <2>6, <2>9, <2>13
<1>4. QED
  BY <1>2, <1>3

-----------------------------------------------------------------------------
(* Types of what is not the selector's.                                    *)
Typed ==
  /\ open \in [Fd -> Holder] /\ watched \in [Fd -> Holder]
  /\ slave_r \in SUBSET Fd /\ slave_w \in SUBSET Fd
  /\ last \in Fd /\ cursor \in 0 .. OpenMax
  /\ client_fd \in [Client -> Fd] /\ filed_fd \in [Client -> Fd]
  /\ finished_reading \in [Client -> BOOLEAN] /\ busy \in [Client -> BOOLEAN]

(* The listeners hold their descriptors and nobody the standard ones.      *)
Listening ==
  /\ open[0] = Nobody /\ open[Passive] = Listener
  /\ \A fd \in Fd : open[fd] = Listener => fd = Passive

(* A connection's descriptors are its own.  A file that select() cannot    *)
(* watch is closed, and its number may be anybody's.                       *)
HandlesAreHeld ==
  \A c \in Client :
    /\ client_fd[c] # 0 => item[client_fd[c]] = Socket(c)
    /\ filed_fd[c] # 0 /\ filed_fd[c] < ItemsMax => open[filed_fd[c]] = File(c)
    /\ busy[c] => filed_fd[c] # 0
    /\ finished_reading[c] =>
         filed_fd[c] # 0 /\ filed_fd[c] < ItemsMax /\ item[filed_fd[c]] = Nobody

(* A directory stream is never registered.                                 *)
StreamsUnregistered == \A fd \in Fd : item[fd] # LostStream

(* Who holds a descriptor, for the kernel, the selector and the handlers.  *)
Held ==
  Listening /\ HandlesAreHeld /\ StreamsUnregistered /\ RegisteredIsHeld /\ NoLeak

(* Until the listeners are visited nothing was closed, so a descriptor     *)
(* that pselect reported is not given to a new connection.                 *)
Fresh ==
  /\ cursor <= Passive => item = watched
  /\ \A fd \in slave_r \cup slave_w : watched[fd] # Nobody
  /\ \A fd \in Fd : item[fd].kind = "socket" =>
       item[fd] = watched[fd] \/ fd \notin slave_r \cup slave_w

(* The inductive invariant.                                                *)
DescriptorInv == Sound(selector) /\ Typed /\ Held /\ Fresh

-----------------------------------------------------------------------------
(* Sound, in terms of the variables.                                       *)
LEMMA SelectorFields ==
  ASSUME Sound(selector)
  PROVE  /\ item \in [Fd -> Holder] /\ interest \in [Fd -> Interest]
         /\ master_r = {fd \in Fd : item[fd] # Nobody /\ interest[fd] = "read"}
         /\ master_w = {fd \in Fd : item[fd] # Nobody /\ interest[fd] = "write"}
         /\ max_fd \in Fd /\ item[max_fd] # Nobody
         /\ \A fd \in Fd : item[fd] # Nobody => fd <= max_fd /\ fd < ItemsMax
         /\ item[Passive] = Listener /\ fd_size = ItemsMax + 1
BY DEF selector, Sound, SelectorRecord

(* The selector is sound if it becomes a sound record.                     *)
LEMMA Becomes ==
  ASSUME NEW t, Sound(t), SelectorBecomes(t)
  PROVE  Sound(selector)' /\ item' = t.item
<1>1. t = [item |-> t.item, interest |-> t.interest, r |-> t.r, w |-> t.w,
           max |-> t.max, size |-> t.size]
  BY DEF Sound, SelectorRecord
<1>2. selector' = t
  BY <1>1 DEF selector, SelectorBecomes
<1>3. QED
  BY <1>2 DEF SelectorBecomes

(* The items tell whose descriptor is visited.                             *)
LEMMA Visited ==
  ASSUME DescriptorInv, iterating, item[cursor] # Nobody
  PROVE  cursor \in Fd /\ cursor # 0 /\ cursor < ItemsMax /\ open[cursor] = item[cursor]
<1>1. cursor \in Nat /\ cursor <= last /\ last \in Nat /\ last <= OpenMax - 1
  BY FdFacts DEF DescriptorInv, Typed, iterating
<1>2. cursor \in Fd
  BY <1>1, FdFacts DEF Fd
<1>3. open[cursor] = item[cursor]
  BY <1>2 DEF DescriptorInv, Held, RegisteredIsHeld, ITEM_USED
<1>4. cursor < ItemsMax
  BY <1>2, SelectorFields DEF DescriptorInv
<1>5. QED
  BY <1>2, <1>3, <1>4 DEF DescriptorInv, Held, Listening

(* The listener has the lowest descriptor that is registered.              *)
LEMMA VisitedListener ==
  ASSUME DescriptorInv, Visit(NoClient, "listener")
  PROVE  cursor = Passive
<1>1. iterating /\ item[cursor] = Listener
  BY DEF Visit, Listener
<1>2. Listener # Nobody
  BY Holders
<1>3. QED
  BY <1>1, <1>2, Visited DEF DescriptorInv, Held, Listening

(* A handler of a socket runs for its owner's descriptor,                  *)
LEMMA VisitedSocket ==
  ASSUME DescriptorInv, NEW c \in Client, SocketReads(c) \/ SocketWrites(c)
  PROVE  /\ iterating /\ item[cursor] = Socket(c) /\ cursor \in Fd \ {0, Passive}
         /\ client_fd[c] = cursor /\ cursor < ItemsMax /\ open[cursor] = Socket(c)
<1>1. iterating /\ item[cursor] = Socket(c)
  BY DEF SocketReads, SocketWrites, Visit, Socket
<1>2. Socket(c) # Nobody /\ Socket(c) # Listener /\ Socket(c) # LostStream
      /\ Socket(c).kind = "socket" /\ Socket(c).of = c /\ "socket" # "file"
  BY Holders
<1>3. cursor \in Fd /\ cursor # 0 /\ cursor < ItemsMax /\ open[cursor] = Socket(c)
  BY <1>1, <1>2, Visited
<1>4. cursor # Passive
  BY <1>2, <1>3 DEF DescriptorInv, Held, Listening
<1>5. client_fd[c] = cursor
  BY <1>2, <1>3, <1>4 DEF DescriptorInv, Held, NoLeak
<1>6. QED
  BY <1>1, <1>3, <1>4, <1>5

(* and that of a file too.                                                 *)
LEMMA VisitedFile ==
  ASSUME DescriptorInv, NEW c \in Client, Visit(c, "file")
  PROVE  /\ iterating /\ item[cursor] = File(c) /\ cursor \in Fd \ {0, Passive}
         /\ filed_fd[c] = cursor /\ cursor < ItemsMax /\ open[cursor] = File(c)
<1>1. iterating /\ item[cursor] = File(c)
  BY DEF Visit, File
<1>2. File(c) # Nobody /\ File(c) # Listener /\ File(c) # LostStream
      /\ File(c).kind = "file" /\ File(c).of = c /\ "socket" # "file"
  BY Holders
<1>3. cursor \in Fd /\ cursor # 0 /\ cursor < ItemsMax /\ open[cursor] = File(c)
  BY <1>1, <1>2, Visited
<1>4. cursor # Passive
  BY <1>2, <1>3 DEF DescriptorInv, Held, Listening
<1>5. filed_fd[c] = cursor
  BY <1>2, <1>3, <1>4 DEF DescriptorInv, Held, NoLeak
<1>6. QED
  BY <1>1, <1>3, <1>4, <1>5

(* A visit keeps Fresh unless it gives a reported descriptor to a socket.  *)
LEMMA FreshKept ==
  ASSUME DescriptorInv, iterating, MoveOn, cursor # 0 \/ item' = item, item' \in [Fd -> Holder],
         \A fd \in Fd : \/ item'[fd] = item[fd]
                        \/ item'[fd].kind # "socket"
                        \/ fd \notin slave_r \cup slave_w
  PROVE  /\ Fresh'
         /\ watched' \in [Fd -> Holder] /\ slave_r' \in SUBSET Fd /\ slave_w' \in SUBSET Fd
         /\ last' \in Fd /\ cursor' \in 0 .. OpenMax
<1>1. /\ cursor \in Nat /\ last \in Nat /\ last <= OpenMax - 1 /\ OpenMax \in Nat
      /\ cursor <= last /\ cursor' = cursor + 1
      /\ slave_r' = slave_r /\ slave_w' = slave_w /\ last' = last /\ watched' = watched
  BY FdFacts DEF DescriptorInv, Typed, MoveOn, iterating
<1>2. cursor' <= Passive => item' = watched'
  BY <1>1 DEF DescriptorInv, Fresh, Passive
<1>3. QED
  BY <1>1, <1>2 DEF DescriptorInv, Fresh, Typed

-----------------------------------------------------------------------------
(* Types of what the handlers change.                                      *)
HandlerTyped ==
  /\ open \in [Fd -> Holder]
  /\ client_fd \in [Client -> Fd] /\ filed_fd \in [Client -> Fd]
  /\ finished_reading \in [Client -> BOOLEAN] /\ busy \in [Client -> BOOLEAN]

(* What changes neither holders nor items nor clients keeps all of this.   *)
LEMMA SomeClientStays ==
  ASSUME DescriptorInv, UNCHANGED <<open, clientVars>>, item' = item
  PROVE  HandlerTyped' /\ Held'
BY DEF DescriptorInv, Typed, HandlerTyped, Held, Listening, HandlesAreHeld, StreamsUnregistered,
       RegisteredIsHeld, ITEM_USED, NoLeak, clientVars

(* A new connection gets a descriptor that nobody has.                     *)
LEMMA AcceptHolds ==
  ASSUME DescriptorInv, NEW c \in Client, Accept(c), can_register(selector, lowest_fd)
  PROVE  /\ Sound(selector)' /\ HandlerTyped' /\ Held'
         /\ item' = [item EXCEPT ![lowest_fd] = Socket(c)]
         /\ item[lowest_fd] = Nobody
<1> DEFINE fd == lowest_fd
<1>1. fd \in Fd /\ fd # 0 /\ open[fd] = Nobody
  BY LowestIsFree DEF Accept
<1>2. item[fd] = Nobody /\ fd < ItemsMax
  BY DEF can_register, selector
<1>3. /\ Sound(selector)'
      /\ item' = [item EXCEPT ![fd] = Socket(c)]
  <2>1. Socket(c) \in Holder /\ Socket(c) # Nobody /\ "write" \in Interest
    BY Holders DEF Interest
  <2> DEFINE t == selector_register(selector, fd, Socket(c), "write")
  <2>2. SelectorBecomes(t)
    BY DEF Accept
  <2>3. Sound(t) /\ t.item = [item EXCEPT ![fd] = Socket(c)]
    <3>1. selector.item = item
      BY DEF selector
    <3> HIDE DEF fd
    <3>2. QED
      BY <1>1, <2>1, <3>1, Registers DEF fd, DescriptorInv
  <2> HIDE DEF t, fd
  <2>4. QED
    BY <2>2, <2>3, Becomes
<1>4. /\ open' = [open EXCEPT ![fd] = Socket(c)] /\ client_fd' = [client_fd EXCEPT ![c] = fd]
      /\ filed_fd' = filed_fd /\ finished_reading' = finished_reading /\ busy' = busy
      /\ client_fd[c] = 0
  BY DEF Accept
<1>5. /\ item \in [Fd -> Holder]
      /\ HandlerTyped /\ Held
  BY SelectorFields DEF DescriptorInv, Typed, HandlerTyped
<1> HIDE DEF fd
<1>6. HandlerTyped'
  BY <1>1, <1>4, <1>5, Holders DEF HandlerTyped
<1>7. /\ \A x \in Fd : item'[x] = IF x = fd THEN Socket(c) ELSE item[x]
      /\ \A x \in Fd : open'[x] = IF x = fd THEN Socket(c) ELSE open[x]
      /\ \A d \in Client : client_fd'[d] = IF d = c THEN fd ELSE client_fd[d]
      /\ \A d \in Client : client_fd[d] \in Fd /\ filed_fd[d] \in Fd
      /\ Passive \in Fd /\ 0 \in Fd
  BY <1>3, <1>4, <1>5, FdFacts DEF HandlerTyped
<1>8. /\ Socket(c) # Nobody /\ Socket(c) # Listener /\ Socket(c) # LostStream
      /\ Socket(c).kind = "socket" /\ Socket(c).of = c
      /\ Nobody # Listener /\ \A d \in Client : File(d) # Nobody /\ Socket(d) # Nobody
  BY Holders
<1>9. fd # Passive
  BY <1>1, <1>5, <1>8 DEF Held, Listening
<1>10. Listening'
  BY <1>1, <1>5, <1>7, <1>8, <1>9 DEF Held, Listening
<1>11. StreamsUnregistered' /\ RegisteredIsHeld'
  BY <1>5, <1>7, <1>8 DEF Held, StreamsUnregistered, RegisteredIsHeld, ITEM_USED
<1>12. HandlesAreHeld'
  <2>1. ASSUME NEW d \in Client, client_fd'[d] # 0 PROVE item'[client_fd'[d]] = Socket(d)
    BY <1>1, <1>2, <1>5, <1>7, <1>8, <2>1 DEF Held, HandlesAreHeld
  <2>2. ASSUME NEW d \in Client, filed_fd[d] # 0, filed_fd[d] < ItemsMax
        PROVE  open'[filed_fd[d]] = File(d) /\ filed_fd[d] # fd
    BY <1>1, <1>5, <1>7, <1>8, <2>2 DEF Held, HandlesAreHeld
  <2>3. QED
    BY <1>4, <1>5, <1>7, <2>1, <2>2 DEF Held, HandlesAreHeld
<1>13. NoLeak'
  BY <1>4, <1>5, <1>7, <1>8 DEF Held, NoLeak
<1>14. QED
  BY <1>2, <1>3, <1>6, <1>10, <1>11, <1>12, <1>13 DEF Held, fd

(* A change of interest leaves the items as they are.                      *)
LEMMA InterestOnly ==
  ASSUME Sound(selector), NEW fd \in Fd, NEW i \in Interest
  PROVE  LET t == selector_set_interest(selector, fd, i)
         IN  Sound(t) /\ t.item = item
<1>1. selector.item = item
  BY DEF selector
<1>2. QED
  BY <1>1, SetsInterest

(* An answer changes no holder.                                            *)
LEMMA AnswerHolds ==
  ASSUME DescriptorInv, NEW c \in Client, NEW i \in {"read", "write"}, Answer(c, i)
  PROVE  Sound(selector)' /\ HandlerTyped' /\ Held' /\ item' = item
<1> DEFINE t == selector_set_interest(selector, client_fd[c], i)
<1>1. client_fd[c] \in Fd /\ i \in Interest
  BY DEF DescriptorInv, Typed, Interest
<1>2. Sound(t) /\ t.item = item
  BY <1>1, InterestOnly DEF DescriptorInv
<1>3. SelectorBecomes(t) /\ UNCHANGED <<open, clientVars>>
  BY DEF Answer
<1> HIDE DEF t
<1>4. QED
  BY <1>2, <1>3, Becomes, SomeClientStays

(* A lost stream is nobody's.                                              *)
LEMMA StreamHolds ==
  ASSUME DescriptorInv, NEW c \in Client, initialize_mails(c)
  PROVE  Sound(selector)' /\ HandlerTyped' /\ Held' /\ item' = item
<1> DEFINE t == selector_set_interest(selector, client_fd[c], "write")
           fd == lowest_fd
<1>1. client_fd[c] \in Fd /\ "write" \in Interest
  BY DEF DescriptorInv, Typed, Interest
<1>2. Sound(t) /\ t.item = item
  BY <1>1, InterestOnly DEF DescriptorInv
<1>3. SelectorBecomes(t) /\ open' = [open EXCEPT ![fd] = LostStream] /\ UNCHANGED clientVars
  BY DEF initialize_mails
<1>4. fd \in Fd /\ fd # 0 /\ open[fd] = Nobody
  BY LowestIsFree DEF initialize_mails
<1> HIDE DEF t, fd
<1>5. Sound(selector)' /\ item' = item
  BY <1>2, <1>3, Becomes
<1>6. HandlerTyped /\ Held /\ item \in [Fd -> Holder]
  BY SelectorFields DEF DescriptorInv, Typed, HandlerTyped
<1>7. HandlerTyped'
  BY <1>3, <1>6, Holders DEF HandlerTyped, clientVars
<1>8. /\ \A x \in Fd : open'[x] = IF x = fd THEN LostStream ELSE open[x]
      /\ Passive \in Fd /\ 0 \in Fd
      /\ \A d \in Client : filed_fd[d] \in Fd
  BY <1>3, <1>6, FdFacts DEF HandlerTyped
<1>9. /\ Nobody # Listener /\ LostStream # Listener
      /\ \A d \in Client : File(d) # Nobody
  BY Holders
<1>10. Listening'
  BY <1>4, <1>6, <1>8, <1>9 DEF Held, Listening
<1>11. StreamsUnregistered' /\ RegisteredIsHeld'
  BY <1>4, <1>5, <1>6, <1>8 DEF Held, StreamsUnregistered, RegisteredIsHeld, ITEM_USED
<1>12. HandlesAreHeld'
  BY <1>3, <1>4, <1>5, <1>6, <1>8, <1>9 DEF Held, HandlesAreHeld, clientVars
<1>13. NoLeak'
  BY <1>3, <1>6, <1>8 DEF Held, NoLeak, clientVars
<1>14. QED
  BY <1>5, <1>7, <1>10, <1>11, <1>12, <1>13 DEF Held

(* A RETR opens a file with a descriptor that nobody has, or none.         *)
LEMMA SetupHolds ==
  ASSUME DescriptorInv, NEW c \in Client, setup_mail_retrieval(c)
  PROVE  /\ Sound(selector)' /\ HandlerTyped' /\ Held'
         /\ item' = item \/ item' = [item EXCEPT ![lowest_fd] = File(c)]
<1> DEFINE s == selector_set_interest(selector, client_fd[c], "write")
           fd == lowest_fd
<1>1. client_fd[c] \in Fd /\ "write" \in Interest /\ "read" \in Interest
  BY DEF DescriptorInv, Typed, Interest
<1>2. Sound(s) /\ s.item = item
  BY <1>1, InterestOnly DEF DescriptorInv
<1>3. fd \in Fd /\ fd # 0 /\ open[fd] = Nobody
  BY LowestIsFree DEF setup_mail_retrieval
<1>4. /\ filed_fd' = [filed_fd EXCEPT ![c] = fd] /\ filed_fd[c] = 0
      /\ client_fd' = client_fd /\ finished_reading' = finished_reading
  BY DEF setup_mail_retrieval
<1>5. HandlerTyped /\ Held /\ item \in [Fd -> Holder]
  BY SelectorFields DEF DescriptorInv, Typed, HandlerTyped
<1>6. /\ File(c) \in Holder /\ File(c) # Nobody /\ File(c) # Listener /\ File(c) # LostStream
      /\ File(c).kind = "file" /\ File(c).of = c
      /\ Nobody # Listener /\ \A d \in Client : File(d) # Nobody /\ Socket(d) # Nobody
  BY Holders
<1>7. CASE can_register(s, fd)
  <2> DEFINE t == selector_register(s, fd, File(c), "read")
  <2>1. /\ SelectorBecomes(t) /\ open' = [open EXCEPT ![fd] = File(c)]
        /\ busy' = [busy EXCEPT ![c] = TRUE]
    BY <1>7 DEF setup_mail_retrieval
  <2>2. fd < ItemsMax /\ item[fd] = Nobody
    BY <1>2, <1>7 DEF can_register
  <2> HIDE DEF s, fd
  <2>3. Sound(t) /\ t.item = [item EXCEPT ![fd] = File(c)]
    BY <1>1, <1>2, <1>3, <1>6, <1>7, Registers
  <2> HIDE DEF t
  <2>4. Sound(selector)' /\ item' = [item EXCEPT ![fd] = File(c)]
    BY <2>1, <2>3, Becomes
  <2>5. HandlerTyped'
    BY <1>3, <1>4, <1>5, <1>6, <2>1 DEF HandlerTyped
  <2>6. /\ \A x \in Fd : item'[x] = IF x = fd THEN File(c) ELSE item[x]
        /\ \A x \in Fd : open'[x] = IF x = fd THEN File(c) ELSE open[x]
        /\ \A d \in Client : filed_fd'[d] = IF d = c THEN fd ELSE filed_fd[d]
        /\ \A d \in Client : busy'[d] = IF d = c THEN TRUE ELSE busy[d]
        /\ \A d \in Client : client_fd[d] \in Fd /\ filed_fd[d] \in Fd
        /\ Passive \in Fd /\ 0 \in Fd
    BY <1>4, <1>5, <2>1, <2>4, FdFacts DEF HandlerTyped
  <2>7. fd # Passive
    BY <1>3, <1>5, <1>6 DEF Held, Listening
  <2>8. Listening'
    BY <1>3, <1>5, <1>6, <2>6, <2>7 DEF Held, Listening
  <2>9. StreamsUnregistered' /\ RegisteredIsHeld'
    BY <1>5, <1>6, <2>6 DEF Held, StreamsUnregistered, RegisteredIsHeld, ITEM_USED
  <2>10. HandlesAreHeld'
    <3> SUFFICES ASSUME NEW d \in Client
                 PROVE  /\ client_fd'[d] # 0 => item'[client_fd'[d]] = Socket(d)
                        /\ filed_fd'[d] # 0 /\ filed_fd'[d] < ItemsMax =>
                             open'[filed_fd'[d]] = File(d)
                        /\ busy'[d] => filed_fd'[d] # 0
                        /\ finished_reading'[d] =>
                             /\ filed_fd'[d] # 0 /\ filed_fd'[d] < ItemsMax
                             /\ item'[filed_fd'[d]] = Nobody
      BY DEF HandlesAreHeld
    <3>1. /\ client_fd[d] # 0 => item[client_fd[d]] = Socket(d)
          /\ filed_fd[d] # 0 /\ filed_fd[d] < ItemsMax => open[filed_fd[d]] = File(d)
          /\ busy[d] => filed_fd[d] # 0
          /\ finished_reading[d] =>
               filed_fd[d] # 0 /\ filed_fd[d] < ItemsMax /\ item[filed_fd[d]] = Nobody
      BY <1>5 DEF Held, HandlesAreHeld
    <3>2. client_fd'[d] # 0 => item'[client_fd'[d]] = Socket(d)
      BY <1>4, <1>6, <2>2, <2>6, <3>1
    <3>3. CASE d = c
      BY <1>3, <1>4, <2>6, <3>1, <3>2, <3>3
    <3>4. CASE d # c
      <4>1. filed_fd'[d] = filed_fd[d] /\ busy'[d] = busy[d] /\ filed_fd[d] \in Fd
        BY <2>6, <3>4
      <4>2. filed_fd[d] # 0 /\ filed_fd[d] < ItemsMax => filed_fd[d] # fd
        BY <1>3, <1>6, <3>1
      <4>3. filed_fd[d] # fd =>
              open'[filed_fd[d]] = open[filed_fd[d]] /\ item'[filed_fd[d]] = item[filed_fd[d]]
        BY <2>6, <4>1
      <4>4. QED
        BY <1>4, <3>1, <3>2, <4>1, <4>2, <4>3
    <3>5. QED
      BY <3>3, <3>4
  <2>11. NoLeak'
    BY <1>4, <1>5, <1>6, <2>6 DEF Held, NoLeak
  <2>12. QED
    BY <2>4, <2>5, <2>8, <2>9, <2>10, <2>11 DEF Held, fd
<1>8. CASE ~can_register(s, fd)
  <2>1. SelectorBecomes(s) /\ open' = open /\ busy' = busy
    BY <1>8 DEF setup_mail_retrieval
  <2> HIDE DEF s
  <2>2. Sound(selector)' /\ item' = item
    BY <1>2, <2>1, Becomes
  <2>3. ~(fd < ItemsMax)
    <3>1. item[fd] = Nobody
      BY <1>3, <1>5 DEF Held, RegisteredIsHeld, ITEM_USED
    <3>2. QED
      BY <1>2, <1>8, <3>1 DEF can_register
  <2> HIDE DEF fd
  <2>4. HandlerTyped'
    BY <1>3, <1>4, <1>5, <2>1 DEF HandlerTyped
  <2>5. \A d \in Client : filed_fd'[d] = IF d = c THEN fd ELSE filed_fd[d]
    BY <1>4, <1>5 DEF HandlerTyped
  <2>6. Listening' /\ StreamsUnregistered' /\ RegisteredIsHeld'
    BY <1>5, <2>1, <2>2 DEF Held, Listening, StreamsUnregistered, RegisteredIsHeld, ITEM_USED
  <2>7. HandlesAreHeld'
    BY <1>3, <1>4, <1>5, <2>1, <2>2, <2>3, <2>5 DEF Held, HandlesAreHeld
  <2>8. NoLeak'
    BY <1>4, <1>5, <2>1, <2>5 DEF Held, NoLeak
  <2>9. QED
    BY <2>2, <2>4, <2>6, <2>7, <2>8 DEF Held
<1>9. QED
  BY <1>7, <1>8

(* A RETR that goes on opens and closes nothing.                           *)
LEMMA RetrieveHolds ==
  ASSUME DescriptorInv, NEW c \in Client, retrieve_mail(c)
  PROVE  Sound(selector)' /\ HandlerTyped' /\ Held' /\ item' = item
<1> DEFINE s == selector_set_interest(selector, client_fd[c], "write")
           t == selector_set_interest(s, filed_fd[c], "read")
<1>1. /\ client_fd[c] \in Fd /\ filed_fd[c] \in Fd
      /\ "write" \in Interest /\ "read" \in Interest
  BY DEF DescriptorInv, Typed, Interest
<1>2. Sound(s) /\ s.item = item
  BY <1>1, InterestOnly DEF DescriptorInv
<1>3. PICK u : SelectorBecomes(u) /\ (u = s \/ u = t)
  <2>1. PICK room \in BOOLEAN : SelectorBecomes(IF room THEN t ELSE s)
    BY DEF retrieve_mail
  <2>2. (IF room THEN t ELSE s) = s \/ (IF room THEN t ELSE s) = t
    OBVIOUS
  <2>3. QED
    BY <2>1, <2>2
<1>4. /\ open' = open /\ client_fd' = client_fd /\ filed_fd' = filed_fd
      /\ finished_reading' = finished_reading /\ busy' = [busy EXCEPT ![c] = TRUE]
      /\ filed_fd[c] # 0
  BY DEF retrieve_mail
<1> HIDE DEF s
<1>5. Sound(t) /\ t.item = item
  BY <1>1, <1>2, SetsInterest
<1> HIDE DEF t
<1>6. Sound(selector)' /\ item' = item
  BY <1>2, <1>3, <1>5, Becomes
<1>7. HandlerTyped /\ Held
  BY DEF DescriptorInv, Typed, HandlerTyped
<1>8. HandlerTyped'
  BY <1>4, <1>7 DEF HandlerTyped
<1>9. Held'
  BY <1>4, <1>6, <1>7 DEF Held, Listening, StreamsUnregistered, RegisteredIsHeld, ITEM_USED,
                          NoLeak, HandlesAreHeld, HandlerTyped
<1>10. QED
  BY <1>6, <1>8, <1>9

(* The last visit of a RETR closes a file that is not registered any more. *)
LEMMA FinishHolds ==
  ASSUME DescriptorInv, NEW c \in Client, finish_mail_retrieval(c)
  PROVE  Sound(selector)' /\ HandlerTyped' /\ Held' /\ item' = item
<1> DEFINE fd == filed_fd[c]
<1>1. /\ open' = [open EXCEPT ![fd] = Nobody] /\ filed_fd' = [filed_fd EXCEPT ![c] = 0]
      /\ finished_reading' = [finished_reading EXCEPT ![c] = FALSE]
      /\ busy' = [busy EXCEPT ![c] = FALSE] /\ client_fd' = client_fd /\ UNCHANGED selectorVars
      /\ finished_reading[c]
  BY DEF finish_mail_retrieval
<1>2. Sound(selector)' /\ item' = item
  BY <1>1 DEF DescriptorInv, selectorVars, selector
<1>3. HandlerTyped /\ Held
  BY DEF DescriptorInv, Typed, HandlerTyped
<1>4. fd \in Fd /\ fd # 0 /\ fd < ItemsMax /\ item[fd] = Nobody /\ open[fd] = File(c)
  BY <1>1, <1>3 DEF Held, HandlesAreHeld, HandlerTyped
<1> HIDE DEF fd
<1>5. HandlerTyped'
  BY <1>1, <1>3, Holders, FdFacts DEF HandlerTyped
<1>6. /\ \A x \in Fd : open'[x] = IF x = fd THEN Nobody ELSE open[x]
      /\ \A d \in Client : filed_fd'[d] = IF d = c THEN 0 ELSE filed_fd[d]
      /\ \A d \in Client : finished_reading'[d] = IF d = c THEN FALSE ELSE finished_reading[d]
      /\ \A d \in Client : busy'[d] = IF d = c THEN FALSE ELSE busy[d]
      /\ \A d \in Client : client_fd[d] \in Fd /\ filed_fd[d] \in Fd
      /\ Passive \in Fd /\ 0 \in Fd
  BY <1>1, <1>3, FdFacts DEF HandlerTyped
<1>7. /\ Nobody # Listener /\ File(c) # Listener /\ File(c).kind = "file" /\ File(c).of = c
      /\ \A d \in Client : File(c) = File(d) => d = c
      /\ \A d \in Client : File(d) # Nobody
  BY Holders
<1>8. Listening'
  BY <1>3, <1>4, <1>6, <1>7 DEF Held, Listening
<1>9. StreamsUnregistered' /\ RegisteredIsHeld'
  BY <1>2, <1>3, <1>4, <1>6 DEF Held, StreamsUnregistered, RegisteredIsHeld, ITEM_USED
<1>10. HandlesAreHeld'
  <2> SUFFICES ASSUME NEW d \in Client
               PROVE  /\ client_fd'[d] # 0 => item'[client_fd'[d]] = Socket(d)
                      /\ filed_fd'[d] # 0 /\ filed_fd'[d] < ItemsMax =>
                           open'[filed_fd'[d]] = File(d)
                      /\ busy'[d] => filed_fd'[d] # 0
                      /\ finished_reading'[d] =>
                           /\ filed_fd'[d] # 0 /\ filed_fd'[d] < ItemsMax
                           /\ item'[filed_fd'[d]] = Nobody
    BY DEF HandlesAreHeld
  <2>1. /\ client_fd[d] # 0 => item[client_fd[d]] = Socket(d)
        /\ filed_fd[d] # 0 /\ filed_fd[d] < ItemsMax => open[filed_fd[d]] = File(d)
        /\ busy[d] => filed_fd[d] # 0
        /\ finished_reading[d] =>
             filed_fd[d] # 0 /\ filed_fd[d] < ItemsMax /\ item[filed_fd[d]] = Nobody
    BY <1>3 DEF Held, HandlesAreHeld
  <2>2. CASE d = c
    BY <1>1, <1>2, <1>6, <2>1, <2>2
  <2>3. CASE d # c
    <3>1. /\ filed_fd'[d] = filed_fd[d] /\ busy'[d] = busy[d] /\ filed_fd[d] \in Fd
          /\ finished_reading'[d] = finished_reading[d]
      BY <1>6, <2>3
    <3>2. filed_fd[d] # 0 /\ filed_fd[d] < ItemsMax => filed_fd[d] # fd
      BY <1>4, <1>7, <2>1, <2>3
    <3>3. filed_fd[d] # fd => open'[filed_fd[d]] = open[filed_fd[d]]
      BY <1>6, <3>1
    <3>4. QED
      BY <1>1, <1>2, <2>1, <3>1, <3>2, <3>3
  <2>4. QED
    BY <2>2, <2>3
<1>11. NoLeak'
  BY <1>1, <1>3, <1>6, <1>7 DEF Held, NoLeak, fd
<1>12. QED
  BY <1>2, <1>5, <1>8, <1>9, <1>10, <1>11 DEF Held

(* The handler of a file: what is unregistered stays open until the RETR   *)
(* finishes.                                                               *)
LEMMA ReadHolds ==
  ASSUME DescriptorInv, NEW c \in Client, mail_read_handler(c)
  PROVE  /\ Sound(selector)' /\ HandlerTyped' /\ Held'
         /\ item' = item \/ item' = [item EXCEPT ![cursor] = Nobody]
<1> DEFINE s == selector_set_interest(selector, filed_fd[c], "noop")
           t == selector_unregister_fd(selector, filed_fd[c])
<1>1. /\ iterating /\ item[cursor] = File(c) /\ cursor \in Fd \ {0, Passive}
      /\ filed_fd[c] = cursor /\ cursor < ItemsMax /\ open[cursor] = File(c)
  BY VisitedFile DEF mail_read_handler
<1>2. /\ open' = open /\ client_fd' = client_fd /\ filed_fd' = filed_fd /\ busy' = busy
  BY DEF mail_read_handler
<1>3. HandlerTyped /\ Held /\ item \in [Fd -> Holder] /\ Sound(selector)
  BY SelectorFields DEF DescriptorInv, Typed, HandlerTyped
<1>4. CASE SelectorBecomes(s) /\ UNCHANGED finished_reading
  <2>1. Sound(s) /\ s.item = item
    BY <1>1, <1>3, InterestOnly DEF Interest
  <2> HIDE DEF s
  <2>2. Sound(selector)' /\ item' = item
    BY <1>4, <2>1, Becomes
  <2>3. QED
    BY <1>2, <1>4, <2>2, SomeClientStays DEF clientVars
<1>5. CASE SelectorBecomes(t) /\ finished_reading' = [finished_reading EXCEPT ![c] = TRUE]
  <2>1. Sound(t) /\ t.item = [item EXCEPT ![cursor] = Nobody]
    <3>1. selector.item = item
      BY DEF selector
    <3>2. QED
      BY <1>1, <1>3, <3>1, Unregisters
  <2> HIDE DEF t
  <2>2. Sound(selector)' /\ item' = [item EXCEPT ![cursor] = Nobody]
    BY <1>5, <2>1, Becomes
  <2>3. HandlerTyped'
    BY <1>2, <1>3, <1>5 DEF HandlerTyped
  <2>4. /\ \A x \in Fd : item'[x] = IF x = cursor THEN Nobody ELSE item[x]
        /\ \A d \in Client : finished_reading'[d] = IF d = c THEN TRUE ELSE finished_reading[d]
        /\ \A d \in Client : client_fd[d] \in Fd /\ filed_fd[d] \in Fd
        /\ Nobody # LostStream /\ \A d \in Client : Socket(d) # File(c)
    BY <1>3, <1>5, <2>2, Holders DEF HandlerTyped
  <2>5. Listening' /\ NoLeak'
    BY <1>2, <1>3 DEF Held, Listening, NoLeak
  <2>6. StreamsUnregistered' /\ RegisteredIsHeld'
    BY <1>2, <1>3, <2>4 DEF Held, StreamsUnregistered, RegisteredIsHeld, ITEM_USED
  <2>7. HandlesAreHeld'
    <3> SUFFICES ASSUME NEW d \in Client
                 PROVE  /\ client_fd[d] # 0 => item'[client_fd[d]] = Socket(d)
                        /\ filed_fd[d] # 0 /\ filed_fd[d] < ItemsMax => open[filed_fd[d]] = File(d)
                        /\ busy[d] => filed_fd[d] # 0
                        /\ finished_reading'[d] =>
                             /\ filed_fd[d] # 0 /\ filed_fd[d] < ItemsMax
                             /\ item'[filed_fd[d]] = Nobody
      BY <1>2 DEF HandlesAreHeld
    <3>1. /\ client_fd[d] # 0 => item[client_fd[d]] = Socket(d)
          /\ filed_fd[d] # 0 /\ filed_fd[d] < ItemsMax => open[filed_fd[d]] = File(d)
          /\ busy[d] => filed_fd[d] # 0
          /\ finished_reading[d] =>
               filed_fd[d] # 0 /\ filed_fd[d] < ItemsMax /\ item[filed_fd[d]] = Nobody
      BY <1>3 DEF Held, HandlesAreHeld
    <3>2. client_fd[d] # 0 => item'[client_fd[d]] = Socket(d)
      BY <1>1, <2>4, <3>1
    <3>3. CASE d = c
      BY <1>1, <2>4, <3>1, <3>2, <3>3
    <3>4. CASE d # c
      BY <2>4, <3>1, <3>2, <3>4
    <3>5. QED
      BY <3>3, <3>4
  <2>8. QED
    BY <2>2, <2>3, <2>5, <2>6, <2>7 DEF Held
<1>6. CASE UNCHANGED <<selectorVars, finished_reading>>
  <2>1. Sound(selector)' /\ item' = item
    BY <1>3, <1>6 DEF selector, selectorVars
  <2>2. QED
    BY <1>2, <1>6, <2>1, SomeClientStays DEF clientVars
<1>7. QED
  BY <1>4, <1>5, <1>6 DEF mail_read_handler

(* Closing a connection gives back its descriptors and nobody else's.      *)
LEMMA CloseHolds ==
  ASSUME DescriptorInv, NEW c \in Client, pop3_close_handler(c)
  PROVE  /\ Sound(selector)' /\ HandlerTyped' /\ Held'
         /\ \A x \in Fd : item'[x] = item[x] \/ item'[x] = Nobody
<1> DEFINE fd == client_fd[c]
           file == filed_fd[c]
           s == selector_unregister_fd(selector, fd)
           t == free_mail_info(s, c)
<1>1. /\ item[fd] = Socket(c) /\ fd \in Fd \ {0, Passive} /\ fd < ItemsMax
      /\ open[fd] = Socket(c)
  BY VisitedSocket DEF pop3_close_handler
<1>2. /\ client_fd' = [client_fd EXCEPT ![c] = 0] /\ filed_fd' = [filed_fd EXCEPT ![c] = 0]
      /\ finished_reading' = [finished_reading EXCEPT ![c] = FALSE]
      /\ busy' = [busy EXCEPT ![c] = FALSE]
      /\ open' = [x \in Fd |-> IF x \in Closes(c) THEN Nobody ELSE open[x]]
      /\ SelectorBecomes(t)
  BY DEF pop3_close_handler
<1>3. HandlerTyped /\ Held /\ item \in [Fd -> Holder] /\ Sound(selector)
      /\ \A x \in Fd : item[x] # Nobody => x < ItemsMax
  BY SelectorFields DEF DescriptorInv, Typed, HandlerTyped
<1>4. /\ Nobody # Listener /\ Nobody # LostStream
      /\ \A d \in Client : /\ Socket(d) # Nobody /\ File(d) # Nobody
                           /\ Socket(d) # Listener /\ File(d) # Listener
      /\ \A d, e \in Client : /\ Socket(d) # File(e)
                              /\ Socket(d) = Socket(e) => d = e
                              /\ File(d) = File(e) => d = e
  BY Holders
<1>5. file \in Fd /\ (file # 0 => open[file] = File(c) \/ ~(file < ItemsMax))
  BY <1>3 DEF Held, HandlesAreHeld, HandlerTyped
<1>6. file # Passive
  BY <1>3, <1>4, <1>5, FdFacts DEF Held, Listening
<1>7. Sound(s) /\ s.item = [item EXCEPT ![fd] = Nobody]
  <2>1. selector.item = item
    BY DEF selector
  <2> HIDE DEF fd
  <2>2. QED
    BY <1>1, <1>3, <2>1, Unregisters
<1> HIDE DEF s, fd
<1>8. /\ Sound(t)
      /\ t.item = IF file = 0 THEN s.item ELSE [s.item EXCEPT ![file] = Nobody]
  BY <1>5, <1>6, <1>7, Unregisters DEF free_mail_info
<1> HIDE DEF t, file
<1>9. Sound(selector)' /\ item' = t.item
  BY <1>2, <1>8, Becomes
<1>10. /\ \A x \in Fd : item'[x] = IF x = fd \/ (x = file /\ file # 0) THEN Nobody ELSE item[x]
       /\ \A x \in Fd : open'[x] = IF x = fd \/ (x = file /\ file # 0) THEN Nobody ELSE open[x]
       /\ \A d \in Client : d # c => /\ client_fd'[d] = client_fd[d] /\ filed_fd'[d] = filed_fd[d]
                                     /\ busy'[d] = busy[d]
                                     /\ finished_reading'[d] = finished_reading[d]
       /\ client_fd'[c] = 0 /\ filed_fd'[c] = 0 /\ ~busy'[c] /\ ~finished_reading'[c]
       /\ \A d \in Client : client_fd[d] \in Fd /\ filed_fd[d] \in Fd
       /\ 0 \in Fd /\ Passive \in Fd
  <2>1. \A x \in Fd : item'[x] = IF x = fd \/ (x = file /\ file # 0) THEN Nobody ELSE item[x]
    BY <1>1, <1>3, <1>5, <1>7, <1>8, <1>9
  <2>2. \A x \in Fd : x \in Closes(c) <=> x = fd \/ (x = file /\ file # 0)
    BY <1>1 DEF Closes, fd, file
  <2>3. \A x \in Fd : open'[x] = IF x = fd \/ (x = file /\ file # 0) THEN Nobody ELSE open[x]
    BY <1>2, <2>2
  <2>4. QED
    BY <1>2, <1>3, <2>1, <2>3, FdFacts DEF HandlerTyped
<1>11. HandlerTyped'
  BY <1>2, <1>3, Holders, FdFacts DEF HandlerTyped
<1>12. Listening'
  BY <1>1, <1>3, <1>4, <1>6, <1>10 DEF Held, Listening
<1>13. StreamsUnregistered' /\ RegisteredIsHeld'
  BY <1>3, <1>4, <1>10 DEF Held, StreamsUnregistered, RegisteredIsHeld, ITEM_USED
<1>14. HandlesAreHeld'
  <2> SUFFICES ASSUME NEW d \in Client
               PROVE  /\ client_fd'[d] # 0 => item'[client_fd'[d]] = Socket(d)
                      /\ filed_fd'[d] # 0 /\ filed_fd'[d] < ItemsMax =>
                           open'[filed_fd'[d]] = File(d)
                      /\ busy'[d] => filed_fd'[d] # 0
                      /\ finished_reading'[d] =>
                           /\ filed_fd'[d] # 0 /\ filed_fd'[d] < ItemsMax
                           /\ item'[filed_fd'[d]] = Nobody
    BY DEF HandlesAreHeld
  <2>1. /\ client_fd[d] # 0 => item[client_fd[d]] = Socket(d)
        /\ filed_fd[d] # 0 /\ filed_fd[d] < ItemsMax => open[filed_fd[d]] = File(d)
        /\ busy[d] => filed_fd[d] # 0
        /\ finished_reading[d] =>
             filed_fd[d] # 0 /\ filed_fd[d] < ItemsMax /\ item[filed_fd[d]] = Nobody
    BY <1>3 DEF Held, HandlesAreHeld
  <2>2. CASE d = c
    BY <1>10, <2>2
  <2>3. CASE d # c
    <3>1. /\ client_fd'[d] = client_fd[d] /\ filed_fd'[d] = filed_fd[d] /\ busy'[d] = busy[d]
          /\ finished_reading'[d] = finished_reading[d]
          /\ client_fd[d] \in Fd /\ filed_fd[d] \in Fd
      BY <1>10, <2>3
    <3>2. client_fd[d] # 0 => client_fd[d] # fd /\ ~(client_fd[d] = file /\ file # 0)
      <4> SUFFICES ASSUME client_fd[d] # 0
                   PROVE  client_fd[d] # fd /\ ~(client_fd[d] = file /\ file # 0)
        OBVIOUS
      <4>1. /\ item[client_fd[d]] = Socket(d) /\ open[client_fd[d]] = Socket(d)
            /\ client_fd[d] < ItemsMax
        BY <1>3, <1>4, <2>1, <3>1 DEF Held, RegisteredIsHeld, ITEM_USED
      <4>2. QED
        BY <1>1, <1>4, <1>5, <2>3, <4>1
    <3>3. filed_fd[d] # 0 /\ filed_fd[d] < ItemsMax =>
            filed_fd[d] # fd /\ ~(filed_fd[d] = file /\ file # 0)
      BY <1>1, <1>4, <1>5, <2>1, <2>3, <3>1
    <3>4. client_fd'[d] # 0 => item'[client_fd'[d]] = Socket(d)
      BY <1>10, <2>1, <3>1, <3>2
    <3>5. filed_fd[d] # 0 /\ filed_fd[d] < ItemsMax =>
            open'[filed_fd[d]] = open[filed_fd[d]] /\ item'[filed_fd[d]] = item[filed_fd[d]]
      BY <1>10, <3>1, <3>3
    <3>6. QED
      BY <2>1, <3>1, <3>4, <3>5
  <2>4. QED
    BY <2>2, <2>3
<1>15. NoLeak'
  <2> SUFFICES ASSUME NEW x \in Fd \ {0, Passive}, open'[x] \notin {Nobody, LostStream}
               PROVE  \/ open'[x].kind = "socket" /\ client_fd'[open'[x].of] = x
                      \/ open'[x].kind = "file" /\ filed_fd'[open'[x].of] = x
    BY DEF NoLeak
  <2>1. open'[x] = open[x] /\ x # fd /\ ~(x = file /\ file # 0)
    BY <1>10
  <2>2. \/ open[x].kind = "socket" /\ client_fd[open[x].of] = x
        \/ open[x].kind = "file" /\ filed_fd[open[x].of] = x
    BY <1>3, <2>1 DEF Held, NoLeak
  <2>3. open[x].of # c \/ (open[x].kind = "socket" /\ x = fd) \/ (open[x].kind = "file" /\ x = file)
    BY <2>2 DEF fd, file
  <2>4. open[x].of # c
    BY <2>1, <2>3
  <2>5. open[x].of \in Client
    <3>1. open[x] \in Holder /\ open[x] # Listener
      BY <1>3 DEF HandlerTyped, Held, Listening
    <3>2. PICK d \in Client : open[x] = Socket(d) \/ open[x] = File(d)
      BY <2>1, <3>1, Holders
    <3>3. QED
      BY <3>2, Holders
  <2>6. QED
    BY <1>10, <2>1, <2>2, <2>4, <2>5
<1>16. \A x \in Fd : item'[x] = item[x] \/ item'[x] = Nobody
  BY <1>10
<1>17. QED
  BY <1>9, <1>11, <1>12, <1>13, <1>14, <1>15, <1>16 DEF Held

-----------------------------------------------------------------------------
(* The state after start-up, which registers the listeners.                *)
LEMMA DescriptorInit == Init => DescriptorInv
<1> SUFFICES ASSUME Init PROVE DescriptorInv
  OBVIOUS
<1> DEFINE none == [fd \in Fd |-> Nobody]
           noop == [fd \in Fd |-> "noop"]
           s == [item |-> none, interest |-> noop, r |-> {}, w |-> {}, max |-> 0,
                 size |-> ensure_capacity(0, SelectorSize)]
           t == selector_register(s, Passive, Listener, "read")
<1>1. /\ item = t.item /\ interest = t.interest /\ master_r = t.r /\ master_w = t.w
      /\ max_fd = t.max /\ fd_size = t.size /\ watched = t.item
  BY DEF Init
<1>2. /\ Nobody # Listener /\ Nobody # LostStream /\ Listener # LostStream
      /\ Nobody \in Holder /\ Listener \in Holder
      /\ Listener.kind # "socket" /\ Nobody.kind # "socket"
  BY Holders
<1>3. /\ s \in SelectorRecord /\ Passive <= s.size /\ "read" \in Interest /\ s.size = ItemsMax + 1
      /\ s.item = none /\ s.interest = noop /\ s.r = {} /\ s.w = {} /\ s.max = 0
  <2>1. ensure_capacity(0, SelectorSize) = ItemsMax + 1 /\ ItemsMax + 1 \in Nat
    BY TableIsWhole, FdFacts
  <2>2. none \in [Fd -> Holder] /\ noop \in [Fd -> Interest] /\ 0 \in Fd
    BY <1>2, FdFacts DEF Interest
  <2> HIDE DEF none, noop
  <2>3. s \in SelectorRecord
    BY <2>1, <2>2 DEF SelectorRecord
  <2>4. QED
    BY <2>1, <2>3, FdFacts DEF Interest
<1> HIDE DEF s
<1>4. Registered(s, t, Passive, Listener, "read")
  BY <1>2, <1>3, FdFacts, RegisterFields
<1> HIDE DEF t
<1> USE DEF Registered
<1>5. /\ \A fd \in Fd : t.item[fd] = IF fd = Passive THEN Listener ELSE Nobody
      /\ \A fd \in Fd : t.interest[fd] = IF fd = Passive THEN "read" ELSE "noop"
      /\ t.r = {Passive} /\ t.w = {} /\ t.max = Passive /\ t.size = ItemsMax + 1
      /\ t.item \in [Fd -> Holder]
  <2>1. t.r = {Passive} /\ t.w = {} /\ t.max = Passive /\ t.size = ItemsMax + 1
    BY <1>3, <1>4 DEF Passive
  <2>2. t.item \in [Fd -> Holder]
    BY <1>4 DEF SelectorRecord
  <2>3. QED
    BY <1>3, <1>4, <2>1, <2>2
<1>6. Sound(t)
  <2>1. /\ t.r = {fd \in Fd : t.item[fd] # Nobody /\ t.interest[fd] = "read"}
        /\ t.w = {fd \in Fd : t.item[fd] # Nobody /\ t.interest[fd] = "write"}
    <3>1. \A fd \in Fd : fd = Passive => t.item[fd] # Nobody /\ t.interest[fd] = "read"
      BY <1>2, <1>5
    <3>2. \A fd \in Fd : fd # Passive => t.item[fd] = Nobody
      BY <1>5
    <3>3. t.r = {Passive} /\ t.w = {} /\ Passive \in Fd /\ "read" # "write"
      BY <1>5, FdFacts
    <3>4. QED
      BY <3>1, <3>2, <3>3
  <2>2. /\ t.item[t.max] # Nobody /\ t.item[Passive] = Listener
        /\ \A fd \in Fd : t.item[fd] # Nobody => fd <= t.max /\ fd < ItemsMax
    BY <1>2, <1>5, FdFacts
  <2>3. QED
    BY <1>4, <1>5, <2>1, <2>2 DEF Sound
<1>7. selector = t
  BY <1>1, <1>4 DEF selector, SelectorRecord
<1>8. Typed
  <2>1. open \in [Fd -> Holder] /\ watched \in [Fd -> Holder]
    BY <1>1, <1>2, <1>5 DEF Init
  <2>2. 1 \in 0 .. OpenMax
    BY LimitsAssumption
  <2>3. QED
    BY <2>1, <2>2, FdFacts DEF Init, Typed
<1>9. \A fd \in Fd : open[fd] = IF fd = Passive THEN Listener ELSE Nobody
  BY DEF Init
<1>10. Held
  <2>1. item = t.item /\ \A c \in Client : /\ client_fd[c] = 0 /\ filed_fd[c] = 0
                                            /\ ~busy[c] /\ ~finished_reading[c]
    BY <1>1 DEF Init
  <2>2. Passive \in Fd /\ 0 \in Fd /\ Passive # 0
    BY FdFacts
  <2>3. Listening
    BY <1>2, <1>9, <2>2 DEF Listening
  <2>4. HandlesAreHeld
    BY <2>1 DEF HandlesAreHeld
  <2>5. StreamsUnregistered /\ RegisteredIsHeld
    BY <1>2, <1>5, <1>9, <2>1 DEF StreamsUnregistered, RegisteredIsHeld, ITEM_USED
  <2>6. NoLeak
    BY <1>9 DEF NoLeak
  <2>7. QED
    BY <2>3, <2>4, <2>5, <2>6 DEF Held
<1>11. Fresh
  BY <1>1, <1>2, <1>5 DEF Init, Fresh
<1>12. QED
  BY <1>6, <1>7, <1>8, <1>10, <1>11 DEF DescriptorInv

(* Each handler, one by one.                                               *)
LEMMA DescriptorStep == DescriptorInv /\ [Next]_vars => DescriptorInv'
<1> SUFFICES ASSUME DescriptorInv, [Next]_vars PROVE DescriptorInv'
  OBVIOUS
<1>0. item \in [Fd -> Holder] /\ Sound(selector)
  BY SelectorFields DEF DescriptorInv
<1>1. ASSUME Sound(selector)', HandlerTyped', Held', iterating, MoveOn, item[cursor] # Nobody,
             \A fd \in Fd : \/ item'[fd] = item[fd]
                            \/ item'[fd].kind # "socket"
                            \/ fd \notin slave_r \cup slave_w
      PROVE  DescriptorInv'
  <2>1. item' \in [Fd -> Holder]
    BY <1>1 DEF selector, Sound, SelectorRecord
  <2>2. cursor # 0
    BY <1>1, Visited
  <2>3. /\ Fresh'
        /\ watched' \in [Fd -> Holder] /\ slave_r' \in SUBSET Fd /\ slave_w' \in SUBSET Fd
        /\ last' \in Fd /\ cursor' \in 0 .. OpenMax
    BY <1>1, <2>1, <2>2, FreshKept
  <2>4. QED
    BY <1>1, <2>3 DEF DescriptorInv, Typed, HandlerTyped
<1>2. CASE UNCHANGED vars
  BY <1>2 DEF vars, selectorVars, iterationVars, clientVars, DescriptorInv, selector, Typed,
             Held, Fresh, Listening, HandlesAreHeld, StreamsUnregistered, RegisteredIsHeld,
             ITEM_USED, NoLeak
<1>3. CASE selector_select
  <2>1. Sound(selector)' /\ item' = item /\ max_fd' = max_fd
    BY <1>0, <1>3 DEF selector_select, selectorVars, selector
  <2>2. HandlerTyped' /\ Held'
    BY <1>3, <2>1, SomeClientStays DEF selector_select
  <2>3. Fresh'
    <3>1. \A fd \in slave_r' \cup slave_w' : item[fd] # Nobody
      BY <1>3, SelectorFields DEF selector_select, Polled, DescriptorInv
    <3>2. QED
      BY <1>3, <2>1, <3>1 DEF selector_select, Fresh
  <2>4. /\ watched' \in [Fd -> Holder] /\ slave_r' \in SUBSET Fd /\ slave_w' \in SUBSET Fd
        /\ last' \in Fd /\ cursor' \in 0 .. OpenMax
    BY <1>0, <1>3, SelectorFields, FdFacts DEF selector_select, Polled, DescriptorInv
  <2>5. QED
    BY <2>1, <2>2, <2>3, <2>4 DEF DescriptorInv, Typed, HandlerTyped
<1>4. CASE Skip
  <2>1. Sound(selector)' /\ item' = item
    BY <1>0, <1>4 DEF Skip, selectorVars, selector
  <2>2. HandlerTyped' /\ Held'
    BY <1>4, <2>1, SomeClientStays DEF Skip
  <2>3. /\ Fresh'
        /\ watched' \in [Fd -> Holder] /\ slave_r' \in SUBSET Fd /\ slave_w' \in SUBSET Fd
        /\ last' \in Fd /\ cursor' \in 0 .. OpenMax
    BY <1>0, <1>4, <2>1, FreshKept DEF Skip
  <2>4. QED
    BY <2>1, <2>2, <2>3 DEF DescriptorInv, Typed, HandlerTyped
<1>5. CASE AcceptFails
  <2>1. Sound(selector)' /\ item' = item
    BY <1>0, <1>5 DEF AcceptFails, selectorVars, selector
  <2>2. HandlerTyped' /\ Held'
    BY <1>5, <2>1, SomeClientStays DEF AcceptFails
  <2>3. iterating /\ item[cursor] # Nobody /\ MoveOn
    BY <1>5, Holders DEF AcceptFails, Visit, Listener
  <2>4. QED
    BY <1>1, <2>1, <2>2, <2>3
<1>6. ASSUME NEW c \in Client, Accept(c) PROVE DescriptorInv'
  <2>1. iterating /\ item[cursor] # Nobody /\ MoveOn /\ cursor = Passive
    BY <1>6, Holders, VisitedListener DEF Accept, Visit, Listener
  <2>2. CASE can_register(selector, lowest_fd)
    <3>1. /\ Sound(selector)' /\ HandlerTyped' /\ Held'
          /\ item' = [item EXCEPT ![lowest_fd] = Socket(c)]
          /\ item[lowest_fd] = Nobody
      BY <1>6, <2>2, AcceptHolds
    <3>2. lowest_fd \notin slave_r \cup slave_w
      BY <2>1, <3>1, FdFacts DEF DescriptorInv, Fresh, Passive
    <3>3. \A fd \in Fd : item'[fd] = item[fd] \/ fd \notin slave_r \cup slave_w
      BY <1>0, <3>1, <3>2
    <3>4. QED
      BY <1>1, <2>1, <3>1, <3>3
  <2>3. CASE ~can_register(selector, lowest_fd)
    <3>1. UNCHANGED <<open, selectorVars, clientVars>>
      BY <1>6, <2>3 DEF Accept, clientVars
    <3>2. Sound(selector)' /\ item' = item
      BY <1>0, <3>1 DEF selectorVars, selector
    <3>3. HandlerTyped' /\ Held'
      BY <3>1, <3>2, SomeClientStays
    <3>4. QED
      BY <1>1, <2>1, <3>2, <3>3
  <2>4. QED
    BY <2>2, <2>3
<1>7. ASSUME NEW c \in Client, SocketReads(c) \/ SocketWrites(c)
      PROVE  iterating /\ item[cursor] # Nobody
  BY <1>7, VisitedSocket, Holders
<1>8. ASSUME NEW c \in Client, pop3_close_handler(c) PROVE DescriptorInv'
  <2>1. /\ Sound(selector)' /\ HandlerTyped' /\ Held'
        /\ \A x \in Fd : item'[x] = item[x] \/ item'[x] = Nobody
    BY <1>8, CloseHolds
  <2>2. \A x \in Fd : item'[x] = item[x] \/ item'[x].kind # "socket"
    BY <2>1, Holders
  <2>3. MoveOn /\ iterating /\ item[cursor] # Nobody
    BY <1>7, <1>8 DEF pop3_close_handler
  <2>4. QED
    BY <1>1, <2>1, <2>2, <2>3
<1>9. ASSUME NEW c \in Client, NEW i \in {"read", "write"}, Answer(c, i) PROVE DescriptorInv'
  <2>1. MoveOn /\ iterating /\ item[cursor] # Nobody
    BY <1>7, <1>9 DEF Answer
  <2>2. QED
    BY <1>1, <1>9, <2>1, AnswerHolds
<1>10. ASSUME NEW c \in Client, initialize_mails(c) PROVE DescriptorInv'
  <2>1. MoveOn /\ iterating /\ item[cursor] # Nobody
    BY <1>7, <1>10 DEF initialize_mails
  <2>2. QED
    BY <1>1, <1>10, <2>1, StreamHolds
<1>11. ASSUME NEW c \in Client, setup_mail_retrieval(c) PROVE DescriptorInv'
  <2>1. MoveOn /\ iterating /\ item[cursor] # Nobody
    BY <1>7, <1>11 DEF setup_mail_retrieval
  <2>2. /\ Sound(selector)' /\ HandlerTyped' /\ Held'
        /\ item' = item \/ item' = [item EXCEPT ![lowest_fd] = File(c)]
    BY <1>11, SetupHolds
  <2>3. File(c).kind # "socket"
    BY DEF File
  <2>4. \A fd \in Fd : item'[fd] = item[fd] \/ item'[fd].kind # "socket"
    BY <1>0, <2>2, <2>3
  <2>5. QED
    BY <1>1, <2>1, <2>2, <2>4
<1>12. ASSUME NEW c \in Client, retrieve_mail(c) PROVE DescriptorInv'
  <2>1. MoveOn /\ iterating /\ item[cursor] # Nobody
    BY <1>7, <1>12 DEF retrieve_mail
  <2>2. QED
    BY <1>1, <1>12, <2>1, RetrieveHolds
<1>13. ASSUME NEW c \in Client, finish_mail_retrieval(c) PROVE DescriptorInv'
  <2>1. MoveOn /\ iterating /\ item[cursor] # Nobody
    BY <1>7, <1>13 DEF finish_mail_retrieval
  <2>2. QED
    BY <1>1, <1>13, <2>1, FinishHolds
<1>14. ASSUME NEW c \in Client, mail_read_handler(c) PROVE DescriptorInv'
  <2>1. MoveOn /\ iterating /\ item[cursor] # Nobody
    BY <1>14, VisitedFile, Holders DEF mail_read_handler
  <2>2. /\ Sound(selector)' /\ HandlerTyped' /\ Held'
        /\ item' = item \/ item' = [item EXCEPT ![cursor] = Nobody]
    BY <1>14, ReadHolds
  <2>3. \A fd \in Fd : item'[fd] = item[fd] \/ item'[fd].kind # "socket"
    BY <1>0, <2>2, Holders
  <2>4. QED
    BY <1>1, <2>1, <2>2, <2>3
<1>15. QED
  BY <1>2, <1>3, <1>4, <1>5, <1>6, <1>8, <1>9, <1>10, <1>11, <1>12, <1>13, <1>14
     DEF Next, Handler

(* The selector and the owners of the descriptors, after any sequence of   *)
(* handlers.                                                               *)
THEOREM DescriptorsHold == Spec => []DescriptorInv
<1>1. Init => DescriptorInv
  BY DescriptorInit
<1>2. DescriptorInv /\ [Next]_vars => DescriptorInv'
  BY DescriptorStep
<1>3. QED
  BY <1>1, <1>2, PTL DEF Spec

(* What the invariant says of the selector's own state.                    *)
LEMMA SetsAgree == DescriptorInv => TypeOK /\ SetsMatchItems
<1> SUFFICES ASSUME DescriptorInv PROVE TypeOK /\ SetsMatchItems
  OBVIOUS
<1>1. /\ item \in [Fd -> Holder] /\ interest \in [Fd -> Interest]
      /\ master_r = {fd \in Fd : item[fd] # Nobody /\ interest[fd] = "read"}
      /\ master_w = {fd \in Fd : item[fd] # Nobody /\ interest[fd] = "write"}
      /\ max_fd \in Fd /\ item[max_fd] # Nobody
      /\ \A fd \in Fd : item[fd] # Nobody => fd <= max_fd /\ fd < ItemsMax
      /\ fd_size = ItemsMax + 1
  BY SelectorFields DEF DescriptorInv
<1>2. TypeOK
  <2>1. /\ fd_size \in Nat /\ max_fd < fd_size /\ max_fd \in 0 .. ItemsMax - 1
    BY <1>1, FdFacts
  <2>2. {master_r, master_w, slave_r, slave_w} \subseteq SUBSET Fd
    BY <1>1 DEF DescriptorInv, Typed
  <2>3. QED
    BY <1>1, <2>1, <2>2 DEF TypeOK, DescriptorInv, Typed, Interest
<1>3. max_fd = Max({fd \in Fd : ITEM_USED(fd)})
  <2> DEFINE used == {fd \in Fd : ITEM_USED(fd)}
  <2>1. max_fd \in used /\ \A fd \in used : fd <= max_fd
    BY <1>1 DEF ITEM_USED
  <2>2. used \in SUBSET Nat /\ max_fd \in Nat
    BY <1>1, FdFacts
  <2> HIDE DEF used
  <2>3. Max(used) \in used /\ \A fd \in used : Max(used) >= fd
    BY <2>1, <2>2, MaxIsGreatest
  <2>4. max_fd = Max(used)
    <3>1. Max(used) \in Nat /\ Max(used) <= max_fd /\ Max(used) >= max_fd
      BY <2>1, <2>2, <2>3
    <3>2. QED
      BY <2>2, <3>1
  <2>5. QED
    BY <2>4 DEF used
<1>4. QED
  BY <1>1, <1>2, <1>3 DEF SetsMatchItems, ITEM_USED

(* Types, and max_fd within the table and what select() can watch          *)
(* (selector.c:326-369), however many descriptors the process may have.    *)
THEOREM SelectorTypes == Spec => []TypeOK
BY DescriptorsHold, SetsAgree, PTL

(* What pselect is asked agrees with the items (selector.c:205-233) after  *)
(* any sequence of registrations, also when handlers make them while the   *)
(* selector iterates.                                                      *)
THEOREM SetsAlwaysMatchItems == Spec => []SetsMatchItems
BY DescriptorsHold, SetsAgree, PTL

(* No descriptor is registered that was closed or changed hands            *)
(* (selector.c:548-559), so pselect never fails with EBADF and ends the    *)
(* server.                                                                 *)
THEOREM RegisteredStaysHeld == Spec => []RegisteredIsHeld
<1>1. DescriptorInv => RegisteredIsHeld
  BY DEF DescriptorInv, Held
<1>2. QED
  BY <1>1, DescriptorsHold, PTL

(* A connection never gets the readiness of an earlier one that had its    *)
(* number (selector.c:443-477): the listeners are visited before any       *)
(* descriptor is closed.                                                   *)
THEOREM ReadinessIsFresh == Spec => []NoStaleReadiness
<1>1. DescriptorInv => NoStaleReadiness
  BY DEF DescriptorInv, Fresh, NoStaleReadiness, Reads, Writes
<1>2. QED
  BY <1>1, DescriptorsHold, PTL

(* No descriptor is lost but the directory stream of a PASS whose stat()   *)
(* failed (mail.c:221-224).                                                *)
THEOREM NothingLeaks == Spec => []NoLeak
<1>1. DescriptorInv => NoLeak
  BY DEF DescriptorInv, Held
<1>2. QED
  BY <1>1, DescriptorsHold, PTL

(* A RETR in course has its file open (mail.c:532).                        *)
THEOREM RetrievalsHaveFiles == Spec => []RetrievalHasFile
<1>1. DescriptorInv => RetrievalHasFile
  BY DEF DescriptorInv, Held, HandlesAreHeld, RetrievalHasFile
<1>2. QED
  BY <1>1, DescriptorsHold, PTL
=============================================================================
