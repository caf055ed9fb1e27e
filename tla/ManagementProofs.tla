-------------------------- MODULE ManagementProofs --------------------------
(***************************************************************************)
(* Theorems about Management, for every command line, every datagram that  *)
(* others send, every sequence of requests and every MAX_USERS.            *)
(***************************************************************************)
EXTENDS Management, Induction, SequenceTheorems

-----------------------------------------------------------------------------
(* The list of users. *)

(* What a list of users always is, whatever its names are.                 *)
Distinct(us) ==
  /\ us \in Seq(Range(us))
  /\ Len(us) <= MaxUsers
  /\ \A i, j \in 1 .. Len(us) : us[i] = us[j] => i = j

(* add_user never breaks it: it looks the name up, and counts.             *)
LEMMA AddKeepsDistinct ==
  ASSUME NEW us, NEW s, Distinct(us)
  PROVE  Distinct(add_user(us, s))
<1> DEFINE x == name_of(s)
           V == Range(us) \cup {x}
           vs == Append(us, x)
<1>1. CASE ~can_add(us, s)
  BY <1>1 DEF add_user
<1>2. CASE can_add(us, s)
  <2>1. x \notin Range(us) /\ Len(us) < MaxUsers
    BY <1>2 DEF can_add
  <2>2. us \in Seq(V) /\ x \in V
    BY DEF Distinct
  <2> HIDE DEF x
  <2>3. /\ vs \in Seq(V) /\ Len(vs) = Len(us) + 1 /\ Len(us) \in Nat
        /\ \A i \in 1 .. Len(us) : vs[i] = us[i]
        /\ vs[Len(us) + 1] = x
    BY <2>2
  <2> HIDE DEF V, vs
  <2>4. \A i \in 1 .. Len(us) : us[i] \in Range(us)
    BY <2>2 DEF Range
  <2>5. vs \in Seq(Range(vs))
    BY <2>3 DEF Range
  <2>6. Len(vs) <= MaxUsers
    BY <2>1, <2>3, MaxUsersAssumption
  <2>7. ASSUME NEW i \in 1 .. Len(vs), NEW j \in 1 .. Len(vs), vs[i] = vs[j] PROVE i = j
    <3>1. CASE i \in 1 .. Len(us) /\ j \in 1 .. Len(us)
      BY <2>3, <2>7, <3>1 DEF Distinct
    <3>2. CASE i \in 1 .. Len(us) /\ j = Len(us) + 1
      BY <2>1, <2>3, <2>4, <2>7, <3>2
    <3>3. CASE i = Len(us) + 1 /\ j \in 1 .. Len(us)
      BY <2>1, <2>3, <2>4, <2>7, <3>3
    <3>4. CASE i = Len(us) + 1 /\ j = Len(us) + 1
      BY <3>4
    <3>5. QED
      BY <2>3, <3>1, <3>2, <3>3, <3>4
  <2>8. Distinct(vs)
    BY <2>5, <2>6, <2>7 DEF Distinct
  <2>9. QED
    BY <1>2, <2>8 DEF add_user, vs, x
<1>3. QED
  BY <1>1, <1>2

LEMMA NoUsersDistinct == Distinct(<<>>)
BY MaxUsersAssumption DEF Distinct

(* The fold of parse_args, step by step.                                   *)
AddStep(options, g, T) ==
  IF T = {} THEN <<>> ELSE add_user(g[T \ {Max(T)}], options[Max(T)])

Added(options) == CHOOSE g : g = [T \in SUBSET DOMAIN options |-> AddStep(options, g, T)]

LEMMA ParseArgsIsFold ==
  ASSUME NEW options PROVE parse_args(options) = Added(options)[DOMAIN options]
BY DEF parse_args, FoldLeft, MapThenFoldSet, Added, AddStep

(* Whatever is on the command line, the list it makes is in order.         *)
LEMMA ParsedDistinct ==
  ASSUME NEW S, NEW options \in Seq(S)
  PROVE  Distinct(parse_args(options))
<1> DEFINE D == DOMAIN options
           V == {us \in Seq({name_of(options[i]) : i \in D}) : Distinct(us)}
           pick == [T \in SUBSET D |-> Max(T)]
           step == [i \in D |-> [us \in V |-> add_user(us, options[i])]]
<1>1. IsFiniteSet(D)
  <2>1. D = 1 .. Len(options) /\ Len(options) \in Nat
    OBVIOUS
  <2>2. QED
    BY <2>1, FS_Interval
<1>2. \A T \in SUBSET D : T # {} => Max(T) \in T
  <2> SUFFICES ASSUME NEW T \in SUBSET D, T # {} PROVE Max(T) \in T
    OBVIOUS
  <2>1. T \in SUBSET Nat /\ Len(options) \in Nat /\ \A x \in T : x <= Len(options)
    OBVIOUS
  <2>2. \E m \in T : \A x \in T : m >= x
    BY <2>1, GreatestExists
  <2>3. QED
    BY <2>2 DEF Max
<1>3. <<>> \in V
  BY NoUsersDistinct
<1>4. ASSUME NEW i \in D, NEW us \in V PROVE add_user(us, options[i]) \in V
  <2> DEFINE N == {name_of(options[j]) : j \in D}
  <2>1. name_of(options[i]) \in N /\ us \in Seq(N) /\ Distinct(us)
    OBVIOUS
  <2>2. add_user(us, options[i]) \in Seq(N)
    <3> HIDE DEF N
    <3>1. QED
      BY <2>1 DEF add_user
  <2>3. QED
    BY <2>1, <2>2, AddKeepsDistinct
<1> HIDE DEF V
<1>5. PICK g : IsFold(g, D, <<>>, pick, step)
  <2>1. \A T \in SUBSET D : T # {} => pick[T] \in T
    BY <1>2
  <2> HIDE DEF D, pick, step
  <2>2. QED
    BY <1>1, <2>1, SubsetRecursion
<1>6. \A T \in SUBSET D : g[T] = IF T = {} THEN <<>> ELSE step[pick[T]][g[T \ {pick[T]}]]
  <2> HIDE DEF D, pick, step
  <2>1. QED
    BY <1>5 DEF IsFold
<1>7. \A T \in SUBSET D : g[T] \in V
  <2> SUFFICES ASSUME NEW U \in SUBSET D PROVE g[U] \in V
    OBVIOUS
  <2> DEFINE G == {T \in SUBSET U : g[T] \in V}
  <2>1. ASSUME NEW T \in SUBSET U, \A x \in T : T \ {x} \in G PROVE T \in G
    <3>1. CASE T = {}
      BY <1>3, <1>6, <3>1
    <3>2. CASE T # {}
      <4>1. Max(T) \in T /\ g[T \ {Max(T)}] \in V
        BY <1>2, <2>1, <3>2
      <4>2. g[T] = add_user(g[T \ {Max(T)}], options[Max(T)])
        BY <1>6, <3>2, <4>1
      <4>3. QED
        BY <1>4, <4>1, <4>2
    <3>3. QED
      BY <3>1, <3>2
  <2>2. U \in G
    <3>1. IsFiniteSet(U)
      BY <1>1, FS_Subset
    <3> HIDE DEF G
    <3>2. QED
      BY <2>1, <3>1, SubsetInduction
  <2>3. QED
    BY <2>2
<1>8. \A T \in SUBSET D : g[T] = AddStep(options, g, T)
  <2> SUFFICES ASSUME NEW T \in SUBSET D PROVE g[T] = AddStep(options, g, T)
    OBVIOUS
  <2>1. CASE T = {}
    BY <1>6, <2>1 DEF AddStep
  <2>2. CASE T # {}
    <3>1. Max(T) \in D /\ T \ {Max(T)} \in SUBSET D
      BY <1>2, <2>2
    <3>2. g[T \ {Max(T)}] \in V
      BY <1>7, <3>1
    <3>3. g[T] = add_user(g[T \ {Max(T)}], options[Max(T)])
      BY <1>6, <2>2, <3>1, <3>2
    <3>4. QED
      BY <2>2, <3>3 DEF AddStep
  <2>3. QED
    BY <2>1, <2>2
<1>9. g = [T \in SUBSET D |-> AddStep(options, g, T)]
  <2> HIDE DEF D, pick, step
  <2>1. g = [T \in SUBSET D |-> g[T]]
    BY <1>5 DEF IsFold
  <2>2. QED
    BY <1>8, <2>1
<1> DEFINE F == Added(options)
<1>10. F = [T \in SUBSET D |-> AddStep(options, F, T)]
  BY <1>9 DEF Added
<1>11. F[D] \in V
  <2> DEFINE G == {T \in SUBSET D : F[T] \in V}
  <2> HIDE DEF F
  <2>1. \A T \in SUBSET D : F[T] = AddStep(options, F, T)
    BY <1>10
  <2>2. ASSUME NEW T \in SUBSET D, \A x \in T : T \ {x} \in G PROVE T \in G
    <3>1. CASE T = {}
      BY <1>3, <2>1, <3>1 DEF AddStep
    <3>2. CASE T # {}
      <4>1. Max(T) \in T /\ F[T \ {Max(T)}] \in V
        BY <1>2, <2>2, <3>2
      <4>2. F[T] = add_user(F[T \ {Max(T)}], options[Max(T)])
        BY <2>1, <3>2 DEF AddStep
      <4>3. QED
        BY <1>4, <4>1, <4>2
    <3>3. QED
      BY <3>1, <3>2
  <2>3. D \in G
    <3> HIDE DEF G, D
    <3>1. QED
      BY <1>1, <2>2, SubsetInduction
  <2>4. QED
    BY <2>3
<1>12. QED
  BY <1>11, ParseArgsIsFold DEF V

UsersInv == Distinct(users)

(* What a datagram can do to the list.                                     *)
LEMMA AddUserEffect ==
  ASSUME NEW r, mng_add_user(r)
  PROVE  /\ \/ users' = users
            \/ users' = add_user(users, r.data)
         /\ users' # users =>
              /\ r.version = MNG_V1 /\ r.auth_token = AuthToken /\ r.op_code = MNG_ADD_USER
              /\ users' = Append(users, name_of(r.data))
BY DEF mng_add_user, Known, status_of, add_user, MNG_SUCCESS, MNG_INVALID_ARGS,
       MNG_INVALID_VERSION, MNG_INVALID_TOKEN, MNG_INVALID_OP_CODE

(* Only the handler of the server touches the list.                        *)
LEMMA WhoAdds ==
  ASSUME Next
  PROVE  \/ users' = users
         \/ \E bytes \in requests \cup Strange :
              mng_add_user(mng_buffer_to_request(received(bytes)))
<1>1. ASSUME NEW op \in Asked, SendRequest(op) PROVE users' = users
  BY <1>1 DEF SendRequest, Ask
<1>2. ASSUME NEW line \in Lines, SendAddUser(line) PROVE users' = users
  BY <1>2 DEF SendAddUser, Ask
<1>3. ASSUME NEW bytes \in requests, Serve(bytes)
      PROVE  mng_add_user(mng_buffer_to_request(received(bytes)))
  BY <1>3 DEF Serve, mng_passive_handler
<1>4. ASSUME NEW bytes \in Strange, ServeStranger(bytes)
      PROVE  mng_add_user(mng_buffer_to_request(received(bytes)))
  BY <1>4 DEF ServeStranger, mng_passive_handler
<1>5. ASSUME NEW a \in responses, ReceiveResponse(a) PROVE users' = users
  BY <1>5 DEF ReceiveResponse
<1>6. ASSUME NEW op, NEW value, MetricsChange(op, value) PROVE users' = users
  BY <1>6 DEF MetricsChange
<1>7. CASE Lose
  BY <1>7 DEF Lose
<1>8. QED
  BY <1>1, <1>2, <1>3, <1>4, <1>5, <1>6, <1>7 DEF Next

LEMMA UsersInit == Init => UsersInv
<1> SUFFICES ASSUME Init PROVE UsersInv
  OBVIOUS
<1>1. PICK options \in Options : users = parse_args(options)
  BY DEF Init
<1>2. options \in Seq(Seq(Nat))
  BY ManagementAssumption
<1>3. QED
  BY <1>1, <1>2, ParsedDistinct DEF UsersInv

LEMMA UsersStep == UsersInv /\ [Next]_vars => UsersInv'
<1> SUFFICES ASSUME UsersInv, [Next]_vars PROVE UsersInv'
  OBVIOUS
<1>1. CASE users' = users
  BY <1>1 DEF UsersInv, Distinct
<1>2. ASSUME NEW r, mng_add_user(r) PROVE UsersInv'
  <2>1. CASE users' = add_user(users, r.data)
    <3>1. Distinct(add_user(users, r.data))
      BY AddKeepsDistinct DEF UsersInv
    <3>2. QED
      BY <2>1, <3>1 DEF UsersInv, Distinct
  <2>2. QED
    BY <1>1, <1>2, <2>1, AddUserEffect
<1>3. CASE UNCHANGED vars
  BY <1>1, <1>3 DEF vars
<1>4. QED
  BY <1>1, <1>2, <1>3, WhoAdds

(* Whatever the options, the datagrams and the order they come in, the     *)
(* accounts fit in server_state.users and no two have the same name        *)
(* (users.c:22-42, args.c:74-81).                                          *)
THEOREM UsersStayDistinct == Spec => []UsersAreDistinct
<1>1. UsersInv => UsersAreDistinct
  BY DEF UsersInv, Distinct, UsersAreDistinct
<1>2. QED
  BY <1>1, UsersInit, UsersStep, PTL DEF Spec

(* No account is made, and none is lost, but by a datagram that carries    *)
(* the token (management.c:92-105).                                        *)
THEOREM TokenAdds == Spec => OnlyTokenAdds
<1>1. [Next]_vars => [AddsByToken]_users
  <2> SUFFICES ASSUME Next PROVE users' = users \/ AddsByToken
    BY DEF vars
  <2>1. ASSUME NEW bytes \in requests \cup Strange,
               mng_add_user(mng_buffer_to_request(received(bytes)))
        PROVE  AddsByToken
    <3> DEFINE r == mng_buffer_to_request(received(bytes))
    <3> HIDE DEF r
    <3>1. mng_add_user(r)
      BY <2>1 DEF r
    <3>2. users' # users =>
            /\ r.version = MNG_V1 /\ r.auth_token = AuthToken /\ r.op_code = MNG_ADD_USER
            /\ users' = Append(users, name_of(r.data))
      BY <3>1, AddUserEffect
    <3>3. QED
      BY <3>2 DEF AddsByToken, r
  <2>2. QED
    BY <2>1, WhoAdds
<1>2. QED
  BY <1>1, PTL DEF Spec, OnlyTokenAdds

-----------------------------------------------------------------------------
(* Numbers in bytes. *)

(* A function on 1 .. n is a sequence of length n.                         *)
LEMMA LenOfFunction ==
  ASSUME NEW n \in Nat, NEW d, d = [i \in 1 .. n |-> d[i]]
  PROVE  Len(d) = n /\ d \in Seq({d[i] : i \in 1 .. n})
<1> DEFINE S == {d[i] : i \in 1 .. n}
<1>1. d \in [1 .. n -> S]
  OBVIOUS
<1> HIDE DEF S
<1>2. d \in Seq(S) /\ DOMAIN d = 1 .. n
  BY <1>1
<1>3. QED
  BY <1>2 DEF S

(* Two bytes hold what is below 2 ^ 16,                                    *)
LEMMA TwoBytes ==
  ASSUME NEW n \in Nat, n < 65536
  PROVE  LowByte(n) + 256 * LowByte(n \div 256) = n
<1> DEFINE q == n \div 256
<1>1. q \in Nat /\ q < 256
  OBVIOUS
<1>2. n = (256 * q) + (n % 256)
  OBVIOUS
<1>3. n % 256 \in Nat
  OBVIOUS
<1> HIDE DEF q
<1>4. q % 256 = q
  BY <1>1
<1>5. QED
  BY <1>1, <1>2, <1>3, <1>4 DEF LowByte, q

LEMMA Concatenation ==
  ASSUME NEW a, NEW b, NEW c, NEW d
  PROVE  <<a, b>> \o <<c, d>> = <<a, b, c, d>>
<1> DEFINE S == {a, b, c, d}
           p == <<a, b>>
           q == <<c, d>>
           s == p \o q
           t == <<a, b, c, d>>
<1>1. p \in Seq(S) /\ q \in Seq(S) /\ Len(p) = 2 /\ Len(q) = 2
  OBVIOUS
<1>2. t \in Seq(S) /\ Len(t) = 4
  OBVIOUS
<1>3. p[1] = a /\ p[2] = b /\ q[1] = c /\ q[2] = d /\ t[1] = a /\ t[2] = b /\ t[3] = c /\ t[4] = d
  OBVIOUS
<1> HIDE DEF S, p, q, t
<1>4. /\ s \in Seq(S) /\ Len(s) = 4
      /\ \A i \in 1 .. 4 : s[i] = IF i <= 2 THEN p[i] ELSE q[i - 2]
  BY <1>1, ConcatProperties
<1> HIDE DEF s
<1>5. s[1] = p[1] /\ s[2] = p[2] /\ s[3] = q[1] /\ s[4] = q[2]
  BY <1>4
<1>6. \A i \in 1 .. 4 : s[i] = t[i]
  BY <1>3, <1>5
<1>7. s = t
  BY <1>2, <1>4, <1>6, SeqEqual
<1>8. QED
  BY <1>7 DEF s, p, q, t

(* and four what is below 2 ^ 32.                                          *)
LEMMA FourBytes ==
  ASSUME NEW n \in Nat, n < 65536 * 65536
  PROVE  GET_UINT32(Bytes32(n), 0) = n
<1> DEFINE lo == n % 65536
           hi == n \div 65536
<1>1. lo \in Nat /\ lo < 65536
  OBVIOUS
<1>2. hi \in Nat
  OBVIOUS
<1>3. n = (65536 * hi) + lo
  OBVIOUS
<1>4. Bytes32(n) = <<LowByte(lo), LowByte(lo \div 256), LowByte(hi), LowByte(hi \div 256)>>
  BY Concatenation DEF Bytes32, Bytes16
<1> HIDE DEF lo, hi
<1>5. hi < 65536
  BY <1>1, <1>2, <1>3
<1>6. /\ LowByte(lo) + 256 * LowByte(lo \div 256) = lo
      /\ LowByte(hi) + 256 * LowByte(hi \div 256) = hi
  BY <1>1, <1>2, <1>5, TwoBytes
<1>7. GET_UINT32(Bytes32(n), 0)
        = (LowByte(lo) + 256 * LowByte(lo \div 256))
          + 65536 * (LowByte(hi) + 256 * LowByte(hi \div 256))
  BY <1>4 DEF GET_UINT32, GET_UINT16
<1>8. GET_UINT32(Bytes32(n), 0) = lo + 65536 * hi
  BY <1>6, <1>7
<1>9. QED
  BY <1>1, <1>2, <1>3, <1>8

-----------------------------------------------------------------------------
(* What is written into a datagram is read out of it.                      *)

LEMMA Sizes ==
  /\ MaxDataLen \in Nat /\ BufferSize \in Nat
  /\ MaxDataLen < 65536
  /\ 9 + MaxDataLen <= BufferSize
BY M3Assumption

LEMMA ReceivedWhole ==
  ASSUME NEW d, NEW n \in Nat, d = [i \in 1 .. n |-> d[i]], n <= BufferSize, NEW k \in 1 .. n
  PROVE  received(d)[k] = d[k]
<1>1. Len(d) = n
  BY LenOfFunction
<1>2. k \in 1 .. BufferSize /\ k <= Len(d)
  BY <1>1, Sizes
<1>3. QED
  BY <1>2 DEF received

(* The fields of an answer of the server.                                  *)
IsResponse(q) ==
  /\ q.length \in 0 .. MaxDataLen
  /\ q.data = [i \in 1 .. q.length |-> q.data[i]]

LEMMA ResponseRoundTrip ==
  ASSUME NEW q, IsResponse(q)
  PROVE  LET got == mng_buffer_to_response(received(mng_response_to_buffer(q))) IN
           /\ got.status = q.status /\ got.op_code = q.op_code
           /\ got.data = q.data
<1> DEFINE d == mng_response_to_buffer(q)
           b == received(d)
           n == 6 + q.length
<1>1. /\ q.length \in Nat /\ n \in Nat /\ n <= BufferSize
      /\ q.length < 65536 /\ q.length <= MaxDataLen
  BY Sizes DEF IsResponse
<1>2. /\ d = [i \in 1 .. n |-> d[i]]
      /\ d[2] = q.status /\ d[3] = q.op_code
      /\ d[5] = Bytes16(q.length)[1] /\ d[6] = Bytes16(q.length)[2]
  BY <1>1 DEF mng_response_to_buffer
<1>3. \A i \in 1 .. q.length : d[i + 6] = q.data[i]
  <2> SUFFICES ASSUME NEW i \in 1 .. q.length PROVE d[i + 6] = q.data[i]
    OBVIOUS
  <2>1. i + 6 \in 1 .. n /\ i + 6 > 6 /\ (i + 6) - 6 = i
    BY <1>1
  <2>2. QED
    BY <1>1, <2>1 DEF mng_response_to_buffer
<1> HIDE DEF d
<1>4. \A k \in 1 .. n : b[k] = d[k]
  BY SMTT(30), <1>1, <1>2, ReceivedWhole
<1> HIDE DEF b
<1>a. 2 \in 1 .. n /\ 3 \in 1 .. n /\ 5 \in 1 .. n /\ 6 \in 1 .. n
  BY <1>1
<1> HIDE DEF n
<1>5. b[2] = q.status /\ b[3] = q.op_code
  BY <1>2, <1>4, <1>a
<1>6. b[5] = LowByte(q.length) /\ b[6] = LowByte(q.length \div 256)
  BY <1>2, <1>4, <1>a DEF Bytes16
<1>7. \A i \in 1 .. q.length : b[i + 6] = q.data[i]
  <2> SUFFICES ASSUME NEW i \in 1 .. q.length PROVE b[i + 6] = q.data[i]
    OBVIOUS
  <2>1. i + 6 \in 1 .. n
    BY <1>1 DEF n
  <2>2. QED
    BY <1>3, <1>4, <2>1
<1>8. GET_UINT16(b, 4) = q.length
  BY <1>1, <1>6, TwoBytes DEF GET_UINT16
<1>9. clamped(GET_UINT16(b, 4)) = q.length
  BY <1>1, <1>8, Sizes DEF clamped
<1>10. /\ mng_buffer_to_response(b).status = b[2]
       /\ mng_buffer_to_response(b).op_code = b[3]
       /\ mng_buffer_to_response(b).data = [i \in 1 .. q.length |-> b[i + 6]]
  BY <1>9 DEF mng_buffer_to_response
<1>11. [i \in 1 .. q.length |-> b[i + 6]] = q.data
  BY <1>7 DEF IsResponse
<1>12. QED
  BY <1>5, <1>10, <1>11 DEF b, d

(* The fields of a request of the client.                                  *)
IsRequest(r) ==
  /\ r.length \in 0 .. MaxDataLen
  /\ r.data = [i \in 1 .. r.length |-> r.data[i]]

LEMMA RequestRoundTrip ==
  ASSUME NEW q, IsRequest(q)
  PROVE  LET got == mng_buffer_to_request(received(mng_request_to_buffer(q))) IN
           /\ got.op_code = q.op_code
           /\ got.data = q.data
<1> DEFINE d == mng_request_to_buffer(q)
           b == received(d)
           n == 9 + q.length
<1>1. /\ q.length \in Nat /\ n \in Nat /\ n <= BufferSize
      /\ q.length < 65536 /\ q.length <= MaxDataLen
  BY Sizes DEF IsRequest
<1>2. /\ d = [i \in 1 .. n |-> d[i]]
      /\ d[6] = q.op_code
      /\ d[8] = Bytes16(q.length)[1] /\ d[9] = Bytes16(q.length)[2]
  BY <1>1 DEF mng_request_to_buffer
<1>3. \A i \in 1 .. q.length : d[i + 9] = q.data[i]
  <2> SUFFICES ASSUME NEW i \in 1 .. q.length PROVE d[i + 9] = q.data[i]
    OBVIOUS
  <2>1. i + 9 \in 1 .. n /\ i + 9 > 9 /\ (i + 9) - 9 = i
    BY <1>1
  <2>2. QED
    BY <1>1, <2>1 DEF mng_request_to_buffer
<1> HIDE DEF d
<1>4. \A k \in 1 .. n : b[k] = d[k]
  BY <1>1, <1>2, ReceivedWhole
<1> HIDE DEF b
<1>a. 6 \in 1 .. n /\ 8 \in 1 .. n /\ 9 \in 1 .. n
  BY <1>1
<1> HIDE DEF n
<1>5. b[6] = q.op_code
  BY <1>2, <1>4, <1>a
<1>6. b[8] = LowByte(q.length) /\ b[9] = LowByte(q.length \div 256)
  BY <1>2, <1>4, <1>a DEF Bytes16
<1>7. \A i \in 1 .. q.length : b[i + 9] = q.data[i]
  <2> SUFFICES ASSUME NEW i \in 1 .. q.length PROVE b[i + 9] = q.data[i]
    OBVIOUS
  <2>1. i + 9 \in 1 .. n
    BY <1>1 DEF n
  <2>2. QED
    BY <1>3, <1>4, <2>1
<1>8. GET_UINT16(b, 7) = q.length
  BY <1>1, <1>6, TwoBytes DEF GET_UINT16
<1>9. clamped(GET_UINT16(b, 7)) = q.length
  BY <1>1, <1>8, Sizes DEF clamped
<1>10. /\ mng_buffer_to_request(b).op_code = b[6]
       /\ mng_buffer_to_request(b).data = [i \in 1 .. q.length |-> b[i + 9]]
  BY <1>9 DEF mng_buffer_to_request
<1>11. [i \in 1 .. q.length |-> b[i + 9]] = q.data
  BY <1>7 DEF IsRequest
<1>12. QED
  BY <1>5, <1>10, <1>11 DEF b, d

-----------------------------------------------------------------------------
(* Requests and answers on their way. *)

(* The value of a metric, a uint32_t.                                      *)
Fits(n) == n \in Nat /\ n < 65536 * 65536

MetricsFit(m) ==
  /\ m \in [0 .. MNG_GET_CURR_CONNECTIONS -> Nat]
  /\ \A op \in 0 .. MNG_GET_CURR_CONNECTIONS : Fits(m[op])

HighHalfFits(n) == n \div 65536 < 65536

LEMMA FitsByHighHalf ==
  ASSUME NEW n \in Nat, HighHalfFits(n), NEW k \in Nat, k <= n
  PROVE  Fits(k)
<1> DEFINE hi == n \div 65536
           lo == n % 65536
<1>1. hi \in Nat
  OBVIOUS
<1>2. lo \in Nat /\ lo < 65536
  OBVIOUS
<1>3. n = (65536 * hi) + lo
  OBVIOUS
<1>4. hi < 65536
  BY DEF HighHalfFits
<1> HIDE DEF hi, lo
<1>5. n < 65536 * 65536
  BY <1>1, <1>2, <1>3, <1>4
<1>6. QED
  BY <1>5 DEF Fits

LEMMA ChangedMetricFits ==
  ASSUME NEW op \in Changing, NEW value \in Started[op] .. Started[op] + Growth
  PROVE  Fits(value)
<1>1. op \in DOMAIN Started /\ Started[op] \in Nat /\ Growth \in Nat
  BY ManagementAssumption
<1>2. (Started[op] + Growth) \div 65536 < 65536
  BY <1>1, ManagementAssumption
<1>3. value \in Nat /\ value <= Started[op] + Growth /\ Started[op] + Growth \in Nat
  BY <1>1
<1> DEFINE n == Started[op] + Growth
<1> HIDE DEF n
<1>4. n \in Nat /\ HighHalfFits(n) /\ value \in Nat /\ value <= n
  BY <1>2, <1>3 DEF n, HighHalfFits
<1>5. QED
  BY <1>4, FitsByHighHalf

LEMMA StartedFits == MetricsFit(Started)
<1>1. Started \in [0 .. MNG_GET_CURR_CONNECTIONS -> Nat] /\ Growth \in Nat
  BY ManagementAssumption
<1>2. ASSUME NEW op \in 0 .. MNG_GET_CURR_CONNECTIONS PROVE Fits(Started[op])
  <2>1. HighHalfFits(Started[op] + Growth)
    BY <1>1, ManagementAssumption DEF HighHalfFits
  <2>2. Started[op] \in Nat /\ Started[op] + Growth \in Nat /\ Started[op] <= Started[op] + Growth
    BY <1>1
  <2>3. QED
    BY <2>1, <2>2, FitsByHighHalf
<1>3. QED
  BY <1>1, <1>2 DEF MetricsFit

(* What the client sends fits in the data field.                           *)
LEMMA BeforeIsPrefix ==
  ASSUME NEW S, NEW s \in Seq(S), NEW C
  PROVE  Before(s, C) \in Seq(S) /\ Len(Before(s, C)) <= Len(s)
<1> DEFINE M == {i \in DOMAIN s : s[i] \in C} \cup {Len(s) + 1}
<1>1. M # {} /\ M \in SUBSET Nat /\ \A x \in M : x \in 1 .. Len(s) + 1
  OBVIOUS
<1> HIDE DEF M
<1>2. \E m \in M : \A x \in M : m <= x
  BY <1>1, LeastExists
<1>3. Min(M) \in M
  BY <1>2 DEF Min
<1> DEFINE m == Min(M)
           k == m - 1
<1>4. m \in 1 .. Len(s) + 1
  BY <1>1, <1>3
<1> HIDE DEF m
<1>5. k \in 0 .. Len(s)
  BY <1>4
<1> HIDE DEF k
<1>6. SubSeq(s, 1, k) \in Seq(S) /\ Len(SubSeq(s, 1, k)) = k
  BY <1>5
<1>7. QED
  BY <1>5, <1>6 DEF Before, M, m, k

LEMMA RequestFits ==
  ASSUME NEW op, NEW data \in Seq(Nat), Len(data) <= MaxDataLen
  PROVE  IsRequest(request(op, data)) /\ request(op, data).op_code = op
<1>1. Len(data) \in 0 .. MaxDataLen
  BY Sizes
<1>2. data = [i \in 1 .. Len(data) |-> data[i]]
  OBVIOUS
<1>3. QED
  BY <1>1, <1>2 DEF IsRequest, request

LEMMA ArgumentFitsInData ==
  ASSUME NEW line \in Lines
  PROVE  /\ parse_add_user_param(line) \in Seq(Nat)
         /\ Len(parse_add_user_param(line)) <= MaxDataLen
<1>1. line \in Seq(Nat) /\ Len(line) <= MaxDataLen
  BY ManagementAssumption
<1>2. /\ Before(line, {Blank}) \in Seq(Nat)
      /\ Len(Before(line, {Blank})) <= Len(line)
  BY <1>1, BeforeIsPrefix
<1>3. QED
  BY <1>1, <1>2, Sizes DEF parse_add_user_param

-----------------------------------------------------------------------------
(* q tells the client that asked r the truth.                              *)
Truthful(q, r) ==
  /\ IsResponse(q)
  /\ q.status = MNG_SUCCESS =>
       /\ q.op_code = r.op_code
       /\ r.op_code = MNG_ADD_USER => name_of(r.data) \in Range(users)
       /\ r.op_code <= MNG_GET_CURR_CONNECTIONS =>
            \E m \in had : q.data = Bytes32(m[r.op_code])

Answers(a, r) ==
  /\ a.for = mng_request_to_buffer(r)
  /\ \E q : a.bytes = mng_response_to_buffer(q) /\ Truthful(q, r)

(* The client waits for the answer to r, and nothing else is on its way.   *)
Pending(r) ==
  /\ waiting = {r} /\ IsRequest(r) /\ r.op_code \in 0 .. MNG_NOOP
  /\ metrics \in had /\ \A m \in had : MetricsFit(m)
  /\ \/ requests \subseteq {mng_request_to_buffer(r)} /\ responses = {}
     \/ requests = {} /\ \A a, b \in responses : Answers(a, r) /\ a = b

Quiet == waiting = {} /\ requests = {} /\ responses = {}

Right(s) ==
  /\ s.for = mng_request_to_buffer(s.asked)
  /\ s.got.status = MNG_SUCCESS =>
       /\ s.got.op_code = s.asked.op_code
       /\ s.asked.op_code = MNG_ADD_USER => name_of(s.asked.data) \in Range(users)
       /\ s.asked.op_code <= MNG_GET_CURR_CONNECTIONS =>
            \E m \in s.had : GET_UINT32(s.got.data, 0) = m[s.asked.op_code]

AnswerInv ==
  /\ MetricsFit(metrics)
  /\ doubled \in BOOLEAN
  /\ ~doubled =>
       /\ \A s \in shown : Right(s)
       /\ Quiet \/ \E r : Pending(r)

(* An answer stays true while accounts are added and metrics change.       *)
LEMMA StaysTruthful ==
  ASSUME NEW q, NEW r, Truthful(q, r),
         Range(users) \subseteq Range(users'), had \subseteq had'
  PROVE  Truthful(q, r)'
BY DEF Truthful

LEMMA StayAnswers ==
  ASSUME NEW a, NEW r, Answers(a, r),
         Range(users) \subseteq Range(users'), had \subseteq had'
  PROVE  Answers(a, r)'
BY StaysTruthful DEF Answers

LEMMA StaysRight ==
  ASSUME NEW s, Right(s), Range(users) \subseteq Range(users')
  PROVE  Right(s)'
BY DEF Right

(* The answer that the server makes to the client's request.               *)
LEMMA ServerIsTruthful ==
  ASSUME NEW r, IsRequest(r), r.op_code \in 0 .. MNG_NOOP,
         UsersInv, metrics \in had, had' = had,
         NEW d, d.op_code = r.op_code, d.data = r.data, mng_add_user(d),
         NEW q, q = mng_handle_request(d)
  PROVE  Truthful(q, r)'
<1>1. IsResponse(q)
  <2>1. CASE q.length = 4 /\ q.data = Bytes32(metrics[d.op_code])
    <3>1. 4 \in 0 .. MaxDataLen
      BY M3Assumption
    <3>2. Bytes32(metrics[d.op_code]) = [i \in 1 .. 4 |-> Bytes32(metrics[d.op_code])[i]]
      BY Concatenation DEF Bytes32, Bytes16
    <3>3. QED
      BY <2>1, <3>1, <3>2 DEF IsResponse
  <2>2. CASE q.length = 0 /\ q.data = <<>>
    <3>1. 0 \in 0 .. MaxDataLen /\ <<>> = [i \in 1 .. 0 |-> <<>>[i]]
      BY Sizes
    <3>2. QED
      BY <2>2, <3>1 DEF IsResponse
  <2>3. QED
    BY <2>1, <2>2 DEF mng_handle_request
<1>2. /\ q.status = status_of(d)
      /\ Known(d) => q.op_code = d.op_code
      /\ Known(d) /\ d.op_code <= MNG_GET_CURR_CONNECTIONS => q.data = Bytes32(metrics[d.op_code])
  BY DEF mng_handle_request
<1>3. q.status = MNG_SUCCESS => Known(d)
  BY <1>2 DEF Known
<1>4. ASSUME q.status = MNG_SUCCESS, d.op_code = MNG_ADD_USER
      PROVE  name_of(d.data) \in Range(users')
  <2>1. can_add(users, d.data)
    BY <1>2, <1>4 DEF status_of, MNG_SUCCESS, MNG_INVALID_VERSION, MNG_INVALID_TOKEN,
                      MNG_INVALID_OP_CODE, MNG_INVALID_ARGS
  <2>2. users' = Append(users, name_of(d.data))
    BY <1>3, <1>4, <2>1 DEF mng_add_user, add_user
  <2> DEFINE x == name_of(d.data)
             V == Range(users) \cup {x}
  <2>3. users \in Seq(V) /\ x \in V
    BY DEF UsersInv, Distinct
  <2> HIDE DEF x, V
  <2>4. Len(users) + 1 \in DOMAIN Append(users, x) /\ Append(users, x)[Len(users) + 1] = x
    BY <2>3
  <2>5. x \in Range(Append(users, x))
    BY <2>4 DEF Range
  <2>6. QED
    BY <2>2, <2>5 DEF x
<1>5. QED
  BY <1>1, <1>2, <1>3, <1>4 DEF Truthful

(* The list of accounts only grows.                                        *)
LEMMA UsersGrow ==
  ASSUME UsersInv, [Next]_vars
  PROVE  Range(users) \subseteq Range(users')
<1>1. CASE users' = users
  BY <1>1
<1>2. ASSUME NEW d, mng_add_user(d) PROVE Range(users) \subseteq Range(users')
  <2>1. CASE users' = Append(users, name_of(d.data))
    <3> DEFINE x == name_of(d.data)
               V == Range(users) \cup {x}
    <3>1. users \in Seq(V) /\ x \in V
      BY DEF UsersInv, Distinct
    <3> HIDE DEF x, V
    <3>2. \A i \in DOMAIN users : i \in DOMAIN Append(users, x) /\ Append(users, x)[i] = users[i]
      BY <3>1
    <3>3. Range(users) \subseteq Range(Append(users, x))
      BY <3>2 DEF Range
    <3>4. QED
      BY <2>1, <3>3 DEF x
  <2>2. QED
    BY <1>1, <1>2, <2>1, AddUserEffect
<1>3. QED
  BY <1>1, <1>2, WhoAdds DEF vars

LEMMA AnswerInit == Init => AnswerInv
BY StartedFits DEF Init, AnswerInv, Quiet

LEMMA AskStep ==
  ASSUME AnswerInv, UsersInv, NEW r, IsRequest(r), r.op_code \in 0 .. MNG_NOOP,
         waiting = {}, Ask(r)
  PROVE  AnswerInv'
<1>1. ASSUME ~doubled PROVE Pending(r)'
  <2>1. requests = {} /\ responses = {}
    BY <1>1 DEF AnswerInv, Pending, Quiet
  <2>2. QED
    BY <2>1 DEF Ask, Pending, AnswerInv
<1>2. \A s \in shown : Right(s) => Right(s)'
  BY StaysRight DEF Ask
<1>3. QED
  BY <1>1, <1>2 DEF Ask, AnswerInv, MetricsFit

LEMMA ServeStep ==
  ASSUME AnswerInv, UsersInv, [Next]_vars, NEW bytes \in requests, Serve(bytes)
  PROVE  AnswerInv'
<1>1. /\ UNCHANGED <<metrics, waiting, shown, had>>
      /\ mng_passive_handler(bytes, TRUE)
      /\ \/ requests' = requests \ {bytes} /\ doubled' = doubled
         \/ doubled' = TRUE
  BY DEF Serve, ClientState
<1>2. \A s \in shown : Right(s) => Right(s)'
  BY StaysRight, UsersGrow
<1>3. ASSUME ~doubled' PROVE \E r : Pending(r)'
  <2>1. requests' = requests \ {bytes} /\ ~doubled
    BY <1>1, <1>3 DEF AnswerInv
  <2>2. PICK r : Pending(r)
    BY <2>1 DEF AnswerInv, Quiet
  <2>3. /\ IsRequest(r) /\ r.op_code \in 0 .. MNG_NOOP /\ metrics \in had
        /\ requests = {mng_request_to_buffer(r)} /\ responses = {}
        /\ bytes = mng_request_to_buffer(r)
    BY <2>2 DEF Pending
  <2> DEFINE d == mng_buffer_to_request(received(bytes))
             q == mng_handle_request(d)
             a == [bytes |-> mng_response_to_buffer(q), for |-> bytes]
  <2>4. mng_add_user(d) /\ responses' = responses \cup {a}
    BY <1>1 DEF mng_passive_handler
  <2>5. d.op_code = r.op_code /\ d.data = r.data
    BY <2>3, RequestRoundTrip
  <2> HIDE DEF d
  <2>6. ASSUME NEW x, x = q PROVE Truthful(x, r)'
    BY <1>1, <2>3, <2>4, <2>5, <2>6, ServerIsTruthful
  <2>7. ASSUME NEW b, b = a PROVE Answers(b, r)'
    <3>1. b.for = mng_request_to_buffer(r) /\ b.bytes = mng_response_to_buffer(q)
      BY <2>3, <2>7
    <3>2. PICK x : x = q
      OBVIOUS
    <3>3. Truthful(x, r)'
      BY <2>6, <3>2
    <3>4. QED
      BY <3>1, <3>2, <3>3 DEF Answers
  <2>8. requests' = {} /\ \A b, c \in responses' : b = a /\ c = a
    BY <2>1, <2>3, <2>4
  <2>9. \A b, c \in responses' : Answers(b, r)' /\ b = c
    BY <2>7, <2>8
  <2>10. QED
    BY <1>1, <2>2, <2>8, <2>9 DEF Pending, MetricsFit
<1>4. doubled' \in BOOLEAN
  BY <1>1 DEF AnswerInv
<1>5. MetricsFit(metrics)' /\ (\A s \in shown' : ~doubled' => Right(s)')
  BY <1>1, <1>2 DEF AnswerInv, MetricsFit
<1>6. QED
  BY <1>3, <1>4, <1>5 DEF AnswerInv

LEMMA ServeStrangerStep ==
  ASSUME AnswerInv, UsersInv, [Next]_vars, NEW bytes, ServeStranger(bytes)
  PROVE  AnswerInv'
<1>1. /\ UNCHANGED <<metrics, requests, doubled, waiting, shown, had>>
      /\ responses' = responses
  BY DEF ServeStranger, mng_passive_handler, ClientState
<1>2. \A s \in shown : Right(s) => Right(s)'
  BY StaysRight, UsersGrow
<1>3. \A a \in responses, r \in waiting : Answers(a, r) => Answers(a, r)'
  BY <1>1, StayAnswers, UsersGrow
<1>4. ASSUME NEW r, Pending(r) PROVE Pending(r)'
  BY <1>1, <1>3, <1>4 DEF Pending, MetricsFit
<1>5. Quiet => Quiet'
  BY <1>1 DEF Quiet
<1>6. MetricsFit(metrics)' /\ doubled' \in BOOLEAN
  BY <1>1 DEF AnswerInv, MetricsFit
<1>7. QED
  BY <1>1, <1>2, <1>4, <1>5, <1>6 DEF AnswerInv

LEMMA MetricsChangeStep ==
  ASSUME AnswerInv, NEW op \in Changing, NEW value \in Started[op] .. Started[op] + Growth,
         MetricsChange(op, value)
  PROVE  AnswerInv'
<1>1. /\ UNCHANGED <<users, requests, responses, doubled, waiting, shown>>
      /\ metrics' = [metrics EXCEPT ![op] = value]
      /\ had' = IF waiting = {} THEN had ELSE had \cup {metrics'}
  BY DEF MetricsChange, Network
<1>2. MetricsFit(metrics')
  <2>1. Fits(value)
    BY ChangedMetricFits
  <2>2. value \in Nat
    BY <2>1 DEF Fits
  <2>3. QED
    BY <1>1, <2>1, <2>2 DEF AnswerInv, MetricsFit
<1>3. MetricsFit(metrics)'
  BY <1>2 DEF MetricsFit
<1>4. \A s \in shown : Right(s) => Right(s)'
  BY <1>1, StaysRight
<1>5. \A a \in responses, r \in waiting : Answers(a, r) => Answers(a, r)'
  BY <1>1, StayAnswers
<1>6. ASSUME NEW r, Pending(r) PROVE Pending(r)'
  <2>1. had' = had \cup {metrics'} /\ r \in waiting
    BY <1>1, <1>6 DEF Pending
  <2>2. metrics' \in had' /\ \A m \in had' : MetricsFit(m)
    BY <1>2, <1>6, <2>1 DEF Pending
  <2>3. QED
    BY <1>1, <1>5, <1>6, <2>1, <2>2 DEF Pending, MetricsFit
<1>7. Quiet => Quiet'
  BY <1>1 DEF Quiet
<1>8. doubled' \in BOOLEAN
  BY <1>1 DEF AnswerInv
<1>9. QED
  BY <1>1, <1>3, <1>4, <1>6, <1>7, <1>8 DEF AnswerInv

LEMMA LoseStep ==
  ASSUME AnswerInv, Lose
  PROVE  AnswerInv'
<1>1. /\ UNCHANGED <<users, metrics, doubled, waiting, shown, had>>
      /\ requests' \subseteq requests /\ responses' \subseteq responses
  BY DEF Lose, ClientState
<1>2. \A s \in shown : Right(s) => Right(s)'
  BY <1>1, StaysRight
<1>3. \A a \in responses, r \in waiting : Answers(a, r) => Answers(a, r)'
  BY <1>1, StayAnswers
<1>4. ASSUME NEW r, Pending(r) PROVE Pending(r)'
  <2>1. \/ requests' \subseteq {mng_request_to_buffer(r)} /\ responses' = {}
        \/ requests' = {} /\ \A a, b \in responses' : Answers(a, r)' /\ a = b
    <3>1. r \in waiting
      BY <1>4 DEF Pending
    <3>2. CASE requests \subseteq {mng_request_to_buffer(r)} /\ responses = {}
      BY <1>1, <3>2
    <3>3. CASE requests = {} /\ \A a, b \in responses : Answers(a, r) /\ a = b
      BY <1>1, <1>3, <3>1, <3>3
    <3>4. QED
      BY <1>4, <3>2, <3>3 DEF Pending
  <2>2. QED
    BY <1>1, <1>4, <2>1 DEF Pending, MetricsFit
<1>5. Quiet => Quiet'
  BY <1>1 DEF Quiet
<1>6. MetricsFit(metrics)' /\ doubled' \in BOOLEAN
  BY <1>1 DEF AnswerInv, MetricsFit
<1>7. QED
  BY <1>1, <1>2, <1>4, <1>5, <1>6 DEF AnswerInv

LEMMA ReceiveStep ==
  ASSUME AnswerInv, NEW a \in responses, ReceiveResponse(a)
  PROVE  AnswerInv'
<1> DEFINE got == mng_buffer_to_response(received(a.bytes))
<1>1. /\ UNCHANGED <<users, metrics, requests>>
      /\ \/ responses' = responses \ {a} /\ doubled' = doubled
         \/ doubled' = TRUE
      /\ shown' = {[asked |-> r, got |-> got, for |-> a.for, had |-> had] : r \in waiting}
      /\ waiting' = {}
  BY DEF ReceiveResponse
<1>2. MetricsFit(metrics)' /\ doubled' \in BOOLEAN
  BY <1>1 DEF AnswerInv, MetricsFit
<1>3. ASSUME ~doubled' PROVE Quiet' /\ \A s \in shown' : Right(s)'
  <2>1. responses' = responses \ {a} /\ ~doubled
    BY <1>1, <1>3 DEF AnswerInv
  <2>2. PICK r : Pending(r)
    BY <2>1 DEF AnswerInv, Quiet
  <2>3. /\ waiting = {r} /\ requests = {} /\ Answers(a, r)
        /\ \A b \in responses : a = b
        /\ r.op_code \in 0 .. MNG_NOOP /\ \A m \in had : MetricsFit(m)
    BY <2>2 DEF Pending
  <2>4. Quiet'
    BY <1>1, <2>1, <2>3 DEF Quiet
  <2>5. PICK q : a.bytes = mng_response_to_buffer(q) /\ Truthful(q, r)
    BY <2>3 DEF Answers
  <2>6. got.status = q.status /\ got.op_code = q.op_code /\ got.data = q.data
    BY <2>5, ResponseRoundTrip DEF Truthful
  <2> HIDE DEF got
  <2>7. ASSUME NEW m \in had, r.op_code <= MNG_GET_CURR_CONNECTIONS,
               got.data = Bytes32(m[r.op_code])
        PROVE  GET_UINT32(got.data, 0) = m[r.op_code]
    <3>1. r.op_code \in 0 .. MNG_GET_CURR_CONNECTIONS
      BY <2>3, <2>7 DEF MNG_NOOP, MNG_GET_CURR_CONNECTIONS
    <3>2. Fits(m[r.op_code])
      BY <2>3, <3>1 DEF MetricsFit
    <3>3. GET_UINT32(Bytes32(m[r.op_code]), 0) = m[r.op_code]
      BY <3>2, FourBytes DEF Fits
    <3>4. QED
      BY <2>7, <3>3
  <2> DEFINE s == [asked |-> r, got |-> got, for |-> a.for, had |-> had]
  <2>8. shown' = {s}
    BY <1>1, <2>3
  <2>9. s.for = mng_request_to_buffer(r)
    BY <2>3 DEF Answers
  <2>10. ASSUME got.status = MNG_SUCCESS
         PROVE  /\ got.op_code = r.op_code
                /\ r.op_code = MNG_ADD_USER => name_of(r.data) \in Range(users')
                /\ r.op_code <= MNG_GET_CURR_CONNECTIONS =>
                     \E m \in had : GET_UINT32(got.data, 0) = m[r.op_code]
    BY <1>1, <2>5, <2>6, <2>7, <2>10 DEF Truthful
  <2>11. ASSUME NEW x, x = s PROVE Right(x)'
    <3>1. x.asked = r /\ x.got = got /\ x.for = a.for /\ x.had = had
      BY <2>11
    <3>2. QED
      BY <2>9, <2>10, <3>1 DEF Right
  <2>12. QED
    BY <2>4, <2>8, <2>11
<1>4. QED
  BY <1>2, <1>3 DEF AnswerInv

LEMMA AnswerStep ==
  ASSUME AnswerInv, UsersInv, [Next]_vars
  PROVE  AnswerInv'
<1>1. ASSUME NEW op \in Asked, SendRequest(op) PROVE AnswerInv'
  <2> DEFINE none == <<>>
             r == request(op, none)
  <2>1. op \in 0 .. MNG_NOOP
    BY ManagementAssumption
  <2>2. none \in Seq(Nat) /\ Len(none) <= MaxDataLen
    BY Sizes
  <2>3. waiting = {} /\ Ask(r)
    BY <1>1 DEF SendRequest
  <2> HIDE DEF none
  <2>4. IsRequest(r) /\ r.op_code = op
    BY <2>2, RequestFits
  <2> HIDE DEF r
  <2>5. QED
    BY <2>1, <2>3, <2>4, AskStep
<1>2. ASSUME NEW line \in Lines, SendAddUser(line) PROVE AnswerInv'
  <2> DEFINE r == request(MNG_ADD_USER, parse_add_user_param(line))
  <2>1. IsRequest(r) /\ r.op_code = MNG_ADD_USER
    BY ArgumentFitsInData, RequestFits
  <2>2. MNG_ADD_USER \in 0 .. MNG_NOOP
    BY DEF MNG_ADD_USER, MNG_NOOP
  <2>3. waiting = {} /\ Ask(r)
    BY <1>2 DEF SendAddUser
  <2> HIDE DEF r
  <2>4. QED
    BY <2>1, <2>2, <2>3, AskStep
<1>3. ASSUME NEW op \in Changing, NEW value \in Started[op] .. Started[op] + Growth,
             MetricsChange(op, value)
      PROVE  AnswerInv'
  BY <1>3, MetricsChangeStep
<1>4. CASE UNCHANGED vars
  <2>1. /\ Quiet => Quiet'
        /\ \A s : Right(s) => Right(s)'
        /\ MetricsFit(metrics)' /\ doubled' \in BOOLEAN /\ doubled' = doubled /\ shown' = shown
    BY <1>4 DEF vars, Quiet, Right, AnswerInv, MetricsFit
  <2>2. \A a, r : Answers(a, r) => Answers(a, r)'
    BY <1>4, StayAnswers DEF vars
  <2>3. \A r : Pending(r) => Pending(r)'
    BY <1>4, <2>2 DEF vars, Pending, MetricsFit
  <2>4. QED
    BY <2>1, <2>3 DEF AnswerInv
<1>5. QED
  BY <1>1, <1>2, <1>3, <1>4, ServeStep, ServeStrangerStep, ReceiveStep, LoseStep DEF Next

(* While the network repeats nothing, the client shows the answer to what  *)
(* it asked, whatever is lost, whatever others send and however the        *)
(* metrics change (management.c:88-89, client.c:166-230).                  *)
THEOREM AnswersAreTrue == Spec => []AnswerMatchesRequest
<1>1. UsersInv /\ AnswerInv /\ [Next]_vars => AnswerInv'
  BY AnswerStep
<1>2. AnswerInv => AnswerMatchesRequest
  BY DEF AnswerInv, AnswerMatchesRequest, Right
<1>3. QED
  BY <1>1, <1>2, UsersInit, UsersStep, AnswerInit, PTL DEF Spec
=============================================================================
