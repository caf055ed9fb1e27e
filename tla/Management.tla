----------------------------- MODULE Management -----------------------------
(***************************************************************************)
(* The management protocol M3: the server's side of it                     *)
(* (server/management.c) and the client that the project ships             *)
(* (client/client.c), over UDP, in the bytes of M3.                        *)
(*                                                                         *)
(* A datagram that was sent may be delivered once, more than once, or not  *)
(* at all, and in any order.  The client sends one request at a time and   *)
(* waits, without a time out, for whatever datagram arrives.               *)
(***************************************************************************)
EXTENDS M3, Accounts

CONSTANTS
  Options,      \* what -u gives on the command lines considered
  Asked,        \* the commands without an argument that are typed
  Lines,        \* what is typed after "adduser "
  Strange,      \* datagrams that others send to the management port
  AuthToken,    \* M3_AUTH_TOKEN, the same for the client and the server
  Started,      \* the values of the metrics when the client starts
  Changing,     \* the metrics that change
  Growth,       \* bound: by how much a metric goes up
  Requests      \* bound: requests the client sends

ASSUME ManagementAssumption ==
  /\ Options \subseteq Seq(Seq(Nat)) /\ Lines \subseteq Seq(Nat)
  /\ \A line \in Lines : Len(line) <= MaxDataLen    \* fgets() takes 99 characters
  /\ Changing \subseteq 0 .. MNG_GET_CURR_CONNECTIONS
  /\ Asked \subseteq 0 .. MNG_NOOP \ {MNG_ADD_USER}
  /\ Growth \in Nat /\ Requests \in Nat
  /\ Started \in [0 .. MNG_GET_CURR_CONNECTIONS -> Nat]
  /\ \A op \in DOMAIN Started :
       (Started[op] + Growth) \div 65536 < 65536       \* uint32_t

VARIABLES
  users,      \* names of server_state.users, in order
  metrics,    \* server_state.metrics, by the op_code that asks for them
  requests,   \* datagrams on their way to the server
  responses,  \* and back to the client
  waiting,    \* the requests the client has sent and not seen answered: 0 or 1
  id,         \* the client's count
  sent,       \* bound: requests sent by the client
  shown,      \* history: the request, and the response shown for it
  had,        \* history: the metrics since the client sent its last request
  doubled,    \* history: did the network keep a copy of a datagram it delivered?
  lost        \* history: did it lose one?

vars == <<users, metrics, requests, responses, waiting, id, sent, shown, had, doubled, lost>>

Network == <<requests, responses, doubled, lost>>
ClientState == <<waiting, id, sent, shown, had>>

-----------------------------------------------------------------------------
(* The server.                                                             *)

(* Mutant: the token is not looked at.                                     *)
AnyToken(r) ==
  IF r.version # MNG_V1 THEN MNG_INVALID_VERSION
  ELSE IF r.op_code > MNG_NOOP THEN MNG_INVALID_OP_CODE
  ELSE IF r.op_code = MNG_ADD_USER /\ ~can_add(users, r.data) THEN MNG_INVALID_ARGS
  ELSE MNG_SUCCESS

(* The checks of mng_handle_request in their order, then the action's own. *)
status_of(r) ==
  IF r.version # MNG_V1 THEN MNG_INVALID_VERSION
  ELSE IF r.auth_token # AuthToken THEN MNG_INVALID_TOKEN
  ELSE IF r.op_code > MNG_NOOP THEN MNG_INVALID_OP_CODE
  ELSE IF r.op_code = MNG_ADD_USER /\ ~can_add(users, r.data) THEN MNG_INVALID_ARGS
  ELSE MNG_SUCCESS

Known(r) == status_of(r) \in {MNG_SUCCESS, MNG_INVALID_ARGS}

(* A request that is not known is answered with op_code 0.  Only the       *)
(* metrics have data.                                                      *)
mng_handle_request(r) ==
  LET metric == Known(r) /\ r.op_code <= MNG_GET_CURR_CONNECTIONS IN
    [version |-> MNG_V1, status |-> status_of(r),
     op_code |-> IF Known(r) THEN r.op_code ELSE 0, request_id |-> r.request_id,
     length |-> IF metric THEN 4 ELSE 0,
     data |-> IF metric THEN Bytes32(metrics[r.op_code]) ELSE <<>>]

mng_add_user(r) ==
  users' = IF Known(r) /\ r.op_code = MNG_ADD_USER THEN add_user(users, r.data) ELSE users

Init ==
  /\ users \in {parse_args(options) : options \in Options}
  /\ metrics = Started
  /\ requests = {} /\ responses = {}
  /\ waiting = {} /\ id = 0 /\ sent = 0
  /\ shown = {} /\ had = {} /\ doubled = FALSE /\ lost = FALSE

(* Mutant: only a request that succeeds is answered.                       *)
AnswersSuccess(bytes, to_client) ==
  \E r \in {mng_buffer_to_request(received(bytes))} :
    /\ mng_add_user(r)
    /\ responses' = IF to_client /\ status_of(r) = MNG_SUCCESS
                    THEN responses \cup {[bytes |-> mng_response_to_buffer(mng_handle_request(r)),
                                          for |-> bytes]}
                    ELSE responses

(* mng_passive_handler, whole: a datagram in, a datagram out, followed     *)
(* further only if it goes to the client.                                  *)
mng_passive_handler(bytes, to_client) ==
  \E r \in {mng_buffer_to_request(received(bytes))} :
    /\ mng_add_user(r)
    /\ responses' = IF to_client
                    THEN responses \cup {[bytes |-> mng_response_to_buffer(mng_handle_request(r)),
                                          for |-> bytes]}
                    ELSE responses

(* A datagram of the client arrives, and may arrive again.                 *)
Serve(bytes) ==
  /\ bytes \in requests
  /\ mng_passive_handler(bytes, TRUE)
  /\ \/ requests' = requests \ {bytes} /\ UNCHANGED doubled
     \/ doubled' = TRUE /\ UNCHANGED requests
  /\ UNCHANGED <<metrics, lost, ClientState>>

(* A datagram of somebody else arrives; the answer goes elsewhere.         *)
ServeStranger(bytes) ==
  /\ mng_passive_handler(bytes, FALSE)
  /\ UNCHANGED <<metrics, requests, doubled, lost, ClientState>>

(* Environment: connections come and go, bytes are sent and received.  Of  *)
(* the metrics only the number of current connections goes down.           *)
MetricsChange(op, value) ==
  /\ value # metrics[op]
  /\ value < metrics[op] => op = MNG_GET_CURR_CONNECTIONS
  /\ metrics' = [metrics EXCEPT ![op] = value]
  /\ had' = IF waiting = {} THEN had ELSE had \cup {metrics'}
  /\ UNCHANGED <<users, Network, waiting, id, sent, shown>>

-----------------------------------------------------------------------------
(* The client.                                                             *)

(* What is typed after "adduser " must have a colon somewhere and must not *)
(* begin with a blank; it is sent as far as its first blank.               *)
accepts(line) == Colon \in Range(line) /\ line[1] # Blank
parse_add_user_param(line) == Before(line, {Blank})

(* The request_id is the low byte of the count.                            *)
request(op, data) ==
  [version |-> MNG_V1, auth_token |-> AuthToken, op_code |-> op,
   request_id |-> LowByte(id), length |-> Len(data), data |-> data]

Ask(r) ==
  /\ sent < Requests
  /\ requests' = requests \cup {mng_request_to_buffer(r)}
  /\ waiting' = {r}
  /\ sent' = sent + 1
  /\ had' = {metrics}
  /\ UNCHANGED <<users, metrics, responses, id, shown, doubled, lost>>

(* Mutant: the client does not wait for the answer.                        *)
AsksWithoutWaiting(op) == Ask(request(op, <<>>))

(* handle_request up to recvfrom, for the commands without an argument...  *)
SendRequest(op) == waiting = {} /\ Ask(request(op, <<>>))

(* ... and for adduser.                                                    *)
SendAddUser(line) ==
  waiting = {} /\ accepts(line) /\ Ask(request(MNG_ADD_USER, parse_add_user_param(line)))

(* handle_request from recvfrom on: the status and the op_code are looked  *)
(* at, the request_id is not.  The count goes up only after a success.     *)
ReceiveResponse(a) ==
  /\ waiting # {} /\ a \in responses
  /\ \/ responses' = responses \ {a} /\ UNCHANGED doubled
     \/ doubled' = TRUE /\ UNCHANGED responses
  /\ \E got \in {mng_buffer_to_response(received(a.bytes))} :
       /\ shown' = {[asked |-> r, got |-> got, for |-> a.for, had |-> had] : r \in waiting}
       /\ id' = IF got.status = MNG_SUCCESS THEN id + 1 ELSE id
  /\ waiting' = {} /\ had' = {}
  /\ UNCHANGED <<users, metrics, requests, sent, lost>>

-----------------------------------------------------------------------------
(* The network loses a datagram of the client, or one to it.              *)
Lose ==
  /\ \/ \E bytes \in requests : requests' = requests \ {bytes} /\ UNCHANGED responses
     \/ \E a \in responses : responses' = responses \ {a} /\ UNCHANGED requests
  /\ lost' = TRUE
  /\ UNCHANGED <<users, metrics, doubled, ClientState>>

Next ==
  \/ \E op \in Asked : SendRequest(op)
  \/ \E line \in Lines : SendAddUser(line)
  \/ \E bytes \in requests : Serve(bytes)
  \/ \E bytes \in Strange : ServeStranger(bytes)
  \/ \E a \in responses : ReceiveResponse(a)
  \/ \E op \in Changing : \E value \in Started[op] .. Started[op] + Growth :
       MetricsChange(op, value)
  \/ Lose

Spec == Init /\ [][Next]_vars

(* The kernel queues datagrams: one that has arrived is handled, whatever  *)
(* others arrive, and the client, which does nothing but wait, gets one.   *)
FairSpec ==
  /\ Spec
  /\ WF_vars(\E bytes \in requests : Serve(bytes))
  /\ WF_vars(\E a \in responses : ReceiveResponse(a))

-----------------------------------------------------------------------------
(* Properties *)

(* Users are found by name and their index is used until the server ends:  *)
(* there are never more than fit in the array, nor two alike, whatever is  *)
(* given on the command line, repeated by the network or asked by several  *)
(* (users.c:22-42, args.c:74-81).                                          *)
UsersAreDistinct ==
  /\ Len(users) <= MaxUsers
  /\ \A i, j \in 1 .. Len(users) : users[i] = users[j] => i = j

(* Users are only added, one at a time and at the end, and only by a       *)
(* datagram that carries the token (management.c:92-105).                  *)
AddsByToken ==
  users' # users =>
    \E bytes \in requests \cup Strange :
      LET r == mng_buffer_to_request(received(bytes)) IN
        /\ r.version = MNG_V1 /\ r.auth_token = AuthToken /\ r.op_code = MNG_ADD_USER
        /\ users' = Append(users, name_of(r.data))

OnlyTokenAdds == [][AddsByToken]_users

(* What the client shows is the answer to what it asked: the request_id    *)
(* "permite al cliente distinguir entre distintos paquetes que mando"      *)
(* (management.c:88-89).  A user it says was added is there (client.c:215) *)
(* and a number it prints is one that the metric had since it asked        *)
(* (client.c:226-230).  Datagrams may be lost, but none came twice: the    *)
(* client never compares the request_id that would tell the answers apart. *)
AnswerMatchesRequest ==
  ~doubled =>
    \A s \in shown :
      /\ s.for = mng_request_to_buffer(s.asked)
      /\ s.got.status = MNG_SUCCESS =>
           /\ s.got.op_code = s.asked.op_code
           /\ s.asked.op_code = MNG_ADD_USER => name_of(s.asked.data) \in Range(users)
           /\ s.asked.op_code <= MNG_GET_CURR_CONNECTIONS =>
                \E m \in s.had : GET_UINT32(s.got.data, 0) = m[s.asked.op_code]

(* The client, which has no time out, goes on after every request, well    *)
(* formed or not, as long as the network loses nothing (client.c:166-171). *)
EveryRequestAnswered == waiting # {} ~> waiting = {} \/ lost
=============================================================================
