------------------------------ MODULE Sessions ------------------------------
(***************************************************************************)
(* Client sessions and user accounts of the POP3 server: the accept path,  *)
(* the AUTHORIZATION commands, QUIT, the end of a connection, the linked   *)
(* list of connections, and the per-account flag sessionActive that is to  *)
(* keep a second session out.                                              *)
(*                                                                         *)
(* The server is one thread around select(): a handler runs to its end     *)
(* before the next one starts, so each handler is one action.  Which       *)
(* handler runs next, and for which connection, is the clients' choice.    *)
(*                                                                         *)
(* Left to other modules: the bytes on the wire (Connection), the mail     *)
(* (Pop3Server).  Memory allocation and accept() errors leave all of this  *)
(* state as it was (the node that was linked is unlinked again), so they   *)
(* are steps that stutter.                                                 *)
(*                                                                         *)
(* Nothing stops the server in order: it ends where it stands, by a        *)
(* signal, by exit() in log(FATAL) or by a failed assertion, and all this  *)
(* is lost with the process.  Restart is that end and the next start.      *)
(***************************************************************************)
EXTENDS Naturals, FiniteSets

CONSTANTS
  Conn,                 \* client connections (attachments of a client fd)
  Name,                 \* user names a client or the manager may mention
  NoName,               \* the NULL of client_data->username
  NULL,                 \* the NULL of a link of the list
  MaxUsers,             \* MAX_USERS
  CounterMax,           \* largest value of a uint32_t metric
  LeaveUnauthenticated  \* may a client that gave USER leave before PASS?

ASSUME ConnAssumption == IsFiniteSet(Conn)
ASSUME NameAssumption == NoName \notin Name
ASSUME NullAssumption == NULL \notin Conn
ASSUME CounterAssumption == CounterMax \in Nat \ {0}
ASSUME LeaveAssumption == LeaveUnauthenticated \in BOOLEAN

VARIABLES
  users,                \* names in server_state.users
  sessionActive,        \* users[i].sessionActive, per name
  state,                \* client_data->state; "closed": no such connection
  username,             \* client_data->username
  connection_pool,      \* the first node of the list of connections
  next,                 \* client_data->next
  gone,                 \* environment: the client has closed its end
  current_connections,  \* metrics.current_connections
  total_connections     \* metrics.total_connections

list == <<connection_pool, next>>
metrics == <<current_connections, total_connections>>
vars == <<users, sessionActive, state, username, list, gone, metrics>>

ProtocolState == {"AUTH_INI", "AUTH_PASSWORD", "TRANSACTION", "CLIENT_FINISHED"}

(* The connections that exist. *)
pool == {c \in Conn : state[c] # "closed"}

(* Types: current_connections, which is unsigned, never goes below zero,   *)
(* whichever way connections end, and total_connections wraps.             *)
TypeOK ==
  /\ users \subseteq Name
  /\ sessionActive \in [Name -> BOOLEAN]
  /\ state \in [Conn -> ProtocolState \cup {"closed"}]
  /\ username \in [Conn -> Name \cup {NoName}]
  /\ connection_pool \in Conn \cup {NULL}
  /\ next \in [Conn -> Conn \cup {NULL}]
  /\ gone \in [Conn -> BOOLEAN]
  /\ current_connections \in Nat
  /\ total_connections \in 0 .. CounterMax

-----------------------------------------------------------------------------
(* users.c *)

(* Mutant: the flag is not looked at.                                      *)
LoginIgnoresFlag(n, matches) == n \in users /\ matches

login_succeeds(n, matches) == n \in users /\ matches /\ ~sessionActive[n]

login_user(n) == [sessionActive EXCEPT ![n] = TRUE]

(* Mutant: the flag is not lowered.                                        *)
LogoutKeepsFlag(n) == sessionActive

(* Releases the account by name; a name that is not an account, or whose   *)
(* flag is already down, is left alone.                                    *)
logout_user(n) ==
  IF n \in users THEN [sessionActive EXCEPT ![n] = FALSE] ELSE sessionActive

-----------------------------------------------------------------------------
(* The list of connections.  The searches walk it to the only node that    *)
(* PoolIsList lets have that link.                                         *)
find_previous_connection(c) == CHOOSE p \in pool : next[p] = c
find_last_connection == CHOOSE p \in pool : next[p] = NULL

(* setup_new_connection: the new node goes to the end. *)
Link(c) ==
  /\ connection_pool' = IF connection_pool = NULL THEN c ELSE connection_pool
  /\ next' = IF connection_pool = NULL THEN next
             ELSE [next EXCEPT ![find_last_connection] = c]

(* Mutant: the node before the one that goes keeps its link.               *)
UnlinkHeadOnly(c) ==
  /\ connection_pool' = IF connection_pool = c THEN next[c] ELSE connection_pool
  /\ next' = [next EXCEPT ![c] = NULL]

(* destroy_connection_info: the first node, or one in the middle.  The     *)
(* memory of c is freed.                                                   *)
Unlink(c) ==
  \/ /\ connection_pool = c
     /\ connection_pool' = next[c]
     /\ next' = [next EXCEPT ![c] = NULL]
  \/ /\ connection_pool # c
     /\ next' = [next EXCEPT ![find_previous_connection(c)] = next[c], ![c] = NULL]
     /\ UNCHANGED connection_pool

-----------------------------------------------------------------------------
(* The command line adds users before the loop starts. *)
Init ==
  /\ users \in {U \in SUBSET Name : Cardinality(U) <= MaxUsers}
  /\ sessionActive = [n \in Name |-> FALSE]
  /\ state = [c \in Conn |-> "closed"]
  /\ username = [c \in Conn |-> NoName]
  /\ connection_pool = NULL
  /\ next = [c \in Conn |-> NULL]
  /\ gone = [c \in Conn |-> FALSE]
  /\ current_connections = 0
  /\ total_connections = 0

(* The process ends, with every connection, and is started again, maybe    *)
(* with other users on its command line.                                   *)
Restart ==
  /\ users' \in {U \in SUBSET Name : Cardinality(U) <= MaxUsers}
  /\ sessionActive' = [n \in Name |-> FALSE]
  /\ state' = [c \in Conn |-> "closed"]
  /\ username' = [c \in Conn |-> NoName]
  /\ connection_pool' = NULL
  /\ next' = [c \in Conn |-> NULL]
  /\ gone' = [c \in Conn |-> FALSE]
  /\ current_connections' = 0
  /\ total_connections' = 0

(* The management protocol adds an account at any time. *)
AddUser(n) ==
  /\ Cardinality(users) < MaxUsers
  /\ n \notin users
  /\ users' = users \cup {n}
  /\ sessionActive' = [sessionActive EXCEPT ![n] = FALSE]
  /\ UNCHANGED <<state, username, list, gone, metrics>>

Accept(c) ==
  /\ state[c] = "closed"
  /\ state' = [state EXCEPT ![c] = "AUTH_INI"]
  /\ username' = [username EXCEPT ![c] = NoName]
  /\ current_connections' = current_connections + 1
  /\ total_connections' = IF total_connections = CounterMax THEN 0
                                                            ELSE total_connections + 1
  /\ Link(c)
  /\ UNCHANGED <<users, sessionActive, gone>>

(* USER takes any name, also on top of an earlier USER.  Whether the       *)
(* account exists does not matter: the answer is +OK either way.           *)
User(c, n) ==
  /\ state[c] \in {"AUTH_INI", "AUTH_PASSWORD"}
  /\ state' = [state EXCEPT ![c] = "AUTH_PASSWORD"]
  /\ username' = [username EXCEPT ![c] = n]
  /\ UNCHANGED <<users, sessionActive, list, gone, metrics>>

send_back_to_ini(c) ==
  /\ username' = [username EXCEPT ![c] = NoName]
  /\ state' = [state EXCEPT ![c] = "AUTH_INI"]

(* PASS with the account's password or another one.                        *)
PassAccepted(c) ==
  /\ state[c] = "AUTH_PASSWORD"
  /\ login_succeeds(username[c], TRUE)
  /\ sessionActive' = login_user(username[c])
  /\ state' = [state EXCEPT ![c] = "TRANSACTION"]
  /\ UNCHANGED <<users, username, list, gone, metrics>>

PassRejected(c, matches) ==
  /\ state[c] = "AUTH_PASSWORD"
  /\ ~login_succeeds(username[c], matches)
  /\ send_back_to_ini(c)
  /\ UNCHANGED <<users, sessionActive, list, gone, metrics>>

(* CAPA and every command that AUTH_PASSWORD does not know break the       *)
(* USER-PASS pair.  In the other states they change nothing here.          *)
OtherCommand(c) ==
  /\ state[c] = "AUTH_PASSWORD"
  /\ send_back_to_ini(c)
  /\ UNCHANGED <<users, sessionActive, list, gone, metrics>>

(* Environment: does the client of c leave now? *)
MayLeave(c) == state[c] = "AUTH_PASSWORD" => LeaveUnauthenticated

Quit(c) ==
  /\ state[c] \in {"AUTH_INI", "AUTH_PASSWORD", "TRANSACTION"}
  /\ MayLeave(c)
  /\ state' = [state EXCEPT ![c] = "CLIENT_FINISHED"]
  /\ UNCHANGED <<users, sessionActive, username, list, gone, metrics>>

destroy_connection_info(c) ==
  /\ sessionActive' = IF username[c] # NoName THEN logout_user(username[c])
                                              ELSE sessionActive
  /\ Unlink(c)
  /\ state' = [state EXCEPT ![c] = "closed"]
  /\ username' = [username EXCEPT ![c] = NoName]
  /\ gone' = [gone EXCEPT ![c] = FALSE]

(* Mutant: the handler runs again when the socket is unregistered.         *)
CloseRunsTwice(c) ==
  /\ destroy_connection_info(c)
  /\ current_connections' = current_connections - 2
  /\ UNCHANGED <<users, total_connections>>

(* Mutant: the metric is forgotten.                                        *)
CloseNotCounted(c) ==
  /\ destroy_connection_info(c)
  /\ UNCHANGED <<users, current_connections, total_connections>>

pop3_close_handler(c) ==
  /\ destroy_connection_info(c)
  /\ current_connections' = current_connections - 1
  /\ UNCHANGED <<users, total_connections>>

(* The client closes its end of the connection in the middle of anything;  *)
(* commands it sent before may still be carried out.                       *)
Hangup(c) ==
  /\ state[c] # "closed" /\ ~gone[c]
  /\ gone' = [gone EXCEPT ![c] = TRUE]
  /\ UNCHANGED <<users, sessionActive, state, username, list, metrics>>

(* A handler finds the client gone: recv() or send() says so.              *)
Disconnect(c) ==
  /\ state[c] \in {"AUTH_INI", "AUTH_PASSWORD", "TRANSACTION"}
  /\ gone[c] /\ MayLeave(c)
  /\ pop3_close_handler(c)

(* The write handler after QUIT; a client that is gone by then ends the    *)
(* same way.                                                               *)
Finish(c) ==
  /\ state[c] = "CLIENT_FINISHED"
  /\ pop3_close_handler(c)

ConnStep(c) ==
  \/ Accept(c)
  \/ \E n \in Name : User(c, n)
  \/ PassAccepted(c)
  \/ \E matches \in BOOLEAN : PassRejected(c, matches)
  \/ OtherCommand(c)
  \/ Quit(c)
  \/ Hangup(c)
  \/ Disconnect(c)
  \/ Finish(c)

Next ==
  \/ \E n \in Name : AddUser(n)
  \/ \E c \in Conn : ConnStep(c)
  \/ Restart

Spec == Init /\ [][Next]_vars

(* select() reports a client's socket writable again and again while the   *)
(* client reads, and broken once the client is gone: the write handler of  *)
(* a client that sent QUIT runs, and some handler of a client that is gone *)
(* finds that out.  Nothing else is fair: a silent client may keep its     *)
(* session for ever, the server has no timeout.                            *)
FairSpec ==
  /\ Spec
  /\ \A c \in Conn : WF_vars(Finish(c)) /\ WF_vars(Disconnect(c))

-----------------------------------------------------------------------------
(* Properties *)

(* Connection c passed PASS and its session is not over yet. *)
InSession(c) ==
  /\ state[c] \in {"TRANSACTION", "CLIENT_FINISHED"}
  /\ username[c] # NoName

(* An account is never locked out by a session that is gone: whoever holds *)
(* the flag of an account is a connection that still exists and logged in  *)
(* with that name, however sessions were interleaved or cut off.           *)
FlagHasOwner ==
  \A n \in Name : sessionActive[n] => \E c \in Conn : InSession(c) /\ username[c] = n

(* metrics.current_connections, which the manager is shown, is the number  *)
(* of connections in the pool, whichever of its exits each one took.       *)
MetricsAgree == current_connections = Cardinality(pool)

(* Two connections are never in a session of the same account: what        *)
(* sessionActive is there for.                                             *)
OneSessionPerUser ==
  \A c, d \in Conn :
    /\ c # d
    /\ state[c] = "TRANSACTION" /\ state[d] = "TRANSACTION"
    => username[c] # username[d]

(* A flag that is down tells the truth: no session of that account is      *)
(* open.  The close path lowers the flag "to indicate that the user is not *)
(* logged in" (pop3.c:114).                                                *)
FlagDownMeansLoggedOut ==
  \A c \in Conn : state[c] = "TRANSACTION" => sessionActive[username[c]]

(* A session that its client ends, by QUIT or by leaving, frees the        *)
(* account: the user can log in again without anybody's help, although the *)
(* server has no timeout.                                                  *)
LeavingReleases ==
  \A c \in Conn : \A n \in Name :
    (InSession(c) /\ username[c] = n /\ (gone[c] \/ state[c] = "CLIENT_FINISHED"))
      ~> ~sessionActive[n]

(* The links from connection_pool on lead through every connection that    *)
(* exists, once each, and end there, in whatever order connections came    *)
(* and went: no search of the list runs into memory that was freed.        *)
PoolIsList ==
  LET n == Cardinality(pool) IN
    \E order \in [1 .. n -> pool] :
      /\ \A c \in pool : \E i \in 1 .. n : order[i] = c
      /\ connection_pool = IF n = 0 THEN NULL ELSE order[1]
      /\ \A i \in 1 .. n : next[order[i]] = IF i = n THEN NULL ELSE order[i + 1]
=============================================================================
