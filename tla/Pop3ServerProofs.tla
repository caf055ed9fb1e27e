-------------------------- MODULE Pop3ServerProofs --------------------------
(***************************************************************************)
(* Theorems about Sessions and Pop3Server, for every number of             *)
(* connections, accounts and files, every size of the files and every      *)
(* MAX_MAILS.                                                              *)
(*                                                                         *)
(* First come those about Sessions alone, on its Spec.  NamedState and     *)
(* ActiveAreUsers hold whatever the clients do and carry TypeOK,           *)
(* MetricsAgree and FlagHasOwner.  Exclusive is the strengthening that     *)
(* OneSessionPerUser needs: it is inductive only when clients do not leave *)
(* between USER and PASS.  ListInv is about the linked list of             *)
(* connections, which none of the others depends on.  Then come the mail   *)
(* of a session and MailSpec, which rest on these.                         *)
(***************************************************************************)
EXTENDS Pop3Server, Induction, FiniteSetTheorems, TLAPS

(* A connection carries a name exactly from USER on.                       *)
NamedState ==
  \A c \in Conn :
    /\ state[c] \in {"closed", "AUTH_INI"} => username[c] = NoName
    /\ state[c] \in {"AUTH_PASSWORD", "TRANSACTION"} => username[c] # NoName

(* Only accounts have a flag that is up.                                   *)
ActiveAreUsers == \A n \in Name : sessionActive[n] => n \in users

BaseInv == TypeOK /\ NamedState /\ MetricsAgree

LockInv == BaseInv /\ ActiveAreUsers /\ FlagHasOwner

Exclusive ==
  /\ \A c \in Conn : InSession(c) => sessionActive[username[c]]
  /\ \A c, d \in Conn :
       c # d /\ InSession(c) /\ InSession(d) => username[c] # username[d]

-----------------------------------------------------------------------------
(* Closing a connection of the pool takes one from the number of its       *)
(* members, and accepting one adds one.                                    *)
LEMMA PoolCardinality ==
  ASSUME TypeOK, NEW c \in Conn
  PROVE  /\ Cardinality(pool) \in Nat
         /\ c \in pool => /\ Cardinality(pool) - 1 \in Nat
                          /\ Cardinality(pool \ {c}) = Cardinality(pool) - 1
         /\ c \notin pool => Cardinality(pool \cup {c}) = Cardinality(pool) + 1
<1>1. IsFiniteSet(pool)
  BY FS_Subset, ConnAssumption DEF pool
<1>2. Cardinality(pool) \in Nat
  BY <1>1, FS_CardinalityType
<1>3. c \in pool => /\ Cardinality(pool) - 1 \in Nat
                    /\ Cardinality(pool \ {c}) = Cardinality(pool) - 1
  <2>1. IsFiniteSet(pool \ {c})
    BY <1>1, FS_RemoveElement
  <2>2. Cardinality(pool \ {c}) \in Nat
    BY <2>1, FS_CardinalityType
  <2>3. QED
    BY <1>1, <2>2, FS_RemoveElement
<1>4. c \notin pool => Cardinality(pool \cup {c}) = Cardinality(pool) + 1
  BY <1>1, FS_AddElement
<1>5. QED
  BY <1>2, <1>3, <1>4

(* The close path, common to Disconnect and Finish.                        *)
LEMMA CloseKeepsBase ==
  ASSUME BaseInv, NEW c \in Conn, state[c] # "closed", pop3_close_handler(c)
  PROVE  BaseInv'
<1> USE DEF BaseInv
<1>1. state' = [state EXCEPT ![c] = "closed"]
  BY DEF pop3_close_handler, destroy_connection_info
<1>2. pool' = pool \ {c}
  BY <1>1 DEF pool, TypeOK
<1>3. c \in pool
  BY DEF pool
<1>4. MetricsAgree' /\ current_connections' \in Nat
  BY <1>2, <1>3, PoolCardinality DEF MetricsAgree, pop3_close_handler
<1>5. sessionActive' \in [Name -> BOOLEAN]
  BY DEF TypeOK, pop3_close_handler, destroy_connection_info, logout_user
<1>6. TypeOK'
  <2>1. connection_pool' \in Conn \cup {NULL} /\ next' \in [Conn -> Conn \cup {NULL}]
    BY DEF TypeOK, pop3_close_handler, destroy_connection_info, Unlink
  <2>2. QED
    BY <1>4, <1>5, <2>1 DEF TypeOK, pop3_close_handler, destroy_connection_info, ProtocolState
<1>7. NamedState'
  BY DEF NamedState, TypeOK, pop3_close_handler, destroy_connection_info
<1>8. QED
  BY <1>4, <1>6, <1>7

(* A step that opens and closes nothing leaves the pool as it is.          *)
LEMMA SamePool ==
  ASSUME MetricsAgree, UNCHANGED current_connections,
         \A c \in Conn : state'[c] = "closed" <=> state[c] = "closed"
  PROVE  MetricsAgree'
<1>1. pool' = pool
  BY DEF pool
<1>2. QED
  BY <1>1 DEF MetricsAgree

LEMMA BaseInit == Init => BaseInv
<1> SUFFICES ASSUME Init PROVE BaseInv
  OBVIOUS
<1>1. TypeOK
  BY CounterAssumption DEF Init, TypeOK
<1>2. NamedState
  BY DEF Init, NamedState
<1>3. pool = {}
  BY DEF Init, pool
<1>4. MetricsAgree
  BY <1>3, FS_EmptySet DEF Init, MetricsAgree
<1>5. QED
  BY <1>1, <1>2, <1>4 DEF BaseInv

LEMMA BaseStep == BaseInv /\ [Next]_vars => BaseInv'
<1> SUFFICES ASSUME BaseInv, [Next]_vars PROVE BaseInv'
  OBVIOUS
<1> USE DEF BaseInv
<1>1. ASSUME NEW n \in Name, AddUser(n) PROVE BaseInv'
  <2>1. TypeOK'
    BY <1>1 DEF TypeOK, AddUser, list, metrics
  <2>2. NamedState'
    BY <1>1 DEF NamedState, AddUser
  <2>3. MetricsAgree'
    BY <1>1, SamePool DEF AddUser, metrics
  <2>4. QED
    BY <2>1, <2>2, <2>3
<1>2. ASSUME NEW c \in Conn, Accept(c) PROVE BaseInv'
  <2>1. TypeOK'
    <3>1. connection_pool' \in Conn \cup {NULL} /\ next' \in [Conn -> Conn \cup {NULL}]
      BY <1>2 DEF TypeOK, Accept, Link
    <3>2. total_connections' \in 0 .. CounterMax
      BY <1>2, CounterAssumption DEF TypeOK, Accept
    <3>3. /\ state' \in [Conn -> ProtocolState \cup {"closed"}]
          /\ username' \in [Conn -> Name \cup {NoName}]
      BY <1>2 DEF TypeOK, Accept, ProtocolState
    <3>4. /\ users' \subseteq Name
          /\ sessionActive' \in [Name -> BOOLEAN]
          /\ gone' \in [Conn -> BOOLEAN]
          /\ current_connections' \in Nat
      BY <1>2 DEF TypeOK, Accept
    <3>5. QED
      BY <3>1, <3>2, <3>3, <3>4 DEF TypeOK
  <2>2. NamedState'
    BY <1>2 DEF NamedState, Accept, TypeOK
  <2>3. pool' = pool \cup {c} /\ c \notin pool
    BY <1>2 DEF pool, Accept, TypeOK
  <2>4. MetricsAgree'
    BY <1>2, <2>3, PoolCardinality DEF MetricsAgree, Accept
  <2>5. QED
    BY <2>1, <2>2, <2>4
<1>3. ASSUME NEW c \in Conn, NEW n \in Name, User(c, n) PROVE BaseInv'
  <2>1. TypeOK'
    BY <1>3 DEF TypeOK, User, list, metrics, ProtocolState
  <2>2. NamedState'
    BY <1>3, NameAssumption DEF NamedState, User, TypeOK
  <2>3. MetricsAgree'
    BY <1>3, SamePool DEF User, metrics, TypeOK
  <2>4. QED
    BY <2>1, <2>2, <2>3
<1>4. ASSUME NEW c \in Conn, PassAccepted(c) PROVE BaseInv'
  <2>1. TypeOK'
    BY <1>4 DEF TypeOK, PassAccepted, login_user, list, metrics, ProtocolState
  <2>2. NamedState'
    BY <1>4 DEF NamedState, PassAccepted, TypeOK
  <2>3. MetricsAgree'
    BY <1>4, SamePool DEF PassAccepted, metrics, TypeOK
  <2>4. QED
    BY <2>1, <2>2, <2>3
<1>5. ASSUME NEW c \in Conn, state[c] = "AUTH_PASSWORD", send_back_to_ini(c),
             UNCHANGED <<users, sessionActive, list, gone, metrics>>
      PROVE  BaseInv'
  <2>1. TypeOK'
    BY <1>5 DEF TypeOK, send_back_to_ini, list, metrics, ProtocolState
  <2>2. NamedState'
    BY <1>5 DEF NamedState, send_back_to_ini, TypeOK
  <2>3. MetricsAgree'
    BY <1>5, SamePool DEF send_back_to_ini, metrics, TypeOK
  <2>4. QED
    BY <2>1, <2>2, <2>3
<1>6. ASSUME NEW c \in Conn, Quit(c) PROVE BaseInv'
  <2>1. TypeOK'
    BY <1>6 DEF TypeOK, Quit, list, metrics, ProtocolState
  <2>2. NamedState'
    BY <1>6 DEF NamedState, Quit, TypeOK
  <2>3. MetricsAgree'
    BY <1>6, SamePool DEF Quit, metrics, TypeOK
  <2>4. QED
    BY <2>1, <2>2, <2>3
<1>7. ASSUME NEW c \in Conn, Disconnect(c) \/ Finish(c) PROVE BaseInv'
  BY <1>7, CloseKeepsBase DEF Disconnect, Finish
<1>8. ASSUME NEW c \in Conn, Hangup(c) PROVE BaseInv'
  BY <1>8 DEF Hangup, list, metrics, TypeOK, NamedState, MetricsAgree, pool
<1>9. ASSUME Restart PROVE BaseInv'
  <2>1. TypeOK'
    BY <1>9, CounterAssumption DEF Restart, TypeOK
  <2>2. NamedState'
    BY <1>9 DEF Restart, NamedState
  <2>3. pool' = {}
    BY <1>9 DEF Restart, pool
  <2>4. MetricsAgree'
    BY <1>9, <2>3, FS_EmptySet DEF Restart, MetricsAgree
  <2>5. QED
    BY <2>1, <2>2, <2>4
<1>10. CASE UNCHANGED vars
  BY <1>10 DEF vars, list, metrics, TypeOK, NamedState, MetricsAgree, pool
<1>11. QED
  BY <1>1, <1>2, <1>3, <1>4, <1>5, <1>6, <1>7, <1>8, <1>9, <1>10
     DEF Next, ConnStep, PassRejected, OtherCommand

(* Every variable keeps its type, and the number of connections shown to   *)
(* the manager is the number of connections in the pool.                   *)
THEOREM TypeAndMetrics == Spec => []TypeOK /\ []MetricsAgree
<1>1. Init => BaseInv
  BY BaseInit
<1>2. BaseInv /\ [Next]_vars => BaseInv'
  BY BaseStep
<1>3. BaseInv => TypeOK /\ MetricsAgree
  BY DEF BaseInv
<1>4. QED
  BY <1>1, <1>2, <1>3, PTL DEF Spec

-----------------------------------------------------------------------------
(* Closing c lowers the flag of c's name only, and the owner of any other  *)
(* flag is still there.                                                    *)
LEMMA CloseKeepsLock ==
  ASSUME LockInv, NEW c \in Conn, pop3_close_handler(c)
  PROVE  ActiveAreUsers' /\ FlagHasOwner'
<1> USE DEF LockInv, BaseInv
<1>1. /\ state' = [state EXCEPT ![c] = "closed"]
      /\ username' = [username EXCEPT ![c] = NoName]
      /\ users' = users
  BY DEF pop3_close_handler, destroy_connection_info
<1>2. ASSUME NEW n \in Name, sessionActive'[n]
      PROVE  sessionActive[n] /\ username[c] # n
  <2>1. CASE username[c] = NoName
    BY <2>1, <1>2, NameAssumption DEF pop3_close_handler, destroy_connection_info
  <2>2. CASE username[c] # NoName /\ username[c] \notin users
    BY <2>2, <1>2 DEF pop3_close_handler, destroy_connection_info, logout_user, ActiveAreUsers
  <2>3. CASE username[c] # NoName /\ username[c] \in users
    BY <2>3, <1>2 DEF pop3_close_handler, destroy_connection_info, logout_user, TypeOK
  <2>4. QED
    BY <2>1, <2>2, <2>3
<1>3. ActiveAreUsers'
  BY <1>1, <1>2 DEF ActiveAreUsers
<1>4. ASSUME NEW n \in Name, sessionActive'[n]
      PROVE  \E d \in Conn : InSession(d)' /\ username'[d] = n
  <2>1. PICK d \in Conn : InSession(d) /\ username[d] = n
    BY <1>2, <1>4 DEF FlagHasOwner
  <2>2. d # c
    BY <1>2, <1>4, <2>1
  <2>3. InSession(d)' /\ username'[d] = n
    BY <1>1, <2>1, <2>2 DEF InSession, TypeOK
  <2>4. QED
    BY <2>3
<1>5. QED
  BY <1>3, <1>4 DEF FlagHasOwner

(* A step of a connection that is in no session, which does not end one    *)
(* and leaves the accounts alone, keeps the owners.                        *)
LEMMA OutsideKeepsLock ==
  ASSUME LockInv, NEW c \in Conn, ~InSession(c),
         UNCHANGED <<users, sessionActive>>,
         \A d \in Conn \ {c} : state'[d] = state[d] /\ username'[d] = username[d]
  PROVE  ActiveAreUsers' /\ FlagHasOwner'
<1>1. ActiveAreUsers'
  BY DEF LockInv, ActiveAreUsers
<1>2. ASSUME NEW n \in Name, sessionActive[n]
      PROVE  \E d \in Conn : InSession(d)' /\ username'[d] = n
  <2>1. PICK d \in Conn : InSession(d) /\ username[d] = n
    BY <1>2 DEF LockInv, FlagHasOwner
  <2>2. d # c
    BY <2>1
  <2>3. QED
    BY <2>1, <2>2 DEF InSession
<1>3. QED
  BY <1>1, <1>2 DEF FlagHasOwner

LEMMA LockStep == LockInv /\ [Next]_vars => LockInv'
<1> SUFFICES ASSUME LockInv, [Next]_vars PROVE ActiveAreUsers' /\ FlagHasOwner'
  BY BaseStep DEF LockInv
<1> USE DEF LockInv, BaseInv
<1>1. ASSUME NEW n \in Name, AddUser(n) PROVE ActiveAreUsers' /\ FlagHasOwner'
  <2>1. \A m \in Name : sessionActive'[m] => sessionActive[m]
    BY <1>1 DEF AddUser, TypeOK
  <2>2. ActiveAreUsers'
    BY <1>1, <2>1 DEF AddUser, ActiveAreUsers
  <2>3. FlagHasOwner'
    BY <1>1, <2>1 DEF AddUser, FlagHasOwner, InSession
  <2>4. QED
    BY <2>2, <2>3
<1>2. ASSUME NEW c \in Conn, Accept(c) PROVE ActiveAreUsers' /\ FlagHasOwner'
  BY <1>2, OutsideKeepsLock DEF Accept, InSession, TypeOK
<1>3. ASSUME NEW c \in Conn, NEW n \in Name, User(c, n)
      PROVE  ActiveAreUsers' /\ FlagHasOwner'
  BY <1>3, OutsideKeepsLock DEF User, InSession, TypeOK
<1>4. ASSUME NEW c \in Conn, PassAccepted(c) PROVE ActiveAreUsers' /\ FlagHasOwner'
  <2>1. username[c] \in Name /\ username[c] \in users
    BY <1>4 DEF PassAccepted, login_succeeds, TypeOK
  <2>2. InSession(c)'
    BY <1>4, <2>1, NameAssumption DEF PassAccepted, InSession, TypeOK
  <2>3. \A m \in Name : sessionActive'[m] => sessionActive[m] \/ m = username[c]
    BY <1>4, <2>1 DEF PassAccepted, login_user, TypeOK
  <2>4. \A d \in Conn : InSession(d) => InSession(d)' /\ username'[d] = username[d]
    BY <1>4 DEF PassAccepted, InSession, TypeOK
  <2>5. ActiveAreUsers'
    BY <1>4, <2>1, <2>3 DEF PassAccepted, ActiveAreUsers
  <2>6. FlagHasOwner'
    <3> SUFFICES ASSUME NEW m \in Name, sessionActive'[m]
                 PROVE  \E d \in Conn : InSession(d)' /\ username'[d] = m
      BY DEF FlagHasOwner
    <3>1. CASE m = username[c]
      BY <3>1, <2>2, <1>4 DEF PassAccepted
    <3>2. CASE sessionActive[m]
      BY <3>2, <2>4 DEF FlagHasOwner
    <3>3. QED
      BY <2>3, <3>1, <3>2
  <2>7. QED
    BY <2>5, <2>6
<1>5. ASSUME NEW c \in Conn, state[c] = "AUTH_PASSWORD", send_back_to_ini(c),
             UNCHANGED <<users, sessionActive>>
      PROVE  ActiveAreUsers' /\ FlagHasOwner'
  BY <1>5, OutsideKeepsLock DEF send_back_to_ini, InSession, TypeOK
<1>6. ASSUME NEW c \in Conn, Quit(c) PROVE ActiveAreUsers' /\ FlagHasOwner'
  <2>1. \A d \in Conn : InSession(d) => InSession(d)'
    BY <1>6 DEF Quit, InSession, TypeOK
  <2>2. QED
    BY <1>6, <2>1 DEF Quit, ActiveAreUsers, FlagHasOwner
<1>7. ASSUME NEW c \in Conn, Disconnect(c) \/ Finish(c)
      PROVE  ActiveAreUsers' /\ FlagHasOwner'
  BY <1>7, CloseKeepsLock DEF Disconnect, Finish
<1>8. ASSUME NEW c \in Conn, Hangup(c) PROVE ActiveAreUsers' /\ FlagHasOwner'
  BY <1>8 DEF Hangup, ActiveAreUsers, FlagHasOwner, InSession
<1>9. ASSUME Restart PROVE ActiveAreUsers' /\ FlagHasOwner'
  BY <1>9 DEF Restart, ActiveAreUsers, FlagHasOwner
<1>10. CASE UNCHANGED vars
  BY <1>10 DEF vars, ActiveAreUsers, FlagHasOwner, InSession
<1>11. QED
  BY <1>1, <1>2, <1>3, <1>4, <1>5, <1>6, <1>7, <1>8, <1>9, <1>10
     DEF Next, ConnStep, PassRejected, OtherCommand

(* No account stays locked by a session that is gone (users.c and the      *)
(* close path of pop3.c), in every interleaving of any number of clients.  *)
THEOREM NoOrphanedLock == Spec => []FlagHasOwner
<1>1. Init => LockInv
  BY BaseInit DEF Init, LockInv, ActiveAreUsers, FlagHasOwner
<1>2. LockInv /\ [Next]_vars => LockInv'
  BY LockStep
<1>3. LockInv => FlagHasOwner
  BY DEF LockInv
<1>4. QED
  BY <1>1, <1>2, <1>3, PTL DEF Spec

-----------------------------------------------------------------------------
(* Under the discipline every name that reaches the close path is the name *)
(* of a session, so the flag that goes down is the leaver's own.           *)
LEMMA CloseKeepsExclusive ==
  ASSUME LockInv, Exclusive, NEW c \in Conn, pop3_close_handler(c),
         state[c] # "AUTH_PASSWORD"
  PROVE  Exclusive'
<1> USE DEF LockInv, BaseInv
<1>1. /\ state' = [state EXCEPT ![c] = "closed"]
      /\ username' = [username EXCEPT ![c] = NoName]
  BY DEF pop3_close_handler, destroy_connection_info
<1>2. \A d \in Conn : InSession(d)' => d # c /\ InSession(d) /\ username'[d] = username[d]
  BY <1>1 DEF InSession, TypeOK
<1>3. username[c] # NoName => InSession(c)
  BY DEF NamedState, InSession, TypeOK, ProtocolState
<1>4. ASSUME NEW d \in Conn, InSession(d)' PROVE sessionActive'[username'[d]]
  <2>1. /\ d # c /\ username'[d] = username[d]
        /\ sessionActive[username[d]]
        /\ username[d] \in Name
    BY <1>2, <1>4 DEF Exclusive, InSession, TypeOK
  <2>2. CASE username[c] = NoName
    BY <2>1, <2>2 DEF pop3_close_handler, destroy_connection_info
  <2>3. CASE username[c] # NoName
    <3>1. username[c] # username[d]
      BY <2>1, <2>3, <1>2, <1>3, <1>4 DEF Exclusive
    <3>2. QED
      BY <2>1, <2>3, <3>1 DEF pop3_close_handler, destroy_connection_info, logout_user, TypeOK
  <2>4. QED
    BY <2>2, <2>3
<1>5. QED
  BY <1>2, <1>4 DEF Exclusive

LEMMA ExclusiveStep ==
  ASSUME ~LeaveUnauthenticated
  PROVE  LockInv /\ Exclusive /\ [Next]_vars => Exclusive'
<1> SUFFICES ASSUME LockInv, Exclusive, [Next]_vars PROVE Exclusive'
  OBVIOUS
<1> USE DEF LockInv, BaseInv
<1>1. ASSUME NEW n \in Name, AddUser(n) PROVE Exclusive'
  <2>1. \A m \in Name : sessionActive[m] => sessionActive'[m]
    BY <1>1 DEF AddUser, ActiveAreUsers, TypeOK
  <2>2. \A d \in Conn : InSession(d) => username[d] \in Name
    BY DEF InSession, TypeOK
  <2>3. QED
    BY <1>1, <2>1, <2>2 DEF AddUser, Exclusive, InSession
<1>2. ASSUME NEW c \in Conn, UNCHANGED sessionActive,
             \A d \in Conn : InSession(d)' => InSession(d) /\ username'[d] = username[d]
      PROVE  Exclusive'
  BY <1>2 DEF Exclusive
<1>3. ASSUME NEW c \in Conn, Accept(c) PROVE Exclusive'
  BY <1>2, <1>3 DEF Accept, InSession, TypeOK
<1>4. ASSUME NEW c \in Conn, NEW n \in Name, User(c, n) PROVE Exclusive'
  BY <1>2, <1>4 DEF User, InSession, TypeOK
<1>5. ASSUME NEW c \in Conn, PassAccepted(c) PROVE Exclusive'
  <2>1. username[c] \in Name /\ ~sessionActive[username[c]]
    BY <1>5 DEF PassAccepted, login_succeeds, TypeOK
  <2>2. \A m \in Name : sessionActive'[m] <=> sessionActive[m] \/ m = username[c]
    BY <1>5, <2>1 DEF PassAccepted, login_user, TypeOK
  <2>3. \A d \in Conn \ {c} : InSession(d)' <=> InSession(d)
    BY <1>5 DEF PassAccepted, InSession, TypeOK
  <2>4. \A d \in Conn : InSession(d)' => username[d] \in Name
    BY <1>5 DEF PassAccepted, InSession, TypeOK
  <2>5. username' = username
    BY <1>5 DEF PassAccepted
  <2>6. \A d \in Conn : InSession(d)' => sessionActive'[username'[d]]
    BY <2>2, <2>3, <2>4, <2>5 DEF Exclusive
  <2>7. \A d \in Conn \ {c} : InSession(d)' => username[d] # username[c]
    BY <2>1, <2>3 DEF Exclusive
  <2>8. \A d, e \in Conn : d # e /\ InSession(d)' /\ InSession(e)'
                             => username'[d] # username'[e]
    BY <2>3, <2>5, <2>7 DEF Exclusive
  <2>9. QED
    BY <2>6, <2>8 DEF Exclusive
<1>6. ASSUME NEW c \in Conn, state[c] = "AUTH_PASSWORD", send_back_to_ini(c),
             UNCHANGED <<users, sessionActive>>
      PROVE  Exclusive'
  BY <1>2, <1>6 DEF send_back_to_ini, InSession, TypeOK
<1>7. ASSUME NEW c \in Conn, Quit(c) PROVE Exclusive'
  <2>1. state[c] # "AUTH_PASSWORD"
    BY <1>7 DEF Quit, MayLeave
  <2>2. QED
    BY <1>2, <1>7, <2>1 DEF Quit, InSession, NamedState, TypeOK
<1>8. ASSUME NEW c \in Conn, Disconnect(c) \/ Finish(c) PROVE Exclusive'
  BY <1>8, CloseKeepsExclusive DEF Disconnect, Finish, MayLeave
<1>9. ASSUME NEW c \in Conn, Hangup(c) PROVE Exclusive'
  BY <1>2, <1>9 DEF Hangup, InSession
<1>10. ASSUME Restart PROVE Exclusive'
  BY <1>10 DEF Restart, Exclusive, InSession
<1>11. CASE UNCHANGED vars
  BY <1>11 DEF vars, Exclusive, InSession
<1>12. QED
  BY <1>1, <1>3, <1>4, <1>5, <1>6, <1>7, <1>8, <1>9, <1>10, <1>11
     DEF Next, ConnStep, PassRejected, OtherCommand

(* If no client leaves between USER and PASS, two sessions never share an  *)
(* account, and an account in a session always has its flag up.            *)
THEOREM ExclusiveAccess ==
  ASSUME ~LeaveUnauthenticated
  PROVE  Spec => []OneSessionPerUser /\ []FlagDownMeansLoggedOut
<1>1. Init => LockInv /\ Exclusive
  BY BaseInit DEF Init, LockInv, ActiveAreUsers, FlagHasOwner, Exclusive, InSession
<1>2. LockInv /\ Exclusive /\ [Next]_vars => LockInv' /\ Exclusive'
  BY LockStep, ExclusiveStep
<1>3. LockInv /\ Exclusive => OneSessionPerUser /\ FlagDownMeansLoggedOut
  BY DEF LockInv, BaseInv, NamedState, Exclusive, InSession, OneSessionPerUser,
         FlagDownMeansLoggedOut
<1>4. QED
  BY <1>1, <1>2, <1>3, PTL DEF Spec
-----------------------------------------------------------------------------
(* The list of connections, as values: the links nxt from head on lead     *)
(* through the n members of P in this order.                               *)
Ordered(P, n, order, head, nxt) ==
  /\ order \in [1 .. n -> P]
  /\ \A c \in P : \E i \in 1 .. n : order[i] = c
  /\ head = IF n = 0 THEN NULL ELSE order[1]
  /\ \A i \in 1 .. n : nxt[order[i]] = IF i = n THEN NULL ELSE order[i + 1]

(* What Link makes of a list when it appends c, whichever last node the    *)
(* search finds, and Unlink when it takes c out.                           *)
Linked(P, head, nxt, c, first, new) ==
  /\ first = IF head = NULL THEN c ELSE head
  /\ \E last :
       /\ (\E p \in P : nxt[p] = NULL) => last \in P /\ nxt[last] = NULL
       /\ new = IF head = NULL THEN nxt ELSE [nxt EXCEPT ![last] = c]

Unlinked(P, head, nxt, c, first, new) ==
  /\ first = IF head = c THEN nxt[c] ELSE head
  /\ \E prev :
       /\ (\E p \in P : nxt[p] = c) => prev \in P /\ nxt[prev] = c
       /\ new = IF head = c THEN [nxt EXCEPT ![c] = NULL]
                ELSE [nxt EXCEPT ![prev] = nxt[c], ![c] = NULL]

IsList(P, n, head, nxt) == \E order : Ordered(P, n, order, head, nxt)

(* A list that ends with every member of P has each of them once, so a     *)
(* node has one node before it, and one node is the last.                  *)
LEMMA OrderedOnce ==
  ASSUME NEW P \in SUBSET Conn, NEW n \in Nat, n = Cardinality(P),
         NEW order, NEW head, NEW nxt, Ordered(P, n, order, head, nxt)
  PROVE  \A i, j \in 1 .. n : order[i] = order[j] => i = j
<1>1. IsFiniteSet(1 .. n) /\ Cardinality(1 .. n) = n
  BY FS_Interval
<1>2. order \in Surjection(1 .. n, P)
  BY DEF Ordered, Surjection
<1>3. order \in Injection(1 .. n, P)
  BY <1>1, <1>2, FS_SurjSameCardinalityImpliesInj
<1>4. QED
  BY <1>3 DEF Injection, IsInjective

(* setup_new_connection: what was a list of P is one of P and c.           *)
LEMMA LinkKeepsOrder ==
  ASSUME NEW P \in SUBSET Conn, NEW n \in Nat, n = Cardinality(P),
         NEW head, NEW nxt \in [Conn -> Conn \cup {NULL}], IsList(P, n, head, nxt),
         NEW c \in Conn, c \notin P, nxt[c] = NULL,
         NEW first, NEW new, Linked(P, head, nxt, c, first, new)
  PROVE  IsList(P \cup {c}, n + 1, first, new)
<1> PICK order : Ordered(P, n, order, head, nxt)
  BY DEF IsList
<1> PICK last :
      /\ (\E p \in P : nxt[p] = NULL) => last \in P /\ nxt[last] = NULL
      /\ new = IF head = NULL THEN nxt ELSE [nxt EXCEPT ![last] = c]
  BY DEF Linked
<1> DEFINE o == [i \in 1 .. n + 1 |-> IF i = n + 1 THEN c ELSE order[i]]
<1>0. /\ order \in [1 .. n -> P]
      /\ \A i \in 1 .. n : order[i] # NULL /\ order[i] \in Conn /\ order[i] # c
      /\ \A i, j \in 1 .. n : order[i] = order[j] => i = j
  <2>1. order \in [1 .. n -> P]
    BY DEF Ordered
  <2>2. \A i, j \in 1 .. n : order[i] = order[j] => i = j
    BY OrderedOnce
  <2>3. QED
    BY <2>1, <2>2, NullAssumption
<1>1. head = NULL <=> n = 0
  BY <1>0 DEF Ordered
<1>2. ASSUME n # 0 PROVE last = order[n]
  <2>1. order[n] \in P /\ nxt[order[n]] = NULL
    BY <1>0, <1>2 DEF Ordered
  <2>2. ASSUME NEW p \in P, nxt[p] = NULL PROVE p = order[n]
    <3>1. PICK i \in 1 .. n : order[i] = p
      BY DEF Ordered
    <3>2. i # n => nxt[p] = order[i + 1] /\ i + 1 \in 1 .. n
      BY <3>1 DEF Ordered
    <3>3. QED
      BY <1>0, <2>2, <3>1, <3>2
  <2>3. QED
    BY <2>1, <2>2
<1>3. o \in [1 .. n + 1 -> P \cup {c}]
  BY <1>0
<1>4. \A d \in P \cup {c} : \E i \in 1 .. n + 1 : o[i] = d
  <2>1. o[n + 1] = c /\ n + 1 \in 1 .. n + 1
    OBVIOUS
  <2>2. ASSUME NEW d \in P PROVE \E i \in 1 .. n + 1 : o[i] = d
    <3>1. PICK i \in 1 .. n : order[i] = d
      BY DEF Ordered
    <3>2. QED
      BY <3>1
  <2>3. QED
    BY <2>1, <2>2
<1>5. first = o[1]
  BY <1>1 DEF Ordered, Linked
<1>6. ASSUME NEW i \in 1 .. n + 1
      PROVE  new[o[i]] = IF i = n + 1 THEN NULL ELSE o[i + 1]
  <2>1. CASE i = n + 1
    <3>1. o[i] = c
      BY <2>1
    <3>2. new[c] = NULL
      <4>1. n # 0 => last # c
        <5>1. n # 0 => n \in 1 .. n
          OBVIOUS
        <5>2. QED
          BY <1>0, <1>2, <5>1
      <4>2. QED
        BY <1>1, <4>1
    <3>3. QED
      BY <2>1, <3>1, <3>2
  <2>2. CASE i = n
    <3>1. o[i] = order[n] /\ o[i + 1] = c /\ head # NULL /\ n # 0
      BY <1>1, <2>2
    <3>2. new[order[n]] = c
      BY <1>0, <1>2, <3>1
    <3>3. QED
      BY <2>2, <3>1, <3>2
  <2>3. CASE i \in 1 .. n - 1
    <3>1. o[i] = order[i] /\ o[i + 1] = order[i + 1] /\ i \in 1 .. n /\ i # n /\ n \in 1 .. n
      BY <2>3
    <3>2. new[order[i]] = nxt[order[i]]
      <4>1. n # 0 => last # order[i]
        BY <1>0, <1>2, <3>1
      <4>2. QED
        BY <1>0, <1>1, <3>1, <4>1
    <3>3. QED
      BY <3>1, <3>2 DEF Ordered
  <2>4. QED
    BY <2>1, <2>2, <2>3
<1>7. Ordered(P \cup {c}, n + 1, o, first, new)
  <2> HIDE DEF o
  <2>1. QED
    BY <1>3, <1>4, <1>5, <1>6 DEF Ordered
<1>8. QED
  BY <1>7 DEF IsList

(* destroy_connection_info: what was a list of P is one of P without c.    *)
LEMMA UnlinkKeepsOrder ==
  ASSUME NEW P \in SUBSET Conn, NEW n \in Nat, n = Cardinality(P),
         NEW head, NEW nxt \in [Conn -> Conn \cup {NULL}], IsList(P, n, head, nxt),
         NEW c \in P, NEW first, NEW new, Unlinked(P, head, nxt, c, first, new)
  PROVE  IsList(P \ {c}, n - 1, first, new)
<1> PICK order : Ordered(P, n, order, head, nxt)
  BY DEF IsList
<1> PICK prev :
      /\ (\E p \in P : nxt[p] = c) => prev \in P /\ nxt[prev] = c
      /\ new = IF head = c THEN [nxt EXCEPT ![c] = NULL]
               ELSE [nxt EXCEPT ![prev] = nxt[c], ![c] = NULL]
  BY DEF Unlinked
<1>0. /\ order \in [1 .. n -> P]
      /\ \A i \in 1 .. n : order[i] # NULL /\ order[i] \in Conn
      /\ \A i, j \in 1 .. n : order[i] = order[j] => i = j
  <2>1. order \in [1 .. n -> P]
    BY DEF Ordered
  <2>2. \A i, j \in 1 .. n : order[i] = order[j] => i = j
    BY OrderedOnce
  <2>3. QED
    BY <2>1, <2>2, NullAssumption
<1>1. PICK k \in 1 .. n : order[k] = c
  BY DEF Ordered
<1> DEFINE o == [i \in 1 .. n - 1 |-> IF i < k THEN order[i] ELSE order[i + 1]]
<1>2. head = c <=> k = 1
  BY <1>0, <1>1 DEF Ordered
<1>3. ASSUME k # 1 PROVE k - 1 \in 1 .. n /\ prev = order[k - 1] /\ prev # c
  <2>1. k - 1 \in 1 .. n /\ order[k - 1] \in P /\ nxt[order[k - 1]] = c
    BY <1>0, <1>1, <1>3 DEF Ordered
  <2>2. ASSUME NEW p \in P, nxt[p] = c PROVE p = order[k - 1]
    <3>1. PICK i \in 1 .. n : order[i] = p
      BY DEF Ordered
    <3>2. i # n /\ order[i + 1] = c
      BY <1>0, <1>1, <2>2, <3>1 DEF Ordered
    <3>3. i + 1 = k
      BY <1>0, <1>1, <3>2
    <3>4. QED
      BY <3>1, <3>3
  <2>3. QED
    BY <1>0, <1>1, <2>1, <2>2
<1>4. \A i \in 1 .. n - 1 : /\ i < k => i \in 1 .. n /\ order[i] # c
                            /\ ~(i < k) => i + 1 \in 1 .. n /\ order[i + 1] # c
  BY <1>0, <1>1
<1>5. o \in [1 .. n - 1 -> P \ {c}]
  BY <1>0, <1>4
<1>6. ASSUME NEW d \in P \ {c} PROVE \E i \in 1 .. n - 1 : o[i] = d
  <2>1. PICK i \in 1 .. n : order[i] = d
    BY DEF Ordered
  <2>2. i # k
    BY <1>1, <2>1
  <2>3. CASE i < k
    BY <2>1, <2>3
  <2>4. CASE i > k
    <3>1. i - 1 \in 1 .. n - 1 /\ ~(i - 1 < k) /\ (i - 1) + 1 = i
      BY <2>4
    <3>2. o[i - 1] = d
      BY <2>1, <3>1
    <3>3. QED
      BY <3>1, <3>2
  <2>5. QED
    BY <2>2, <2>3, <2>4
<1>7. first = IF n - 1 = 0 THEN NULL ELSE o[1]
  <2> USE DEF Unlinked
  <2>1. CASE k = 1
    <3>1. first = IF n = 1 THEN NULL ELSE order[2]
      BY <1>1, <1>2, <2>1 DEF Ordered
    <3>2. QED
      BY <2>1, <3>1
  <2>2. CASE k # 1
    <3>1. first = order[1] /\ n - 1 # 0 /\ 1 < k
      BY <1>1, <1>2, <2>2 DEF Ordered
    <3>2. QED
      BY <3>1
  <2>3. QED
    BY <2>1, <2>2
<1>8. ASSUME NEW i \in 1 .. n, i # k, i + 1 # k PROVE new[order[i]] = nxt[order[i]]
  <2>1. order[i] # c /\ order[i] \in Conn
    BY <1>0, <1>1, <1>8
  <2>2. k # 1 => prev # order[i]
    BY <1>0, <1>3, <1>8
  <2>3. QED
    BY <1>2, <2>1, <2>2
<1>9. ASSUME NEW i \in 1 .. n - 1
      PROVE  new[o[i]] = IF i = n - 1 THEN NULL ELSE o[i + 1]
  <2>1. CASE i + 1 < k
    <3>1. o[i] = order[i] /\ o[i + 1] = order[i + 1] /\ i \in 1 .. n /\ i # k /\ i + 1 # k
          /\ i # n - 1 /\ i # n
      BY <2>1
    <3>2. new[order[i]] = order[i + 1]
      BY <1>8, <3>1 DEF Ordered
    <3>3. QED
      BY <3>1, <3>2
  <2>2. CASE i + 1 = k
    <3>1. o[i] = order[i] /\ prev = order[i] /\ k # 1 /\ prev # c
      BY <1>3, <2>2
    <3>2. new[prev] = nxt[c]
      BY <1>0, <1>2, <3>1, <2>2
    <3>3. nxt[c] = IF k = n THEN NULL ELSE order[k + 1]
      BY <1>1 DEF Ordered
    <3>4. i # n - 1 => o[i + 1] = order[k + 1]
      BY <2>2
    <3>5. i = n - 1 <=> k = n
      BY <2>2
    <3>6. QED
      <4> HIDE DEF o
      <4>1. QED
        BY <3>1, <3>2, <3>3, <3>4, <3>5
  <2>3. CASE i + 1 > k
    <3>1. o[i] = order[i + 1] /\ i + 1 \in 1 .. n /\ i + 1 # k /\ (i + 1) + 1 # k
          /\ (i # n - 1 => o[i + 1] = order[(i + 1) + 1])
      BY <2>3
    <3>2. new[order[i + 1]] = IF i + 1 = n THEN NULL ELSE order[(i + 1) + 1]
      BY <1>8, <3>1 DEF Ordered
    <3>3. QED
      <4> HIDE DEF o
      <4>1. QED
        BY <3>1, <3>2
  <2>4. QED
    BY <2>1, <2>2, <2>3
<1>10. Ordered(P \ {c}, n - 1, o, first, new)
  <2> HIDE DEF o
  <2>1. QED
    BY <1>5, <1>6, <1>7, <1>9 DEF Ordered
<1>11. QED
  BY <1>10 DEF IsList

(* The links of connections that are closed, whose memory is free, are     *)
(* NULL: Accept gives a node that has no successor.                        *)
ClosedUnlinked == \A c \in Conn : c \notin pool => next[c] = NULL

ListInv == ClosedUnlinked /\ PoolIsList

LEMMA PoolIsOrdered == PoolIsList <=> IsList(pool, Cardinality(pool), connection_pool, next)
BY DEF PoolIsList, IsList, Ordered

LEMMA AcceptKeepsList ==
  ASSUME BaseInv, ListInv, NEW c \in Conn, Accept(c)
  PROVE  ListInv'
<1> DEFINE n == Cardinality(pool)
<1>1. /\ pool \in SUBSET Conn /\ next \in [Conn -> Conn \cup {NULL}]
      /\ c \notin pool /\ pool' = pool \cup {c}
  BY DEF pool, Accept, BaseInv, TypeOK
<1>2. n \in Nat /\ Cardinality(pool') = n + 1
  BY <1>1, PoolCardinality DEF BaseInv
<1>3. IsList(pool, n, connection_pool, next)
  BY PoolIsOrdered DEF ListInv
<1>4. /\ connection_pool' = IF connection_pool = NULL THEN c ELSE connection_pool
      /\ next' = IF connection_pool = NULL THEN next
                 ELSE [next EXCEPT ![find_last_connection] = c]
  BY DEF Accept, Link
<1>5. next[c] = NULL
  BY <1>1 DEF ListInv, ClosedUnlinked
<1>6. Linked(pool, connection_pool, next, c, connection_pool', next')
  BY <1>4 DEF Linked, find_last_connection
<1>7. PoolIsList'
  <2> SUFFICES IsList(pool', n + 1, connection_pool', next')
    BY <1>2 DEF PoolIsList, IsList, Ordered
  <2> HIDE DEF n
  <2>1. n = Cardinality(pool)
    BY DEF n
  <2>2. QED
    BY <1>1, <1>2, <1>3, <1>5, <1>6, <2>1, LinkKeepsOrder
<1>8. ClosedUnlinked'
  <2> SUFFICES ASSUME NEW d \in Conn, d \notin pool' PROVE next'[d] = NULL
    BY DEF ClosedUnlinked
  <2>1. next[d] = NULL /\ d # c /\ d \notin pool
    BY <1>1 DEF ListInv, ClosedUnlinked
  <2>2. CASE connection_pool = NULL
    BY <1>4, <2>1, <2>2
  <2>3. CASE connection_pool # NULL
    <3>0. PICK order : Ordered(pool, n, order, connection_pool, next)
      BY <1>3 DEF IsList
    <3>1. n \in 1 .. n /\ order[n] \in pool /\ next[order[n]] = NULL
      BY <1>2, <3>0, <2>3 DEF Ordered
    <3>2. find_last_connection \in pool
      BY <3>1 DEF find_last_connection
    <3>3. QED
      BY <1>1, <1>4, <2>1, <2>3, <3>2
  <2>4. QED
    BY <2>2, <2>3
<1>9. QED
  BY <1>7, <1>8 DEF ListInv

LEMMA CloseKeepsList ==
  ASSUME BaseInv, ListInv, NEW c \in Conn, state[c] # "closed", pop3_close_handler(c)
  PROVE  ListInv'
<1> DEFINE n == Cardinality(pool)
<1>1. /\ pool \in SUBSET Conn /\ next \in [Conn -> Conn \cup {NULL}]
      /\ c \in pool /\ pool' = pool \ {c}
  BY DEF pool, pop3_close_handler, destroy_connection_info, BaseInv, TypeOK
<1>2. n \in Nat /\ Cardinality(pool') = n - 1
  BY <1>1, PoolCardinality DEF BaseInv
<1>3. IsList(pool, n, connection_pool, next)
  BY PoolIsOrdered DEF ListInv
<1>4. /\ connection_pool' = IF connection_pool = c THEN next[c] ELSE connection_pool
      /\ next' = IF connection_pool = c THEN [next EXCEPT ![c] = NULL]
                 ELSE [next EXCEPT ![find_previous_connection(c)] = next[c], ![c] = NULL]
  BY DEF pop3_close_handler, destroy_connection_info, Unlink
<1>5. Unlinked(pool, connection_pool, next, c, connection_pool', next')
  BY <1>4 DEF Unlinked, find_previous_connection
<1>6. PoolIsList'
  <2> SUFFICES IsList(pool', n - 1, connection_pool', next')
    BY <1>2 DEF PoolIsList, IsList, Ordered
  <2> HIDE DEF n
  <2>1. n = Cardinality(pool)
    BY DEF n
  <2>2. QED
    BY <1>1, <1>2, <1>3, <1>5, <2>1, UnlinkKeepsOrder
<1>7. ClosedUnlinked'
  <2> SUFFICES ASSUME NEW d \in Conn, d \notin pool' PROVE next'[d] = NULL
    BY DEF ClosedUnlinked
  <2>1. d # c => next[d] = NULL /\ d \notin pool
    BY <1>1 DEF ListInv, ClosedUnlinked
  <2>2. CASE d = c \/ connection_pool = c
    BY <1>1, <1>4, <2>1, <2>2
  <2>3. CASE d # c /\ connection_pool # c
    <3>0. PICK order : Ordered(pool, n, order, connection_pool, next)
      BY <1>3 DEF IsList
    <3>1. PICK k \in 1 .. n : order[k] = c
      BY <1>1, <3>0 DEF Ordered
    <3>2. k # 1
      BY <1>2, <3>0, <2>3, <3>1 DEF Ordered
    <3>3. k - 1 \in 1 .. n /\ k - 1 # n /\ (k - 1) + 1 = k
      BY <1>2, <3>1, <3>2
    <3>4. order[k - 1] \in pool /\ next[order[k - 1]] = c
      BY <3>0, <3>1, <3>3 DEF Ordered
    <3>5. find_previous_connection(c) \in pool
      BY <3>4 DEF find_previous_connection
    <3>6. QED
      BY <1>1, <1>4, <2>1, <2>3, <3>5
  <2>4. QED
    BY <2>2, <2>3
<1>8. QED
  BY <1>6, <1>7 DEF ListInv

(* What leaves the list alone and closes or opens nothing.                 *)
LEMMA SameList ==
  ASSUME ListInv, UNCHANGED list,
         \A c \in Conn : state'[c] = "closed" <=> state[c] = "closed"
  PROVE  ListInv'
<1>1. pool' = pool
  BY DEF pool
<1>2. connection_pool' = connection_pool /\ next' = next
  BY DEF list
<1>3. QED
  BY ZenonT(60), <1>1, <1>2 DEF ListInv, ClosedUnlinked, PoolIsList

LEMMA EmptyOrdered ==
  ASSUME NEW P, P = {}, NEW nxt
  PROVE  Cardinality(P) = 0 /\ \E order : Ordered(P, 0, order, NULL, nxt)
<1>1. Ordered(P, 0, [i \in 1 .. 0 |-> NULL], NULL, nxt)
  BY DEF Ordered
<1>2. QED
  BY <1>1, FS_EmptySet

LEMMA ListStep == BaseInv /\ ListInv /\ [Next]_vars => ListInv'
<1> SUFFICES ASSUME BaseInv, ListInv, [Next]_vars PROVE ListInv'
  OBVIOUS
<1>0. state \in [Conn -> ProtocolState \cup {"closed"}]
  BY DEF BaseInv, TypeOK
<1>1. ASSUME NEW c \in Conn, Accept(c) PROVE ListInv'
  BY <1>1, AcceptKeepsList
<1>2. ASSUME NEW c \in Conn, Disconnect(c) \/ Finish(c) PROVE ListInv'
  BY <1>2, CloseKeepsList DEF Disconnect, Finish
<1>3. CASE Restart
  <2>1. /\ pool' = {} /\ connection_pool' = NULL /\ next' = [c \in Conn |-> NULL]
    BY <1>3 DEF Restart, pool
  <2>2. PoolIsList'
    BY <2>1, EmptyOrdered DEF PoolIsList, Ordered
  <2>3. ClosedUnlinked'
    BY <2>1 DEF ClosedUnlinked
  <2>4. QED
    BY <2>2, <2>3 DEF ListInv
<1>4. ASSUME NEW c \in Conn,
             \/ \E n \in Name : User(c, n)
             \/ PassAccepted(c)
             \/ \E matches \in BOOLEAN : PassRejected(c, matches)
             \/ OtherCommand(c)
             \/ Quit(c)
             \/ Hangup(c)
      PROVE  ListInv'
  BY <1>0, <1>4, SameList
     DEF User, PassAccepted, PassRejected, OtherCommand, send_back_to_ini, Quit, Hangup
<1>5. ASSUME NEW n \in Name, AddUser(n) PROVE ListInv'
  BY <1>5, SameList DEF AddUser
<1>6. CASE UNCHANGED vars
  BY <1>6, SameList DEF vars
<1>7. QED
  BY <1>1, <1>2, <1>3, <1>4, <1>5, <1>6 DEF Next, ConnStep

(* The linked list of connections runs through every connection once, in   *)
(* whatever order any number of them came and went.                        *)
THEOREM ListIsSound == Spec => []PoolIsList
<1>1. Init => BaseInv /\ ListInv
  <2> SUFFICES ASSUME Init PROVE ListInv
    BY BaseInit
  <2>1. pool = {}
    BY DEF Init, pool
  <2>2. PoolIsList
    BY <2>1, EmptyOrdered DEF Init, PoolIsList, Ordered
  <2>3. ClosedUnlinked
    BY DEF Init, ClosedUnlinked
  <2>4. QED
    BY <2>2, <2>3 DEF ListInv
<1>2. BaseInv /\ ListInv /\ [Next]_vars => BaseInv' /\ ListInv'
  BY BaseStep, ListStep
<1>3. ListInv => PoolIsList
  BY DEF ListInv
<1>4. QED
  BY <1>1, <1>2, <1>3, PTL DEF Spec

-----------------------------------------------------------------------------
(* Sums of octets.  TotalOctets adds in the order CHOOSE picks; what the   *)
(* server does to total_octets, one message at a time, is the same in any  *)
(* order.                                                                  *)

Pick(s) == CHOOSE x \in s : TRUE

SumStep(ms, g, s) == IF s = {} THEN 0 ELSE Octets[ms[Pick(s)]] + g[s \ {Pick(s)}]

SumFcn(ms, S) == CHOOSE g : g = [s \in SUBSET S |-> SumStep(ms, g, s)]

LEMMA TotalEmpty == ASSUME NEW ms PROVE TotalOctets(ms, {}) = 0
BY DEF TotalOctets, MapThenSumSet, MapThenFoldSet

LEMMA SumFcnTotal ==
  ASSUME NEW ms, NEW S PROVE TotalOctets(ms, S) = SumFcn(ms, S)[S]
BY DEF TotalOctets, MapThenSumSet, MapThenFoldSet, SumFcn, SumStep, Pick

LEMMA SumFcnUnfold ==
  ASSUME NEW ms, NEW S, IsFiniteSet(S)
  PROVE  \A T \in SUBSET S : SumFcn(ms, S)[T] = SumStep(ms, SumFcn(ms, S), T)
<1> DEFINE Small(n) == {s \in SUBSET S : Cardinality(s) <= n}
           Exists(n) == \E g : g = [s \in Small(n) |-> SumStep(ms, g, s)]
           Good == {n \in Nat : Exists(n)}
<1>0. \A s \in SUBSET S : IsFiniteSet(s) /\ Cardinality(s) \in Nat /\ Cardinality(s) <= Cardinality(S)
  BY FS_Subset, FS_CardinalityType
<1>1. 0 \in Good
  <2> DEFINE g == [s \in Small(0) |-> 0]
  <2>1. \A s \in Small(0) : s = {}
    BY <1>0, FS_EmptySet
  <2>2. g = [s \in Small(0) |-> SumStep(ms, g, s)]
    BY <2>1 DEF SumStep
  <2>3. QED
    BY <2>2
<1>2. ASSUME NEW n \in Nat, n \in Good PROVE n + 1 \in Good
  <2>1. PICK g : g = [s \in Small(n) |-> SumStep(ms, g, s)]
    BY <1>2
  <2> DEFINE h == [s \in Small(n + 1) |-> SumStep(ms, g, s)]
  <2>2. \A s \in Small(n) : s \in Small(n + 1)
    BY <1>0
  <2>3. ASSUME NEW s \in Small(n + 1), s # {} PROVE s \ {Pick(s)} \in Small(n)
    <3>1. Pick(s) \in s
      BY <2>3 DEF Pick
    <3>2. Cardinality(s \ {Pick(s)}) = Cardinality(s) - 1
      BY <1>0, <3>1, FS_RemoveElement
    <3>3. QED
      BY <1>0, <3>2
  <2>4. \A s \in Small(n) : h[s] = g[s]
    BY <2>1, <2>2
  <2>5. ASSUME NEW s \in Small(n + 1) PROVE h[s] = SumStep(ms, h, s)
    BY <2>3, <2>4 DEF SumStep
  <2>6. h = [s \in Small(n + 1) |-> SumStep(ms, h, s)]
    BY <2>5
  <2>7. Exists(n + 1)
    <3> HIDE DEF h, Small
    <3>1. QED
      BY <2>6
  <2>8. QED
    <3> HIDE DEF Exists
    <3>1. QED
      BY <2>7
<1>3. Cardinality(S) \in Good
  <2>1. Cardinality(S) \in Nat
    BY FS_CardinalityType
  <2> HIDE DEF Good
  <2>2. QED
    BY <1>1, <1>2, <2>1, NatInductionOnSet
<1>4. Small(Cardinality(S)) = SUBSET S
  BY <1>0
<1>5. PICK g : g = [s \in SUBSET S |-> SumStep(ms, g, s)]
  BY <1>3, <1>4
<1> DEFINE F == SumFcn(ms, S)
<1>6. F = [s \in SUBSET S |-> SumStep(ms, F, s)]
  BY <1>5 DEF SumFcn
<1>7. QED
  <2> HIDE DEF F
  <2>1. \A T \in SUBSET S : F[T] = SumStep(ms, F, T)
    BY <1>6
  <2>2. QED
    BY <2>1 DEF F

LEMMA SumFcnSubset ==
  ASSUME NEW ms, NEW S, IsFiniteSet(S), NEW U \in SUBSET S
  PROVE  SumFcn(ms, S)[U] = SumFcn(ms, U)[U]
<1> DEFINE G == {T \in SUBSET U : SumFcn(ms, S)[T] = SumFcn(ms, U)[T]}
<1>0. IsFiniteSet(U)
  BY FS_Subset
<1>1. ASSUME NEW T \in SUBSET U, \A x \in T : T \ {x} \in G
      PROVE  T \in G
  <2>1. /\ SumFcn(ms, S)[T] = SumStep(ms, SumFcn(ms, S), T)
        /\ SumFcn(ms, U)[T] = SumStep(ms, SumFcn(ms, U), T)
    BY <1>0, SumFcnUnfold
  <2>2. T # {} => Pick(T) \in T
    BY DEF Pick
  <2>3. SumStep(ms, SumFcn(ms, S), T) = SumStep(ms, SumFcn(ms, U), T)
    BY <1>1, <2>2 DEF SumStep
  <2>4. QED
    BY <2>1, <2>3
<1>2. U \in G
  <2> HIDE DEF G
  <2>1. QED
    BY <1>0, <1>1, SubsetInduction
<1>3. QED
  BY <1>2

LEMMA TotalUnfold ==
  ASSUME NEW ms, NEW S, IsFiniteSet(S), S # {}
  PROVE  /\ Pick(S) \in S
         /\ TotalOctets(ms, S) = Octets[ms[Pick(S)]] + TotalOctets(ms, S \ {Pick(S)})
<1>1. Pick(S) \in S
  BY DEF Pick
<1>2. TotalOctets(ms, S) = Octets[ms[Pick(S)]] + SumFcn(ms, S)[S \ {Pick(S)}]
  BY SumFcnTotal, SumFcnUnfold DEF SumStep
<1>3. SumFcn(ms, S)[S \ {Pick(S)}] = TotalOctets(ms, S \ {Pick(S)})
  BY SumFcnSubset, SumFcnTotal
<1>4. QED
  BY <1>1, <1>2, <1>3

LEMMA TotalType ==
  ASSUME NEW ms, NEW S, IsFiniteSet(S), \A i \in S : Octets[ms[i]] \in Nat
  PROVE  TotalOctets(ms, S) \in Nat
<1> DEFINE G == {T \in SUBSET S : TotalOctets(ms, T) \in Nat}
<1>1. ASSUME NEW T \in SUBSET S, \A x \in T : T \ {x} \in G
      PROVE  T \in G
  <2>1. CASE T = {}
    BY <2>1, TotalEmpty
  <2>2. CASE T # {}
    <3>1. IsFiniteSet(T)
      BY FS_Subset
    <3>2. /\ Pick(T) \in T
          /\ TotalOctets(ms, T) = Octets[ms[Pick(T)]] + TotalOctets(ms, T \ {Pick(T)})
      BY <2>2, <3>1, TotalUnfold
    <3>3. QED
      BY <1>1, <3>2
  <2>3. QED
    BY <2>1, <2>2
<1>2. S \in G
  <2> HIDE DEF G
  <2>1. QED
    BY <1>1, SubsetInduction
<1>3. QED
  BY <1>2

LEMMA TotalRemove ==
  ASSUME NEW ms, NEW S, IsFiniteSet(S), \A i \in S : Octets[ms[i]] \in Nat, NEW e \in S
  PROVE  TotalOctets(ms, S) = Octets[ms[e]] + TotalOctets(ms, S \ {e})
<1> DEFINE One(T, i) == TotalOctets(ms, T) = Octets[ms[i]] + TotalOctets(ms, T \ {i})
           G == {T \in SUBSET S : \A i \in T : One(T, i)}
<1>0. \A T \in SUBSET S : TotalOctets(ms, T) \in Nat
  BY FS_Subset, TotalType
<1>1. ASSUME NEW T \in SUBSET S, \A x \in T : T \ {x} \in G
      PROVE  T \in G
  <2> SUFFICES ASSUME NEW i \in T PROVE One(T, i)
    OBVIOUS
  <2> DEFINE p == Pick(T)
  <2>1. p \in T /\ One(T, p)
    BY FS_Subset, TotalUnfold
  <2>2. CASE i = p
    BY <2>1, <2>2
  <2>3. CASE i # p
    <3>1. One(T \ {p}, i) /\ One(T \ {i}, p)
      BY <1>1, <2>1, <2>3
    <3>2. (T \ {i}) \ {p} = (T \ {p}) \ {i}
      OBVIOUS
    <3>3. /\ TotalOctets(ms, T \ {i}) \in Nat
          /\ TotalOctets(ms, T \ {p}) \in Nat
          /\ TotalOctets(ms, (T \ {p}) \ {i}) \in Nat
      BY <1>0
    <3>4. Octets[ms[i]] \in Nat /\ Octets[ms[p]] \in Nat
      BY <2>1
    <3>5. TotalOctets(ms, T) = Octets[ms[p]] + (Octets[ms[i]] + TotalOctets(ms, (T \ {p}) \ {i}))
      BY <2>1, <3>1
    <3>6. TotalOctets(ms, T \ {i}) = Octets[ms[p]] + TotalOctets(ms, (T \ {p}) \ {i})
      BY <3>1, <3>2
    <3>7. QED
      <4> HIDE DEF p
      <4>1. QED
        BY <3>3, <3>4, <3>5, <3>6
  <2>4. QED
    BY <2>2, <2>3
<1>2. S \in G
  <2> HIDE DEF G
  <2>1. QED
    BY <1>1, SubsetInduction
<1>3. QED
  BY <1>2

(* Taking a part off a sum and adding it back gives the sum.               *)
LEMMA TotalSplit ==
  ASSUME NEW ms, NEW S, IsFiniteSet(S), \A i \in S : Octets[ms[i]] \in Nat,
         NEW D \in SUBSET S
  PROVE  TotalOctets(ms, S) = TotalOctets(ms, S \ D) + TotalOctets(ms, D)
<1> DEFINE Split(T) == TotalOctets(ms, S) = TotalOctets(ms, S \ T) + TotalOctets(ms, T)
           G == {T \in SUBSET D : Split(T)}
<1>0. \A T \in SUBSET S : IsFiniteSet(T) /\ TotalOctets(ms, T) \in Nat
  BY FS_Subset, TotalType
<1>1. ASSUME NEW T \in SUBSET D, \A x \in T : T \ {x} \in G
      PROVE  T \in G
  <2>1. CASE T = {}
    <3>1. S \ T = S
      BY <2>1
    <3>2. Split(T)
      BY <2>1, <3>1, <1>0, TotalEmpty
    <3>3. QED
      BY <3>2
  <2>2. ASSUME NEW x \in T PROVE Split(T)
    <3>1. Split(T \ {x})
      BY <1>1, <2>2
    <3>2. TotalOctets(ms, T) = Octets[ms[x]] + TotalOctets(ms, T \ {x})
      BY <1>0, <2>2, TotalRemove
    <3>3. TotalOctets(ms, S \ (T \ {x})) = Octets[ms[x]] + TotalOctets(ms, (S \ (T \ {x})) \ {x})
      <4>1. x \in S \ (T \ {x}) /\ S \ (T \ {x}) \in SUBSET S
        BY <2>2
      <4>2. QED
        BY <1>0, <4>1, TotalRemove
    <3>4. (S \ (T \ {x})) \ {x} = S \ T
      BY <2>2
    <3>5. /\ TotalOctets(ms, S) \in Nat /\ TotalOctets(ms, S \ T) \in Nat
          /\ TotalOctets(ms, T \ {x}) \in Nat /\ Octets[ms[x]] \in Nat
      BY <1>0, <2>2
    <3>6. TotalOctets(ms, S \ (T \ {x})) = Octets[ms[x]] + TotalOctets(ms, S \ T)
      BY <3>3, <3>4
    <3>7. QED
      BY <3>1, <3>2, <3>5, <3>6
  <2>3. QED
    BY <2>1, <2>2
<1>2. D \in G
  <2> HIDE DEF G
  <2>1. IsFiniteSet(D)
    BY <1>0
  <2>2. QED
    BY <1>1, <2>1, SubsetInduction
<1>3. QED
  BY <1>2

-----------------------------------------------------------------------------
(* What every mail_info satisfies: the marks are of its messages, and the  *)
(* counters are those of the messages that are not marked.                 *)
MailInfo == [is_dir_valid : BOOLEAN, mails : Seq(File), deleted : SUBSET Nat,
             current_count : Nat, total_octets : Nat]

Unmarked(m) == (DOMAIN m.mails) \ m.deleted

Consistent(m) ==
  /\ m \in MailInfo
  /\ Len(m.mails) <= MaxMails
  /\ m.deleted \subseteq DOMAIN m.mails
  /\ ~m.is_dir_valid => m.deleted = {}
  /\ m.current_count = Cardinality(Unmarked(m))
  /\ m.total_octets = TotalOctets(m.mails, Unmarked(m))

MailInv ==
  /\ directory \in [Name -> SUBSET File]
  /\ mail_info \in [Conn -> MailInfo]
  /\ reply \in [Conn -> {"none", "+OK", "-ERR", "+OK -ERR"}]
  /\ \A c \in Conn : Consistent(mail_info[c])

LEMMA MailsFacts ==
  ASSUME NEW m \in MailInfo
  PROVE  /\ IsFiniteSet(DOMAIN m.mails)
         /\ Cardinality(DOMAIN m.mails) = Len(m.mails)
         /\ \A i \in DOMAIN m.mails : m.mails[i] \in File /\ Octets[m.mails[i]] \in Nat
<1>1. m.mails \in Seq(File)
  BY DEF MailInfo
<1>2. DOMAIN m.mails = 1 .. Len(m.mails) /\ Len(m.mails) \in Nat
  BY <1>1
<1>3. IsFiniteSet(1 .. Len(m.mails)) /\ Cardinality(1 .. Len(m.mails)) = Len(m.mails)
  BY <1>2, FS_Interval
<1>4. \A i \in DOMAIN m.mails : m.mails[i] \in File
  BY <1>1
<1>5. QED
  BY <1>2, <1>3, <1>4, FileAssumption

LEMMA NoMailConsistent == Consistent(NoMail)
<1>1. NoMail \in MailInfo
  BY DEF NoMail, MailInfo
<1>2. Unmarked(NoMail) = {}
  BY DEF NoMail, Unmarked
<1>3. Len(NoMail.mails) <= MaxMails
  BY MailsAssumption DEF NoMail
<1>4. QED
  BY <1>1, <1>2, <1>3, FS_EmptySet, TotalEmpty DEF Consistent, NoMail

(* PASS counts what it lists.                                              *)
LEMMA ListingConsistent ==
  ASSUME NEW D \in SUBSET File, NEW m \in initialize_mails(D)
  PROVE  Consistent(m) /\ m.deleted = {} /\ Range(m.mails) \subseteq D
<1>1. CASE m = NoMail
  BY <1>1, NoMailConsistent DEF NoMail, Range
<1>2. ASSUME NEW ms \in Listings(D),
             m = [is_dir_valid |-> TRUE, mails |-> ms, deleted |-> {},
                  current_count |-> Len(ms), total_octets |-> TotalOctets(ms, DOMAIN ms)]
      PROVE  Consistent(m) /\ m.deleted = {} /\ Range(m.mails) \subseteq D
  <2> DEFINE n == Min({Cardinality(D), MaxMails})
  <2>1. n \in Nat /\ n <= MaxMails
    <3>1. Cardinality(D) \in Nat
      BY FileAssumption, FS_Subset, FS_CardinalityType
    <3>2. \E x \in {Cardinality(D), MaxMails} : \A y \in {Cardinality(D), MaxMails} : x =< y
      BY <3>1, MailsAssumption
    <3>3. n \in {Cardinality(D), MaxMails} /\ \A y \in {Cardinality(D), MaxMails} : n =< y
      BY <3>2 DEF Min
    <3> HIDE DEF n
    <3>4. QED
      BY <3>1, <3>3, MailsAssumption
  <2> HIDE DEF n
  <2>2. ms \in [1 .. n -> D]
    BY <1>2 DEF n, Listings, Injection
  <2>3. ms \in Seq(File) /\ DOMAIN ms = 1 .. n /\ Len(ms) = n
    BY <2>1, <2>2
  <2>4. IsFiniteSet(DOMAIN ms) /\ Cardinality(DOMAIN ms) = n
    BY <2>1, <2>3, FS_Interval
  <2>5. \A i \in DOMAIN ms : Octets[ms[i]] \in Nat
    BY <2>2, FileAssumption
  <2>6. TotalOctets(ms, DOMAIN ms) \in Nat
    BY <2>4, <2>5, TotalType
  <2>7. m \in MailInfo
    BY <1>2, <2>1, <2>3, <2>6 DEF MailInfo
  <2>8. Unmarked(m) = DOMAIN ms
    BY <1>2 DEF Unmarked
  <2>9. Range(ms) \subseteq D
    BY <2>2 DEF Range
  <2>10. m.mails = ms /\ Len(m.mails) <= MaxMails
    BY <1>2, <2>1, <2>3
  <2>11. QED
    BY <1>2, <2>3, <2>4, <2>7, <2>8, <2>9, <2>10 DEF Consistent
<1>3. QED
  BY <1>1, <1>2 DEF initialize_mails

(* DELE takes one message from both counters.                              *)
LEMMA MarkConsistent ==
  ASSUME NEW m, Consistent(m), m.is_dir_valid, NEW n \in Unmarked(m)
  PROVE  Consistent([m EXCEPT !.deleted = @ \cup {n},
                              !.current_count = @ - 1,
                              !.total_octets = @ - Octets[m.mails[n]]])
<1> DEFINE k == [m EXCEPT !.deleted = @ \cup {n},
                          !.current_count = @ - 1,
                          !.total_octets = @ - Octets[m.mails[n]]]
<1>0. m \in MailInfo /\ n \in DOMAIN m.mails /\ n \in Nat
  BY DEF Consistent, Unmarked, MailInfo
<1>1. IsFiniteSet(Unmarked(m)) /\ \A i \in Unmarked(m) : Octets[m.mails[i]] \in Nat
  BY <1>0, MailsFacts, FS_Subset DEF Unmarked
<1>2. /\ k.mails = m.mails
      /\ k.deleted = m.deleted \cup {n}
      /\ k.is_dir_valid = m.is_dir_valid
      /\ k.current_count = m.current_count - 1
      /\ k.total_octets = m.total_octets - Octets[m.mails[n]]
  BY <1>0 DEF MailInfo
<1>3. Unmarked(k) = Unmarked(m) \ {n}
  BY <1>2 DEF Unmarked
<1>4. /\ Cardinality(Unmarked(m)) - 1 = Cardinality(Unmarked(k))
      /\ Cardinality(Unmarked(k)) \in Nat
  BY <1>1, <1>3, FS_RemoveElement, FS_CardinalityType
<1>5. /\ TotalOctets(m.mails, Unmarked(m)) - Octets[m.mails[n]] = TotalOctets(m.mails, Unmarked(k))
      /\ TotalOctets(m.mails, Unmarked(k)) \in Nat
  <2>1. TotalOctets(m.mails, Unmarked(m)) = Octets[m.mails[n]] + TotalOctets(m.mails, Unmarked(k))
    BY <1>1, <1>3, TotalRemove
  <2>2. TotalOctets(m.mails, Unmarked(k)) \in Nat
    BY <1>1, <1>3, FS_RemoveElement, TotalType
  <2>3. QED
    BY <1>1, <2>1, <2>2
<1>6. k.current_count \in Nat /\ k.total_octets \in Nat
  BY <1>2, <1>4, <1>5 DEF Consistent
<1>7. k \in MailInfo
  BY <1>0, <1>6 DEF MailInfo
<1>8. QED
  <2> HIDE DEF k
  <2>1. Consistent(k)
    BY <1>0, <1>2, <1>4, <1>5, <1>7 DEF Consistent
  <2>2. QED
    BY <2>1 DEF k

(* RSET adds back what the marks had taken off.                            *)
LEMMA RestoreConsistent ==
  ASSUME NEW m, Consistent(m)
  PROVE  Consistent([m EXCEPT !.deleted = {},
                              !.current_count = @ + Cardinality(m.deleted),
                              !.total_octets = @ + TotalOctets(m.mails, m.deleted)])
<1> DEFINE k == [m EXCEPT !.deleted = {},
                          !.current_count = @ + Cardinality(m.deleted),
                          !.total_octets = @ + TotalOctets(m.mails, m.deleted)]
           all == DOMAIN m.mails
<1>0. m \in MailInfo /\ m.deleted \in SUBSET all
  BY DEF Consistent
<1>1. IsFiniteSet(all) /\ \A i \in all : Octets[m.mails[i]] \in Nat
  BY <1>0, MailsFacts
<1>2. /\ k.mails = m.mails
      /\ k.deleted = {}
      /\ k.current_count = m.current_count + Cardinality(m.deleted)
      /\ k.total_octets = m.total_octets + TotalOctets(m.mails, m.deleted)
  BY <1>0 DEF MailInfo
<1>3. Unmarked(k) = all
  BY <1>2 DEF Unmarked
<1>4. /\ Cardinality(all) = Cardinality(Unmarked(m)) + Cardinality(m.deleted)
      /\ Cardinality(all) \in Nat
  <2>1. IsFiniteSet(m.deleted) /\ Cardinality(m.deleted) \in Nat /\ Cardinality(all) \in Nat
    BY <1>0, <1>1, FS_Subset, FS_CardinalityType
  <2>2. all \cap m.deleted = m.deleted
    BY <1>0
  <2>3. Cardinality(Unmarked(m)) = Cardinality(all) - Cardinality(m.deleted)
    BY <1>1, <2>2, FS_Difference DEF Unmarked
  <2>4. QED
    BY <2>1, <2>3
<1>5. /\ TotalOctets(m.mails, all) = TotalOctets(m.mails, Unmarked(m)) + TotalOctets(m.mails, m.deleted)
      /\ TotalOctets(m.mails, all) \in Nat
  BY <1>0, <1>1, TotalSplit, TotalType DEF Unmarked
<1>6. k.current_count = Cardinality(Unmarked(k)) /\ k.total_octets = TotalOctets(k.mails, Unmarked(k))
  BY <1>2, <1>3, <1>4, <1>5 DEF Consistent
<1>7. k.current_count \in Nat /\ k.total_octets \in Nat
  BY <1>2, <1>3, <1>4, <1>5, <1>6
<1>8. k \in MailInfo
  BY <1>0, <1>7 DEF MailInfo
<1>9. QED
  <2> HIDE DEF k
  <2>1. Consistent(k)
    BY <1>2, <1>6, <1>8 DEF Consistent
  <2>2. QED
    BY <2>1 DEF k

-----------------------------------------------------------------------------
(* The mail changes nothing of the sessions: what Pop3Server does to their *)
(* variables is a step of Sessions, so what holds of Sessions holds here.  *)
LEMMA MailStepIsStep == [MailNext]_allVars => [Next]_vars
<1> SUFFICES ASSUME [MailNext]_allVars PROVE [Next]_vars
  OBVIOUS
<1>1. ASSUME NEW c \in Conn, ServerStep(c) PROVE [Next]_vars
  <2>1. CASE AuthStep(c)
    BY <2>1 DEF AuthStep, Next, ConnStep
  <2>2. CASE Pass(c)
    BY <2>2 DEF Pass, Next, ConnStep
  <2>3. CASE \E n \in 0 .. MaxMails + 1 : delete_mail(c, n) \/ retrieve_mail(c, n)
    BY <2>3 DEF delete_mail, retrieve_mail
  <2>4. CASE restore_mail(c)
    BY <2>4 DEF restore_mail
  <2>5. CASE \E kept \in SUBSET File : QuitUpdate(c, kept)
    BY <2>5 DEF QuitUpdate, Next, ConnStep
  <2>6. CASE QuitPlain(c)
    BY <2>6 DEF QuitPlain, Next, ConnStep
  <2>7. CASE EndOfConnection(c)
    BY <2>7 DEF EndOfConnection, Next, ConnStep
  <2>8. CASE \E i \in 1 .. MaxMails, kept \in SUBSET File : CrashInQuit(c, i, kept)
    BY <2>8 DEF CrashInQuit, ForgetMail, Next
  <2>9. QED
    BY <1>1, <2>1, <2>2, <2>3, <2>4, <2>5, <2>6, <2>7, <2>8 DEF ServerStep
<1>2. ASSUME NEW n \in Name, AddUser(n) PROVE [Next]_vars
  BY <1>2 DEF Next
<1>3. CASE Crash
  BY <1>3 DEF Crash, ForgetMail, Next
<1>4. ASSUME NEW u \in Name, NEW f \in File, Deliver(u, f) \/ Remove(u, f) PROVE [Next]_vars
  BY <1>4 DEF Deliver, Remove
<1>5. CASE UNCHANGED allVars
  BY <1>5 DEF allVars
<1>6. QED
  BY <1>1, <1>2, <1>3, <1>4, <1>5 DEF MailNext

LEMMA MailInvInit == MailInit => MailInv
<1> SUFFICES ASSUME MailInit PROVE MailInv
  OBVIOUS
<1>1. NoMail \in MailInfo
  BY NoMailConsistent DEF Consistent
<1>2. QED
  BY <1>1, NoMailConsistent DEF MailInit, MailInv

(* A step that gives c another consistent copy, or none.                   *)
LEMMA OneMailInfo ==
  ASSUME MailInv, NEW c \in Conn, NEW m, Consistent(m),
         mail_info' = [mail_info EXCEPT ![c] = m],
         directory' \in [Name -> SUBSET File],
         reply' \in [Conn -> {"none", "+OK", "-ERR", "+OK -ERR"}]
  PROVE  MailInv'
<1>1. mail_info' \in [Conn -> MailInfo]
  BY DEF MailInv, Consistent
<1>2. \A d \in Conn : mail_info'[d] = IF d = c THEN m ELSE mail_info[d]
  BY DEF MailInv
<1>3. \A d \in Conn : Consistent(mail_info'[d])
  BY <1>2 DEF MailInv
<1>4. QED
  BY <1>1, <1>3 DEF MailInv

(* A step that leaves every copy alone.                                    *)
LEMMA SameMailInfo ==
  ASSUME MailInv, UNCHANGED mail_info,
         directory' \in [Name -> SUBSET File],
         reply' \in [Conn -> {"none", "+OK", "-ERR", "+OK -ERR"}]
  PROVE  MailInv'
BY DEF MailInv

LEMMA MailInvStep == MailInv /\ BaseInv /\ [MailNext]_allVars => MailInv'
<1> SUFFICES ASSUME MailInv, BaseInv, [MailNext]_allVars PROVE MailInv'
  OBVIOUS
<1> DEFINE Replies == [Conn -> {"none", "+OK", "-ERR", "+OK -ERR"}]
<1>0. /\ directory \in [Name -> SUBSET File]
      /\ mail_info \in [Conn -> MailInfo]
      /\ reply \in Replies
      /\ \A c \in Conn : Consistent(mail_info[c])
  BY DEF MailInv
<1>1. ASSUME NEW c \in Conn, AuthStep(c) PROVE MailInv'
  BY <1>0, <1>1, SameMailInfo DEF AuthStep, mailVars
<1>2. ASSUME NEW c \in Conn, Pass(c) PROVE MailInv'
  <2>1. username[c] \in Name
    BY <1>2 DEF Pass, PassAccepted, login_succeeds, BaseInv, TypeOK
  <2>2. PICK m \in initialize_mails(directory[username[c]]) :
          mail_info' = [mail_info EXCEPT ![c] = m]
    BY <1>2 DEF Pass
  <2>3. Consistent(m)
    BY <1>0, <2>1, ListingConsistent
  <2>4. QED
    BY <1>0, <1>2, <2>2, <2>3, OneMailInfo DEF Pass
<1>3. ASSUME NEW c \in Conn, NEW n \in 0 .. MaxMails + 1, delete_mail(c, n) PROVE MailInv'
  <2>1. CASE VALID_MAIL(c, n)
    <3> DEFINE m == mail_info[c]
               k == [m EXCEPT !.deleted = @ \cup {n},
                              !.current_count = @ - 1,
                              !.total_octets = @ - Octets[m.mails[n]]]
    <3>1. mail_info' = [mail_info EXCEPT ![c] = k]
      BY <1>0, <1>3, <2>1 DEF delete_mail, MailInfo
    <3>2. Consistent(k)
      BY <1>0, <2>1, MarkConsistent DEF VALID_MAIL, Unmarked
    <3>3. directory' = directory /\ reply' \in Replies
      BY <1>0, <1>3, <2>1 DEF delete_mail
    <3>4. QED
      <4> HIDE DEF k
      <4>1. QED
        BY <1>0, <3>1, <3>2, <3>3, OneMailInfo
  <2>2. CASE ~VALID_MAIL(c, n)
    BY <1>0, <1>3, <2>2, SameMailInfo DEF delete_mail
  <2>3. QED
    BY <2>1, <2>2
<1>4. ASSUME NEW c \in Conn, NEW n \in 0 .. MaxMails + 1, retrieve_mail(c, n) PROVE MailInv'
  <2>1. reply' \in Replies
    BY <1>0, <1>4 DEF retrieve_mail
  <2>2. QED
    BY <1>0, <1>4, <2>1, SameMailInfo DEF retrieve_mail
<1>5. ASSUME NEW c \in Conn, restore_mail(c) PROVE MailInv'
  <2> DEFINE m == mail_info[c]
             k == [m EXCEPT !.deleted = {},
                            !.current_count = @ + Cardinality(m.deleted),
                            !.total_octets = @ + TotalOctets(m.mails, m.deleted)]
  <2>1. mail_info' = [mail_info EXCEPT ![c] = k]
    BY <1>0, <1>5 DEF restore_mail, MailInfo
  <2>2. Consistent(k)
    BY <1>0, RestoreConsistent
  <2>3. directory' = directory /\ reply' \in Replies
    BY <1>0, <1>5 DEF restore_mail
  <2>4. QED
    <3> HIDE DEF k
    <3>1. QED
      BY <1>0, <2>1, <2>2, <2>3, OneMailInfo
<1>6. ASSUME NEW c \in Conn, NEW kept \in SUBSET File, QuitUpdate(c, kept) PROVE MailInv'
  <2>1. reply' \in Replies
    BY <1>0, <1>6 DEF QuitUpdate, quit_reply
  <2>2. directory' \in [Name -> SUBSET File]
    BY <1>0, <1>6 DEF QuitUpdate, left_by_quit
  <2>3. QED
    BY <1>6, <2>1, <2>2, SameMailInfo DEF QuitUpdate
<1>7. ASSUME NEW c \in Conn, QuitPlain(c) PROVE MailInv'
  BY <1>0, <1>7, SameMailInfo DEF QuitPlain
<1>8. ASSUME NEW c \in Conn, EndOfConnection(c) PROVE MailInv'
  BY <1>0, <1>8, OneMailInfo, NoMailConsistent DEF EndOfConnection, free_mail_info
<1>9. ASSUME ForgetMail, directory' \in [Name -> SUBSET File] PROVE MailInv'
  <2>1. \A c \in Conn : mail_info'[c] = NoMail
    BY <1>9 DEF ForgetMail
  <2>2. NoMail \in MailInfo
    BY NoMailConsistent DEF Consistent
  <2>3. mail_info' \in [Conn -> MailInfo] /\ reply' \in Replies
    BY <1>9, <2>2 DEF ForgetMail
  <2>4. QED
    BY <1>9, <2>1, <2>3, NoMailConsistent DEF MailInv
<1>10. ASSUME NEW c \in Conn, NEW i \in 1 .. MaxMails, NEW kept \in SUBSET File,
              CrashInQuit(c, i, kept)
       PROVE  MailInv'
  <2>1. directory' \in [Name -> SUBSET File]
    BY <1>0, <1>10 DEF CrashInQuit, left_by_loop
  <2>2. QED
    BY <1>9, <1>10, <2>1 DEF CrashInQuit
<1>11. CASE Crash
  BY <1>0, <1>9, <1>11 DEF Crash
<1>12. ASSUME NEW u \in Name, NEW f \in File, Deliver(u, f) \/ Remove(u, f) PROVE MailInv'
  <2>1. directory' \in [Name -> SUBSET File]
    BY <1>0, <1>12 DEF Deliver, Remove
  <2>2. QED
    BY <1>0, <1>12, <2>1, SameMailInfo DEF Deliver, Remove
<1>13. CASE UNCHANGED mailVars
  BY <1>0, <1>13, SameMailInfo DEF mailVars
<1>14. QED
  BY <1>1, <1>2, <1>3, <1>4, <1>5, <1>6, <1>7, <1>8, <1>10, <1>11, <1>12, <1>13
     DEF MailNext, ServerStep, allVars

(* The inductive invariant of the whole server.                            *)
ServerInv == LockInv /\ MailInv

LEMMA ServerInvariant == MailSpec => []ServerInv
<1>1. MailInit => ServerInv
  <2>1. MailInit => Init
    BY DEF MailInit
  <2>2. Init => LockInv
    BY BaseInit DEF Init, LockInv, ActiveAreUsers, FlagHasOwner
  <2>3. QED
    BY <2>1, <2>2, MailInvInit DEF ServerInv
<1>2. ServerInv /\ [MailNext]_allVars => ServerInv'
  BY MailStepIsStep, LockStep, MailInvStep DEF ServerInv, LockInv
<1>3. QED
  BY <1>1, <1>2, PTL DEF MailSpec

(* The counters STAT and LIST show are the number and the size of the      *)
(* messages that are not marked, and being unsigned they never wrap, for   *)
(* every sequence of DELE, RSET and sessions.                              *)
THEOREM CountersAgree == MailSpec => []MailTypeOK /\ []CountsMatchMarks
<1>1. ServerInv => MailTypeOK /\ CountsMatchMarks
  BY DEF ServerInv, MailInv, Consistent, Unmarked, MailInfo, MailTypeOK, CountsMatchMarks
<1>2. QED
  BY <1>1, ServerInvariant, PTL

-----------------------------------------------------------------------------
(* The steps that change directories.  A step of the server that does is   *)
(* the QUIT of some connection, whole or cut short.                        *)
LEMMA DirectoryChanges ==
  ASSUME [MailNext]_allVars, directory' # directory
  PROVE  \/ UNCHANGED <<vars, mail_info, reply>>
         \/ \E c \in Conn, kept \in SUBSET File : QuitUpdate(c, kept)
         \/ \E c \in Conn, i \in 1 .. MaxMails, kept \in SUBSET File : CrashInQuit(c, i, kept)
BY DEF MailNext, ServerStep, AuthStep, Pass, delete_mail, retrieve_mail, restore_mail,
       QuitPlain, EndOfConnection, free_mail_info, Crash, Deliver, Remove, allVars, mailVars

(* The server removes nothing but what a session marked, only in its QUIT  *)
(* and only in its own user's directory, even if the process ends there.   *)
THEOREM RemovesOnlyInQuit == MailSpec => OnlyQuitRemoves
<1>1. ServerInv /\ [MailNext]_allVars => RemovesAsQuit
  <2> SUFFICES ASSUME ServerInv, [MailNext]_allVars, directory' # directory,
                      <<vars, mail_info, reply>>' # <<vars, mail_info, reply>>
               PROVE  \E c \in Conn :
                        /\ state[c] = "TRANSACTION"
                        /\ state'[c] = "CLIENT_FINISHED" \/ pool' = {}
                        /\ \A u \in Name :
                             Lost(u) \subseteq IF u = username[c] THEN Deleted(c) ELSE {}
    BY DEF RemovesAsQuit
  <2>0. directory \in [Name -> SUBSET File] /\ state \in [Conn -> ProtocolState \cup {"closed"}]
    BY DEF ServerInv, LockInv, BaseInv, TypeOK, MailInv
  <2>1. ASSUME NEW c \in Conn, NEW kept \in SUBSET File, QuitUpdate(c, kept)
        PROVE  /\ state[c] = "TRANSACTION"
               /\ state'[c] = "CLIENT_FINISHED"
               /\ \A u \in Name : Lost(u) \subseteq IF u = username[c] THEN Deleted(c) ELSE {}
    BY <2>0, <2>1 DEF QuitUpdate, Quit, Lost, left_by_quit
  <2>2. ASSUME NEW c \in Conn, NEW i \in 1 .. MaxMails, NEW kept \in SUBSET File,
               CrashInQuit(c, i, kept)
        PROVE  /\ state[c] = "TRANSACTION"
               /\ pool' = {}
               /\ \A u \in Name : Lost(u) \subseteq IF u = username[c] THEN Deleted(c) ELSE {}
    <3>1. state[c] = "TRANSACTION" /\ pool' = {}
      BY <2>2 DEF CrashInQuit, ForgetMail, Restart, pool
    <3>2. directory' = [directory EXCEPT ![username[c]] = left_by_loop(c, i, kept)]
      BY <2>2 DEF CrashInQuit
    <3>3. directory[username[c]] \ left_by_loop(c, i, kept) \subseteq Deleted(c)
      BY DEF left_by_loop, Deleted
    <3>4. \A u \in Name : Lost(u) \subseteq IF u = username[c] THEN Deleted(c) ELSE {}
      BY <2>0, <3>2, <3>3 DEF Lost
    <3>5. QED
      BY <3>1, <3>4
  <2>3. QED
    BY <2>1, <2>2, DirectoryChanges
<1>2. QED
  BY <1>1, ServerInvariant, PTL DEF MailSpec, OnlyQuitRemoves

(* A session that is over after a step either quit in it, broke off in it, *)
(* or went with the process.                                               *)
LEMMA SessionEnds ==
  ASSUME BaseInv, [MailNext]_allVars, NEW c \in Conn,
         state[c] = "TRANSACTION", state'[c] # "TRANSACTION"
  PROVE  \/ /\ state'[c] = "CLIENT_FINISHED"
            /\ (\E kept \in SUBSET File : QuitUpdate(c, kept)) \/ QuitPlain(c)
         \/ state'[c] = "closed" /\ EndOfConnection(c)
         \/ Crash
         \/ \E d \in Conn, i \in 1 .. MaxMails, kept \in SUBSET File : CrashInQuit(d, i, kept)
<1>0. state \in [Conn -> ProtocolState \cup {"closed"}]
  BY DEF BaseInv, TypeOK
<1>1. ASSUME NEW d \in Conn, AuthStep(d) PROVE FALSE
  BY <1>0, <1>1 DEF AuthStep, Accept, User, PassRejected, send_back_to_ini, OtherCommand, Hangup
<1>2. ASSUME NEW d \in Conn, Pass(d) PROVE FALSE
  BY <1>0, <1>2 DEF Pass, PassAccepted
<1>3. ASSUME UNCHANGED vars PROVE FALSE
  BY <1>3 DEF vars
<1>4. ASSUME NEW d \in Conn, Quit(d) PROVE d = c /\ state'[c] = "CLIENT_FINISHED"
  BY <1>0, <1>4 DEF Quit
<1>5. ASSUME NEW d \in Conn, EndOfConnection(d) PROVE d = c /\ state'[c] = "closed"
  BY <1>0, <1>5 DEF EndOfConnection, Disconnect, Finish, pop3_close_handler, destroy_connection_info
<1>6. ASSUME NEW n \in Name, AddUser(n) PROVE FALSE
  BY <1>6 DEF AddUser
<1>7. ASSUME NEW d \in Conn, ServerStep(d)
      PROVE  \/ (\E kept \in SUBSET File : QuitUpdate(d, kept)) \/ QuitPlain(d)
             \/ EndOfConnection(d)
             \/ \E i \in 1 .. MaxMails, kept \in SUBSET File : CrashInQuit(d, i, kept)
  BY <1>1, <1>2, <1>3, <1>7 DEF ServerStep, delete_mail, retrieve_mail, restore_mail
<1>8. \/ \E d \in Conn : ServerStep(d)
      \/ Crash
  BY <1>3, <1>6 DEF MailNext, Deliver, Remove, allVars
<1>9. QED
  BY <1>4, <1>5, <1>7, <1>8 DEF QuitUpdate, QuitPlain

(* QUIT answers +OK only if no message the client deleted is left, whatever *)
(* the system refused to remove and other programs removed before.         *)
THEOREM QuitIsTruthful == MailSpec => QuitTellsTheTruth
<1>1. ServerInv /\ [MailNext]_allVars => SaysWhatItDid
  <2> SUFFICES ASSUME ServerInv, [MailNext]_allVars, NEW c \in Conn,
                      state[c] = "TRANSACTION", state'[c] = "CLIENT_FINISHED",
                      reply'[c] = "+OK"
               PROVE  Deleted(c) = {} \/ Deleted(c) \cap directory'[username[c]] = {}
    BY DEF SaysWhatItDid
  <2>0. /\ directory \in [Name -> SUBSET File]
        /\ reply \in [Conn -> {"none", "+OK", "-ERR", "+OK -ERR"}]
        /\ Consistent(mail_info[c])
        /\ state \in [Conn -> ProtocolState \cup {"closed"}]
    BY DEF ServerInv, LockInv, BaseInv, TypeOK, MailInv
  <2>1. \/ \E kept \in SUBSET File : QuitUpdate(c, kept)
        \/ QuitPlain(c)
    <3>1. ~Crash /\ \A d \in Conn, i \in 1 .. MaxMails, kept \in SUBSET File :
                        ~CrashInQuit(d, i, kept)
      BY DEF Crash, CrashInQuit, ForgetMail, Restart
    <3>2. QED
      BY <3>1, SessionEnds DEF ServerInv, LockInv
  <2>2. ASSUME NEW kept \in SUBSET File, QuitUpdate(c, kept)
        PROVE  Deleted(c) \cap directory'[username[c]] = {}
    <3>1. Deleted(c) \subseteq directory[username[c]] /\ kept = {}
      BY <2>0, <2>2 DEF QuitUpdate, quit_reply
    <3>2. username[c] \in Name
      BY DEF ServerInv, LockInv, BaseInv, TypeOK, NamedState
    <3>3. directory'[username[c]] = directory[username[c]] \ (Deleted(c) \ kept)
      BY <2>0, <2>2, <3>2 DEF QuitUpdate, left_by_quit
    <3>4. QED
      BY <3>1, <3>3
  <2>3. CASE QuitPlain(c)
    BY <2>0, <2>3 DEF QuitPlain, Consistent, Deleted
  <2>4. QED
    BY <2>1, <2>2, <2>3
<1>2. QED
  BY <1>1, ServerInvariant, PTL DEF MailSpec, QuitTellsTheTruth

-----------------------------------------------------------------------------
(* From here on no client leaves between USER and PASS, so that no two     *)
(* sessions share an account.                                              *)
LEMMA ExclusiveInvariant ==
  ASSUME ~LeaveUnauthenticated
  PROVE  MailSpec => []Exclusive
<1>1. MailInit => Exclusive
  BY DEF MailInit, Init, Exclusive, InSession
<1>2. ServerInv /\ Exclusive /\ [MailNext]_allVars => Exclusive'
  BY MailStepIsStep, ExclusiveStep DEF ServerInv
<1>3. QED
  BY <1>1, <1>2, ServerInvariant, PTL DEF MailSpec

(* What a session was shown is not taken away by the end of another one.   *)
THEOREM ShownMailStays ==
  ASSUME ~LeaveUnauthenticated
  PROVE  MailSpec => SessionMailStays
<1>1. ServerInv /\ Exclusive /\ [MailNext]_allVars => KeepsMailOfOthers
  <2> SUFFICES ASSUME ServerInv, Exclusive, [MailNext]_allVars,
                      NEW c \in Conn, NEW d \in Conn,
                      state[c] = "TRANSACTION", state'[c] = "TRANSACTION",
                      state[d] # state'[d]
               PROVE  directory[username[c]] \subseteq directory'[username[c]]
    BY DEF KeepsMailOfOthers
  <2>0. /\ directory \in [Name -> SUBSET File]
        /\ state \in [Conn -> ProtocolState \cup {"closed"}]
        /\ username[c] \in Name /\ username[c] # NoName
    BY NameAssumption DEF ServerInv, LockInv, BaseInv, TypeOK, NamedState, MailInv
  <2>1. CASE UNCHANGED <<vars, mail_info, reply>>
    BY <2>1 DEF vars
  <2>2. ASSUME NEW e \in Conn, NEW kept \in SUBSET File, QuitUpdate(e, kept)
        PROVE  directory'[username[c]] = directory[username[c]]
    <3>1. state[e] = "TRANSACTION" /\ c # e
      BY <2>0, <2>2 DEF QuitUpdate, Quit
    <3>2. InSession(c) /\ (username[e] # NoName => InSession(e))
      BY <2>0, <3>1 DEF InSession
    <3>3. username[c] # username[e]
      BY <2>0, <3>1, <3>2 DEF Exclusive
    <3>4. QED
      BY <2>0, <2>2, <3>3 DEF QuitUpdate
  <2>3. ASSUME NEW e \in Conn, NEW i \in 1 .. MaxMails, NEW kept \in SUBSET File,
               CrashInQuit(e, i, kept)
        PROVE  FALSE
    BY <2>3 DEF CrashInQuit, ForgetMail, Restart
  <2>4. QED
    BY <2>1, <2>2, <2>3, DirectoryChanges
<1>2. QED
  BY <1>1, ServerInvariant, ExclusiveInvariant, PTL DEF MailSpec, SessionMailStays

-----------------------------------------------------------------------------
(* The refinement.  A step that does not touch the sessions in TRANSACTION *)
(* is invisible to MailAccess.                                             *)
LEMMA Invisible ==
  ASSUME \A c \in Conn :
           /\ state'[c] = "TRANSACTION" <=> state[c] = "TRANSACTION"
           /\ state[c] = "TRANSACTION" =>
                username'[c] = username[c] /\ mail_info'[c] = mail_info[c]
  PROVE  UNCHANGED <<opened, shown, wanted>>
<1>1. \A c \in Conn : state[c] = "TRANSACTION" => Deleted(c)' = Deleted(c)
  BY DEF Deleted
<1>2. QED
  BY <1>1 DEF opened, shown, wanted

(* A step that ends the session of c and no other one.                     *)
LEMMA Closes ==
  ASSUME NEW c \in Conn, state[c] = "TRANSACTION", state'[c] # "TRANSACTION",
         username[c] # NoName,
         \A d \in Conn \ {c} :
           /\ state'[d] = state[d]
           /\ state[d] = "TRANSACTION" =>
                username'[d] = username[d] /\ mail_info'[d] = mail_info[d]
  PROVE  Access!Close(c)
<1>1. \A d \in Conn \ {c} : state[d] = "TRANSACTION" => Deleted(d)' = Deleted(d)
  BY DEF Deleted
<1>2. opened[c] # NoName /\ opened' = [opened EXCEPT ![c] = NoName]
  BY DEF opened
<1>3. shown' = [shown EXCEPT ![c] = {}]
  BY DEF shown
<1>4. wanted' = [wanted EXCEPT ![c] = {}]
  BY <1>1 DEF wanted
<1>5. QED
  BY <1>2, <1>3, <1>4 DEF Access!Close

(* After a crash nothing is open.                                          *)
LEMMA CrashClosesAll ==
  ASSUME ForgetMail
  PROVE  /\ opened' = [c \in Conn |-> NoName]
         /\ shown' = [c \in Conn |-> {}]
         /\ wanted' = [c \in Conn |-> {}]
BY DEF ForgetMail, Restart, opened, shown, wanted

LEMMA PassOpens ==
  ASSUME ServerInv, Exclusive, NEW c \in Conn, Pass(c)
  PROVE  \E u \in Name : Access!Open(c, u)
<1> DEFINE u == username[c]
<1>0. state \in [Conn -> ProtocolState \cup {"closed"}] /\ mail_info \in [Conn -> MailInfo]
  BY DEF ServerInv, LockInv, BaseInv, TypeOK, MailInv
<1>1. u \in Name /\ u # NoName /\ ~sessionActive[u] /\ state[c] = "AUTH_PASSWORD"
  BY NameAssumption DEF Pass, PassAccepted, login_succeeds, ServerInv, LockInv, BaseInv, TypeOK
<1>2. PICK m \in initialize_mails(directory[u]) : mail_info' = [mail_info EXCEPT ![c] = m]
  BY DEF Pass
<1>3. m.deleted = {} /\ Range(m.mails) \subseteq directory[u]
  BY <1>1, <1>2, ListingConsistent DEF ServerInv, MailInv
<1>4. /\ state' = [state EXCEPT ![c] = "TRANSACTION"]
      /\ username' = username /\ directory' = directory
  BY DEF Pass, PassAccepted
<1>5. \A d \in Conn : opened[d] # u
  <2> SUFFICES ASSUME NEW d \in Conn, state[d] = "TRANSACTION", username[d] = u PROVE FALSE
    BY <1>1 DEF opened
  <2>1. InSession(d)
    BY <1>1 DEF InSession
  <2>2. QED
    BY <1>1, <2>1 DEF Exclusive
<1>6. opened[c] = NoName /\ opened' = [opened EXCEPT ![c] = u]
  BY <1>0, <1>1, <1>4 DEF opened
<1>7. shown' = [shown EXCEPT ![c] = Range(m.mails)]
  BY <1>0, <1>2, <1>4 DEF shown
<1>8. wanted' = wanted
  <2>1. Deleted(c)' = {}
    BY <1>0, <1>2, <1>3 DEF Deleted
  <2>2. \A d \in Conn \ {c} : Deleted(d)' = Deleted(d)
    BY <1>0, <1>2 DEF Deleted
  <2>3. QED
    BY <1>0, <1>1, <1>4, <2>1, <2>2 DEF wanted
<1>9. Access!Open(c, u)
  <2> HIDE DEF u
  <2>1. QED
    BY <1>3, <1>4, <1>5, <1>6, <1>7, <1>8 DEF Access!Open
<1>10. QED
  BY <1>1, <1>9

LEMMA DeleteMarks ==
  ASSUME ServerInv, NEW c \in Conn, NEW n, delete_mail(c, n)
  PROVE  Access!Mark(c) \/ UNCHANGED Access!vars
<1>0. mail_info \in [Conn -> MailInfo] /\ Consistent(mail_info[c])
  BY DEF ServerInv, MailInv
<1>1. UNCHANGED <<state, username, directory>> /\ state[c] = "TRANSACTION"
  BY DEF delete_mail, vars
<1>2. CASE VALID_MAIL(c, n)
  <2> DEFINE f == mail_info[c].mails[n]
  <2>1. n \in DOMAIN mail_info[c].mails
    BY <1>2 DEF VALID_MAIL
  <2>2. /\ mail_info'[c].mails = mail_info[c].mails
        /\ mail_info'[c].deleted = mail_info[c].deleted \cup {n}
        /\ \A d \in Conn \ {c} : mail_info'[d] = mail_info[d]
    BY <1>0, <1>2 DEF delete_mail, MailInfo
  <2>3. Deleted(c)' = Deleted(c) \cup {f}
    BY <2>2 DEF Deleted
  <2>4. \A d \in Conn \ {c} : Deleted(d)' = Deleted(d)
    BY <2>2 DEF Deleted
  <2>5. f \in shown[c]
    BY <1>1, <2>1 DEF shown, Range
  <2>6. wanted' = [wanted EXCEPT ![c] = @ \cup {f}]
    BY <1>1, <2>3, <2>4 DEF wanted
  <2>7. UNCHANGED <<opened, shown>>
    BY <1>1, <2>2 DEF opened, shown
  <2>8. Access!Mark(c)
    <3> HIDE DEF f
    <3>1. QED
      BY <1>1, <2>5, <2>6, <2>7 DEF Access!Mark
  <2>9. QED
    BY <2>8
<1>3. CASE ~VALID_MAIL(c, n)
  <2>1. UNCHANGED mail_info
    BY <1>3 DEF delete_mail
  <2>2. QED
    BY <1>1, <2>1, Invisible DEF Access!vars
<1>4. QED
  BY <1>2, <1>3

LEMMA RestoreUnmarks ==
  ASSUME ServerInv, NEW c \in Conn, restore_mail(c)
  PROVE  Access!Unmark(c)
<1>0. mail_info \in [Conn -> MailInfo]
  BY DEF ServerInv, MailInv
<1>1. UNCHANGED <<state, username, directory>> /\ state[c] = "TRANSACTION"
  BY DEF restore_mail, vars
<1>2. /\ mail_info'[c].mails = mail_info[c].mails
      /\ mail_info'[c].deleted = {}
      /\ \A d \in Conn \ {c} : mail_info'[d] = mail_info[d]
  BY <1>0 DEF restore_mail, MailInfo
<1>3. Deleted(c)' = {} /\ \A d \in Conn \ {c} : Deleted(d)' = Deleted(d)
  BY <1>2 DEF Deleted
<1>4. wanted' = [wanted EXCEPT ![c] = {}]
  BY <1>1, <1>3 DEF wanted
<1>5. UNCHANGED <<opened, shown>>
  BY <1>1, <1>2 DEF opened, shown
<1>6. QED
  BY <1>1, <1>4, <1>5 DEF Access!Unmark

LEMMA QuitCommits ==
  ASSUME ServerInv, NEW c \in Conn, NEW kept, QuitUpdate(c, kept)
  PROVE  Access!Commit(c)
<1>0. state \in [Conn -> ProtocolState \cup {"closed"}] /\ username[c] # NoName
  BY DEF QuitUpdate, ServerInv, LockInv, BaseInv, TypeOK, NamedState
<1>1. /\ state[c] = "TRANSACTION"
      /\ state' = [state EXCEPT ![c] = "CLIENT_FINISHED"]
      /\ UNCHANGED <<username, mail_info>>
      /\ kept \subseteq Deleted(c)
      /\ directory' = [directory EXCEPT ![username[c]] = left_by_quit(c, kept)]
  BY DEF QuitUpdate, Quit
<1>2. Access!Close(c)
  BY <1>0, <1>1, Closes
<1>3. opened[c] = username[c] /\ wanted[c] = Deleted(c)
  BY <1>1 DEF opened, wanted
<1>4. directory' = [directory EXCEPT ![opened[c]] = @ \ (wanted[c] \ kept)]
  BY <1>1, <1>3 DEF left_by_quit
<1>5. QED
  BY ZenonT(60), <1>1, <1>2, <1>3, <1>4 DEF Access!Commit

LEMMA EndAborts ==
  ASSUME ServerInv, NEW c \in Conn, QuitPlain(c) \/ EndOfConnection(c)
  PROVE  Access!Abort(c) \/ UNCHANGED Access!vars
<1>0. /\ state \in [Conn -> ProtocolState \cup {"closed"}]
      /\ username \in [Conn -> Name \cup {NoName}]
      /\ mail_info \in [Conn -> MailInfo]
      /\ state[c] = "TRANSACTION" => username[c] # NoName
  BY DEF ServerInv, LockInv, BaseInv, TypeOK, NamedState, MailInv
<1>1. /\ directory' = directory
      /\ state'[c] \in {"CLIENT_FINISHED", "closed"}
      /\ \A d \in Conn \ {c} : /\ state'[d] = state[d]
                               /\ username'[d] = username[d]
                               /\ mail_info'[d] = mail_info[d]
  <2>1. CASE QuitPlain(c)
    BY <1>0, <2>1 DEF QuitPlain, Quit
  <2>2. CASE EndOfConnection(c)
    BY <1>0, <2>2 DEF EndOfConnection, Disconnect, Finish, pop3_close_handler,
                      destroy_connection_info, free_mail_info
  <2>3. QED
    BY <2>1, <2>2
<1>2. CASE state[c] = "TRANSACTION"
  BY <1>0, <1>1, <1>2, Closes DEF Access!Abort
<1>3. CASE state[c] # "TRANSACTION"
  BY <1>1, <1>3, Invisible DEF Access!vars
<1>4. QED
  BY <1>2, <1>3

LEMMA CrashMaps ==
  ASSUME ServerInv, Crash \/ \E c \in Conn, i \in 1 .. MaxMails, kept \in SUBSET File :
                               CrashInQuit(c, i, kept)
  PROVE  Access!Crash
<1>1. CASE Crash
  BY <1>1, CrashClosesAll DEF Crash, Access!Crash
<1>2. ASSUME NEW c \in Conn, NEW i \in 1 .. MaxMails, NEW kept \in SUBSET File,
             CrashInQuit(c, i, kept)
      PROVE  Access!Crash
  <2> DEFINE removed == {mail_info[c].mails[j] : j \in mail_info[c].deleted \cap (1 .. i)} \ kept
  <2>1. /\ ForgetMail
        /\ state[c] = "TRANSACTION"
        /\ directory' = [directory EXCEPT ![username[c]] = directory[username[c]] \ removed]
    BY <1>2 DEF CrashInQuit, left_by_loop
  <2>2. username[c] # NoName
    BY <2>1 DEF ServerInv, LockInv, BaseInv, NamedState
  <2>3. opened[c] = username[c] /\ wanted[c] = Deleted(c)
    BY <2>1 DEF opened, wanted
  <2>4. removed \subseteq wanted[c]
    BY <2>3 DEF Deleted
  <2>5. \E R \in SUBSET wanted[c] : directory' = [directory EXCEPT ![opened[c]] = @ \ R]
    <3> HIDE DEF removed
    <3>1. QED
      BY <2>1, <2>3, <2>4
  <2>6. QED
    BY <2>1, <2>2, <2>3, <2>5, CrashClosesAll DEF Access!Crash
<1>3. QED
  BY <1>1, <1>2

LEMMA AccessStep ==
  ASSUME ServerInv, Exclusive, [MailNext]_allVars
  PROVE  [Access!Next]_(Access!vars)
<1>0. /\ state \in [Conn -> ProtocolState \cup {"closed"}]
      /\ username \in [Conn -> Name \cup {NoName}]
      /\ mail_info \in [Conn -> MailInfo]
  BY DEF ServerInv, LockInv, BaseInv, TypeOK, MailInv
<1>1. ASSUME NEW c \in Conn, AuthStep(c) PROVE UNCHANGED Access!vars
  <2>1. UNCHANGED <<directory, mail_info>>
    BY <1>1 DEF AuthStep, mailVars
  <2>2. \A d \in Conn : /\ state'[d] = "TRANSACTION" <=> state[d] = "TRANSACTION"
                        /\ state[d] = "TRANSACTION" => username'[d] = username[d]
    BY <1>0, <1>1 DEF AuthStep, Accept, User, PassRejected, OtherCommand, send_back_to_ini, Hangup
  <2>3. QED
    BY <2>1, <2>2, Invisible DEF Access!vars
<1>2. ASSUME NEW c \in Conn, NEW n, retrieve_mail(c, n) PROVE UNCHANGED Access!vars
  BY <1>2, Invisible DEF retrieve_mail, vars, Access!vars
<1>3. ASSUME NEW n \in Name, AddUser(n), UNCHANGED mailVars PROVE UNCHANGED Access!vars
  BY <1>3, Invisible DEF AddUser, mailVars, Access!vars
<1>4. CASE UNCHANGED allVars
  BY <1>4, Invisible DEF allVars, mailVars, vars, Access!vars
<1>5. ASSUME NEW u \in Name, NEW f \in File, Deliver(u, f) \/ Remove(u, f)
      PROVE  Access!Deliver(u) \/ Access!RemovedByOthers(u)
  <2>1. UNCHANGED <<opened, shown, wanted>>
    BY <1>5, Invisible DEF Deliver, Remove, vars
  <2>2. QED
    BY <1>5, <2>1 DEF Deliver, Remove, Access!Deliver, Access!RemovedByOthers
<1>6. ASSUME NEW c \in Conn, ServerStep(c) PROVE [Access!Next]_(Access!vars)
  <2>1. CASE \E n \in 0 .. MaxMails + 1 : delete_mail(c, n) \/ retrieve_mail(c, n)
    BY <2>1, <1>2, DeleteMarks DEF Access!Next
  <2>2. QED
    BY <1>1, <1>6, <2>1, PassOpens, RestoreUnmarks, QuitCommits, EndAborts, CrashMaps
       DEF ServerStep, Access!Next
<1>7. CASE Crash
  BY <1>7, CrashMaps DEF Access!Next
<1>8. QED
  BY <1>3, <1>4, <1>5, <1>6, <1>7 DEF MailNext, Access!Next

(* The server implements MailAccess: a session has the maildrop to itself, *)
(* its QUIT is one commit of what it marked, and every other end of it     *)
(* leaves the maildrop as it is.                                           *)
THEOREM ServerImplementsMailAccess ==
  ASSUME ~LeaveUnauthenticated
  PROVE  MailSpec => ImplementsMailAccess
<1>1. MailInit => Access!Init
  BY DEF MailInit, Init, Access!Init, opened, shown, wanted
<1>2. ServerInv /\ Exclusive /\ [MailNext]_allVars => [Access!Next]_(Access!vars)
  BY AccessStep
<1>3. QED
  BY <1>1, <1>2, ServerInvariant, ExclusiveInvariant, PTL
     DEF MailSpec, ImplementsMailAccess, Access!Spec
=============================================================================
