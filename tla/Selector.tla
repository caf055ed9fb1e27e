------------------------------ MODULE Selector ------------------------------
(***************************************************************************)
(* The selector (utils/selector.c) and who holds which file descriptor.    *)
(*                                                                         *)
(* One thread asks the kernel which registered descriptors are ready and   *)
(* visits them in increasing order; the handlers it calls open, close,     *)
(* register and unregister descriptors while the iteration goes on.  The   *)
(* kernel gives a new descriptor the lowest free number, so that a number  *)
(* closed by one handler may be another connection's a moment later.       *)
(*                                                                         *)
(* What the handlers say to their clients is left to Connection; here they *)
(* choose among the ways they may treat descriptors.                       *)
(***************************************************************************)
EXTENDS Integers, FiniteSetsExt

CONSTANTS
  Client,      \* the connections there may be
  NoClient,    \* no connection
  OpenMax,     \* the process may have descriptors 0 .. OpenMax - 1
  ItemsMax,    \* ITEMS_MAX_SIZE: the selector takes descriptors below it
  SelectorSize,\* SELECTOR_SIZE: elements main asks selector_new for
  LostMax      \* bound on the directory streams that PASS may lose

ASSUME NoClientAssumption == NoClient \notin Client
ASSUME LimitsAssumption ==
  /\ OpenMax \in Nat /\ ItemsMax \in Nat /\ LostMax \in Nat
  /\ OpenMax > 1 /\ ItemsMax > 1
  /\ SelectorSize = ItemsMax

(* 0 stands for the standard descriptors, never given to anybody, and      *)
(* Passive for the two sockets that main registers before any client.      *)
Fd == 0 .. OpenMax - 1
Passive == 1

VARIABLES
  open,              \* who holds a descriptor, for the kernel
  item,              \* who registered a descriptor: s->fds
  interest,          \* item->interest
  master_r,          \* descriptors watched for reading,
  master_w,          \* and for writing
  max_fd,            \* s->max_fd
  fd_size,           \* s->fd_size: the length of the table
  slave_r,           \* what pselect answered
  slave_w,
  cursor,            \* descriptor to visit next; above last, no iteration
  last,              \* n in handle_iteration
  watched,           \* history: item when pselect answered
  client_fd,         \* socket of a connection, 0 when there is none
  filed_fd,          \* mail_info->filed_fd
  finished_reading,  \* mail_info->finished_reading
  busy               \* ~command.finished: a RETR goes on

selectorVars == <<item, interest, master_r, master_w, max_fd, fd_size>>
iterationVars == <<slave_r, slave_w, cursor, last, watched>>
clientVars == <<client_fd, filed_fd, finished_reading, busy>>
vars == <<open, selectorVars, iterationVars, clientVars>>

Nobody == [kind |-> "nobody", of |-> NoClient]
Listener == [kind |-> "listener", of |-> NoClient]
Socket(c) == [kind |-> "socket", of |-> c]
File(c) == [kind |-> "file", of |-> c]
LostStream == [kind |-> "dir", of |-> NoClient]
Holder == {Nobody, Listener, LostStream}
            \cup {Socket(c) : c \in Client} \cup {File(c) : c \in Client}

ITEM_USED(fd) == item[fd] # Nobody

-----------------------------------------------------------------------------
(* The operations of the selector, on the record of its state, since a     *)
(* handler may call several.                                               *)
selector == [item |-> item, interest |-> interest, r |-> master_r, w |-> master_w,
             max |-> max_fd, size |-> fd_size]

(* 1UL << bits.                                                            *)
shifted[bits \in Nat] == IF bits = 0 THEN 1 ELSE 2 * shifted[bits - 1]

(* The length of a table for n elements, with some room to grow: one more  *)
(* than the next power of two, or than what select() can watch.            *)
next_capacity(n) ==
  1 + Min({ItemsMax, Min({shifted[k] : k \in {k \in 0 .. n : shifted[k] > n}})})

(* Mutant: a table that is large enough is not made.                       *)
HalfTheTable(size, n) == next_capacity(n \div 2)

(* The length of the table, now size, after a request for element n; a     *)
(* request beyond what select() can watch fails.                           *)
ensure_capacity(size, n) ==
  IF n < size \/ n > ItemsMax THEN size ELSE next_capacity(n)

items_max_fd(s) == Max({fd \in 0 .. s.max : s.item[fd] # Nobody} \cup {0})

items_update_fdset_for_fd(s, fd) ==
  [s EXCEPT
     !.r = IF s.interest[fd] = "read" THEN @ \cup {fd} ELSE @ \ {fd},
     !.w = IF s.interest[fd] = "write" THEN @ \cup {fd} ELSE @ \ {fd}]

(* Mutant: the last descriptor does not fit.                               *)
OneLess(s, fd) == fd < ItemsMax - 1 /\ s.item[fd] = Nobody

can_register(s, fd) == fd < ItemsMax /\ s.item[fd] = Nobody

selector_register(s, fd, holder, i) ==
  items_update_fdset_for_fd(
    [s EXCEPT !.item[fd] = holder, !.interest[fd] = i,
              !.max = IF fd > @ THEN fd ELSE @,
              !.size = IF fd > @ THEN ensure_capacity(@, fd) ELSE @], fd)

(* Mutant: max_fd is not computed again.                                   *)
UnregisterKeepsMax(s, fd) ==
  [items_update_fdset_for_fd([s EXCEPT !.interest[fd] = "noop"], fd) EXCEPT !.item[fd] = Nobody]

(* Unregistering what is not registered changes nothing.  The handler's    *)
(* handle_close finds the connection inactive already.                     *)
selector_unregister_fd(s, fd) ==
  IF s.item[fd] = Nobody THEN s
  ELSE LET cleared == items_update_fdset_for_fd([s EXCEPT !.interest[fd] = "noop"], fd)
           forgotten == [cleared EXCEPT !.item[fd] = Nobody]
       IN [forgotten EXCEPT !.max = items_max_fd(forgotten)]

selector_set_interest(s, fd, i) ==
  IF s.item[fd] = Nobody THEN s
  ELSE items_update_fdset_for_fd([s EXCEPT !.interest[fd] = i], fd)

SelectorBecomes(s) ==
  /\ item' = s.item
  /\ interest' = s.interest
  /\ master_r' = s.r
  /\ master_w' = s.w
  /\ max_fd' = s.max
  /\ fd_size' = s.size

(* The kernel's lowest free descriptor.                                    *)
FreeFds == {fd \in Fd \ {0} : open[fd] = Nobody}
lowest_fd == Min(FreeFds)

-----------------------------------------------------------------------------
Init ==
  LET s == selector_register(
             [item |-> [fd \in Fd |-> Nobody], interest |-> [fd \in Fd |-> "noop"],
              r |-> {}, w |-> {}, max |-> 0,
              size |-> ensure_capacity(0, SelectorSize)], Passive, Listener, "read")
  IN /\ open = [fd \in Fd |-> IF fd = Passive THEN Listener ELSE Nobody]
     /\ item = s.item /\ interest = s.interest
     /\ master_r = s.r /\ master_w = s.w /\ max_fd = s.max /\ fd_size = s.size
     /\ slave_r = {} /\ slave_w = {} /\ cursor = 1 /\ last = 0
     /\ watched = s.item
     /\ client_fd = [c \in Client |-> 0]
     /\ filed_fd = [c \in Client |-> 0]
     /\ finished_reading = [c \in Client |-> FALSE]
     /\ busy = [c \in Client |-> FALSE]

iterating == cursor <= last

(* pselect looks at the descriptors up to max_fd.  It fails if one of them *)
(* is closed, which ends the server.  A time out, with no descriptor       *)
(* ready, goes over the items and calls nothing.                           *)
Polled(fds) == {fd \in fds : fd <= max_fd}
BadDescriptor == \E fd \in Polled(master_r \cup master_w) : open[fd] = Nobody

selector_select ==
  /\ ~iterating
  /\ ~BadDescriptor
  /\ slave_r' \in SUBSET Polled(master_r)
  /\ slave_w' \in SUBSET Polled(master_w)
  /\ slave_r' \cup slave_w' # {}
  /\ cursor' = 0
  /\ last' = max_fd
  /\ watched' = item
  /\ UNCHANGED <<open, selectorVars, clientVars>>

(* Mutant: what pselect reported is not looked at.                         *)
WritesAnyway(fd) == interest[fd] = "write"

(* handle_iteration calls a handler if pselect reported the descriptor and *)
(* the interest it has now still asks for it.                              *)
Reads(fd) == fd \in slave_r /\ interest[fd] = "read"
Writes(fd) == fd \in slave_w /\ interest[fd] = "write"

(* The handler of the descriptor under the cursor runs, and the iteration  *)
(* goes on to the next one.  No handler makes its own descriptor ready for *)
(* the second of the two checks.                                           *)
Visit(c, kind) == iterating /\ item[cursor] = [kind |-> kind, of |-> c]

MoveOn ==
  /\ cursor' = cursor + 1
  /\ UNCHANGED <<slave_r, slave_w, last, watched>>

Skip ==
  /\ iterating
  /\ ~Reads(cursor) /\ ~Writes(cursor)
  /\ MoveOn
  /\ UNCHANGED <<open, selectorVars, clientVars>>

-----------------------------------------------------------------------------
(* pop3_passive_handler.  A client beyond what the selector can watch is   *)
(* closed at once; accept fails if the process has no descriptor left, or  *)
(* the client has gone before.                                             *)
Accept(c) ==
  /\ Visit(NoClient, "listener") /\ Reads(cursor)
  /\ client_fd[c] = 0 /\ FreeFds # {}
  /\ IF can_register(selector, lowest_fd)
     THEN /\ SelectorBecomes(selector_register(selector, lowest_fd, Socket(c), "write"))
          /\ open' = [open EXCEPT ![lowest_fd] = Socket(c)]
          /\ client_fd' = [client_fd EXCEPT ![c] = lowest_fd]
     ELSE UNCHANGED <<open, selectorVars, client_fd>>
  /\ MoveOn
  /\ UNCHANGED <<filed_fd, finished_reading, busy>>

AcceptFails ==
  /\ Visit(NoClient, "listener") /\ Reads(cursor)
  /\ MoveOn
  /\ UNCHANGED <<open, selectorVars, clientVars>>

(* The client's handlers go on to the next descriptor and may change the   *)
(* interest of its socket.                                                 *)
SocketReads(c) == Visit(c, "socket") /\ Reads(cursor)
SocketWrites(c) == Visit(c, "socket") /\ Writes(cursor)

(* Mutant: the file is closed but stays registered.                        *)
FileStaysRegistered(s, c) == s

(* Mutant: the file of a RETR in course is forgotten.                      *)
ClosesSocketOnly(c) == {client_fd[c]}

(* pop3_close_handler, from either handler: the socket is unregistered and *)
(* closed, then the file of a RETR in course, if its number is known.      *)
free_mail_info(s, c) ==
  IF filed_fd[c] = 0 THEN s ELSE selector_unregister_fd(s, filed_fd[c])

Closes(c) == {client_fd[c], filed_fd[c]} \ {0}

pop3_close_handler(c) ==
  /\ SocketReads(c) \/ SocketWrites(c)
  /\ SelectorBecomes(free_mail_info(selector_unregister_fd(selector, client_fd[c]), c))
  /\ open' = [fd \in Fd |-> IF fd \in Closes(c) THEN Nobody ELSE open[fd]]
  /\ client_fd' = [client_fd EXCEPT ![c] = 0]
  /\ filed_fd' = [filed_fd EXCEPT ![c] = 0]
  /\ finished_reading' = [finished_reading EXCEPT ![c] = FALSE]
  /\ busy' = [busy EXCEPT ![c] = FALSE]
  /\ MoveOn

(* A command was run that leaves no file open, or none was complete: the   *)
(* socket is written to, or read again.  While a RETR goes on it only      *)
(* stays in writing.  Such a command is a RETR whose file cannot be opened *)
(* and a PASS, which opens the directory and closes it again, if it can.   *)
Answer(c, i) ==
  /\ \/ SocketReads(c)
     \/ SocketWrites(c) /\ ~busy[c]
  /\ SelectorBecomes(selector_set_interest(selector, client_fd[c], i))
  /\ MoveOn
  /\ UNCHANGED <<open, clientVars>>

(* A PASS that cannot stat() a file that readdir() listed returns with the *)
(* directory still open, and nothing will ever close it.                   *)
initialize_mails(c) ==
  /\ SocketReads(c) \/ (SocketWrites(c) /\ ~busy[c])
  /\ filed_fd[c] = 0 /\ FreeFds # {}
  /\ Cardinality({fd \in Fd : open[fd] = LostStream}) < LostMax
  /\ open' = [open EXCEPT ![lowest_fd] = LostStream]
  /\ SelectorBecomes(selector_set_interest(selector, client_fd[c], "write"))
  /\ MoveOn
  /\ UNCHANGED clientVars

(* A RETR of a message that exists, its first visit: the file is opened    *)
(* and registered.  If it cannot be registered it is closed and the        *)
(* command answered with an error, but filed_fd keeps its number.          *)
setup_mail_retrieval(c) ==
  /\ SocketReads(c) \/ (SocketWrites(c) /\ ~busy[c])
  /\ filed_fd[c] = 0 /\ FreeFds # {}
  /\ LET s == selector_set_interest(selector, client_fd[c], "write")
     IN IF can_register(s, lowest_fd)
        THEN /\ SelectorBecomes(selector_register(s, lowest_fd, File(c), "read"))
             /\ open' = [open EXCEPT ![lowest_fd] = File(c)]
             /\ busy' = [busy EXCEPT ![c] = TRUE]
        ELSE SelectorBecomes(s) /\ UNCHANGED <<open, busy>>
  /\ filed_fd' = [filed_fd EXCEPT ![c] = lowest_fd]
  /\ MoveOn
  /\ UNCHANGED <<client_fd, finished_reading>>

(* A later visit of a RETR, or a RETR that finds filed_fd set and takes    *)
(* itself for one: if the write buffer has room the file is watched again. *)
retrieve_mail(c) ==
  /\ filed_fd[c] # 0
  /\ \/ SocketWrites(c)
     \/ SocketReads(c) /\ ~busy[c]
  /\ \E room \in BOOLEAN :
       LET s == selector_set_interest(selector, client_fd[c], "write")
       IN SelectorBecomes(IF room THEN selector_set_interest(s, filed_fd[c], "read") ELSE s)
  /\ busy' = [busy EXCEPT ![c] = TRUE]
  /\ MoveOn
  /\ UNCHANGED <<open, client_fd, filed_fd, finished_reading>>

(* The visit that writes the last line, which it may do from when the file *)
(* has been read to its end.                                               *)
finish_mail_retrieval(c) ==
  /\ SocketWrites(c) /\ filed_fd[c] # 0 /\ finished_reading[c]
  /\ open' = [open EXCEPT ![filed_fd[c]] = Nobody]
  /\ filed_fd' = [filed_fd EXCEPT ![c] = 0]
  /\ finished_reading' = [finished_reading EXCEPT ![c] = FALSE]
  /\ busy' = [busy EXCEPT ![c] = FALSE]
  /\ MoveOn
  /\ UNCHANGED <<selectorVars, client_fd>>

(* mail_read_handler: no room, and the file is not watched; some bytes; or *)
(* the end of the file or an error, and it is unregistered.                *)
mail_read_handler(c) ==
  /\ Visit(c, "file") /\ Reads(cursor)
  /\ \/ /\ SelectorBecomes(selector_set_interest(selector, filed_fd[c], "noop"))
        /\ UNCHANGED finished_reading
     \/ /\ SelectorBecomes(selector_unregister_fd(selector, filed_fd[c]))
        /\ finished_reading' = [finished_reading EXCEPT ![c] = TRUE]
     \/ UNCHANGED <<selectorVars, finished_reading>>
  /\ MoveOn
  /\ UNCHANGED <<open, client_fd, filed_fd, busy>>

Handler(c) ==
  \/ Accept(c)
  \/ pop3_close_handler(c)
  \/ \E i \in {"read", "write"} : Answer(c, i)
  \/ initialize_mails(c)
  \/ setup_mail_retrieval(c)
  \/ retrieve_mail(c)
  \/ finish_mail_retrieval(c)
  \/ mail_read_handler(c)

Next ==
  \/ selector_select
  \/ Skip
  \/ AcceptFails
  \/ \E c \in Client : Handler(c)

Spec == Init /\ [][Next]_vars

-----------------------------------------------------------------------------
(* Types: whatever is opened and closed, max_fd stays within the table and *)
(* the sets of descriptors that select() can watch (selector.c:326-369).   *)
(* selector_register() makes a table grow one element too late (342), so   *)
(* this rests on the size that main asks for.                              *)
TypeOK ==
  /\ open \in [Fd -> Holder] /\ item \in [Fd -> Holder] /\ watched \in [Fd -> Holder]
  /\ interest \in [Fd -> {"noop", "read", "write"}]
  /\ {master_r, master_w, slave_r, slave_w} \subseteq SUBSET Fd
  /\ fd_size \in Nat /\ max_fd < fd_size /\ max_fd \in 0 .. ItemsMax - 1
  /\ last \in Fd /\ cursor \in 0 .. OpenMax
  /\ client_fd \in [Client -> Fd] /\ filed_fd \in [Client -> Fd]
  /\ finished_reading \in [Client -> BOOLEAN] /\ busy \in [Client -> BOOLEAN]

(* What is registered is open and held by whoever registered it, so that   *)
(* pselect never fails with EBADF, which ends the server, and no handler   *)
(* runs for somebody else's descriptor (selector.c:548-559).               *)
RegisteredIsHeld == \A fd \in Fd : ITEM_USED(fd) => item[fd] = open[fd]

(* The sets given to pselect and max_fd agree with the items after any     *)
(* sequence of calls: nothing registered is out of its sight               *)
(* (selector.c:205-233).                                                   *)
SetsMatchItems ==
  /\ master_r = {fd \in Fd : ITEM_USED(fd) /\ interest[fd] = "read"}
  /\ master_w = {fd \in Fd : ITEM_USED(fd) /\ interest[fd] = "write"}
  /\ max_fd = Max({fd \in Fd : ITEM_USED(fd)})

(* A readiness reported for one connection is never taken for a later one  *)
(* that got the same descriptor in the same iteration: the listeners have  *)
(* the lowest descriptors and are visited before any close                 *)
(* (selector.c:443-477, pop3.c:280).  A file that reuses a number may be   *)
(* visited early: reading it never blocks.                                 *)
NoStaleReadiness ==
  \A fd \in Fd : cursor <= fd /\ fd <= last /\ item[fd].kind = "socket"
     => (Reads(fd) \/ Writes(fd) => item[fd] = watched[fd])

(* Every descriptor the process has open is some connection's, which will  *)
(* close it: none is lost when a client goes away in the middle of a RETR  *)
(* (mail.c:221-224).  The directory stream of a PASS whose stat() failed   *)
(* is the one exception, and nothing else loses a descriptor.              *)
NoLeak ==
  \A fd \in Fd \ {0, Passive} : open[fd] \notin {Nobody, LostStream} =>
     \/ open[fd].kind = "socket" /\ client_fd[open[fd].of] = fd
     \/ open[fd].kind = "file" /\ filed_fd[open[fd].of] = fd

(* A RETR that goes on has a file open to go on with: "abro el archivo y   *)
(* me suscribo a la lectura. solo se hace 1 vez" (mail.c:532).  A file     *)
(* whose descriptor select() cannot watch is left out: it is closed, and   *)
(* setup_mail_retrieval() keeps its number in filed_fd.                    *)
RetrievalHasFile ==
  \A c \in Client :
    busy[c] /\ filed_fd[c] < ItemsMax => open[filed_fd[c]] = File(c)
=============================================================================
