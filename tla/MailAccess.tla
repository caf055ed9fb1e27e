----------------------------- MODULE MailAccess -----------------------------
(***************************************************************************)
(* What the server promises about a maildrop, without protocol, accounts   *)
(* or files: one session at a time opens a maildrop, sees the messages it  *)
(* had at that moment, marks some of them, and either commits - the marked *)
(* messages disappear, in one step, but for those that somebody refuses to *)
(* remove - or ends in any other way, and then nothing has happened.       *)
(* Messages arrive, and others remove them, at any time.  A crash ends all *)
(* sessions at once, and may cut one commit short.                         *)
(***************************************************************************)
CONSTANTS Conn, Name, NoName, File

VARIABLES
  maildrop,   \* the messages of each user
  open,       \* the user whose maildrop a connection has open, or NoName
  seen,       \* the messages its session sees
  marked      \* those it wants deleted

vars == <<maildrop, open, seen, marked>>

Init ==
  /\ maildrop \in [Name -> SUBSET File]
  /\ open = [c \in Conn |-> NoName]
  /\ seen = [c \in Conn |-> {}]
  /\ marked = [c \in Conn |-> {}]

Open(c, u) ==
  /\ open[c] = NoName
  /\ \A d \in Conn : open[d] # u
  /\ open' = [open EXCEPT ![c] = u]
  /\ \E S \in SUBSET maildrop[u] : seen' = [seen EXCEPT ![c] = S]
  /\ UNCHANGED <<maildrop, marked>>

Mark(c) ==
  /\ \E f \in seen[c] : marked' = [marked EXCEPT ![c] = @ \cup {f}]
  /\ UNCHANGED <<maildrop, open, seen>>

Unmark(c) ==
  /\ marked' = [marked EXCEPT ![c] = {}]
  /\ UNCHANGED <<maildrop, open, seen>>

Close(c) ==
  /\ open[c] # NoName
  /\ open' = [open EXCEPT ![c] = NoName]
  /\ seen' = [seen EXCEPT ![c] = {}]
  /\ marked' = [marked EXCEPT ![c] = {}]

Commit(c) ==
  /\ Close(c)
  /\ \E refused \in SUBSET marked[c] :
       maildrop' = [maildrop EXCEPT ![open[c]] = @ \ (marked[c] \ refused)]

Abort(c) == Close(c) /\ UNCHANGED maildrop

Crash ==
  /\ open' = [c \in Conn |-> NoName]
  /\ seen' = [c \in Conn |-> {}]
  /\ marked' = [c \in Conn |-> {}]
  /\ \/ UNCHANGED maildrop
     \/ \E c \in Conn : /\ open[c] # NoName
                        /\ \E removed \in SUBSET marked[c] :
                             maildrop' = [maildrop EXCEPT ![open[c]] = @ \ removed]

Deliver(u) ==
  /\ \E f \in File : maildrop' = [maildrop EXCEPT ![u] = @ \cup {f}]
  /\ UNCHANGED <<open, seen, marked>>

RemovedByOthers(u) ==
  /\ \E f \in maildrop[u] : maildrop' = [maildrop EXCEPT ![u] = @ \ {f}]
  /\ UNCHANGED <<open, seen, marked>>

Next ==
  \/ \E c \in Conn : \/ \E u \in Name : Open(c, u)
                     \/ Mark(c) \/ Unmark(c) \/ Commit(c) \/ Abort(c)
  \/ \E u \in Name : Deliver(u) \/ RemovedByOthers(u)
  \/ Crash

Spec == Init /\ [][Next]_vars
=============================================================================
