------------------------------ MODULE Command -------------------------------
(***************************************************************************)
(* The command of a connection that answers in several visits of the write *)
(* handler: what Retrieval and ListCommand have in common.                 *)
(***************************************************************************)
CONSTANT WriteSize   \* BUFFER_SIZE

VARIABLE finished    \* command.finished
=============================================================================
