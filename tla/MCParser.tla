------------------------------ MODULE MCParser ------------------------------
(* An instance of Parser for TLC, with short lines and a short argument.   *)
EXTENDS Parser
=============================================================================
