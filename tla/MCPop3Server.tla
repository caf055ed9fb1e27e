---------------------------- MODULE MCPop3Server ----------------------------
(* Instances of Pop3Server for TLC.                                        *)
EXTENDS Pop3Server, TLC

CONSTANTS f1, f2, f3

(* Sizes whose sums tell apart every set of messages; 0 is an empty file.  *)
MCOctets == f1 :> 1 @@ f2 :> 2 @@ f3 :> 0
=============================================================================
