--------------------------- MODULE MCListCommand ----------------------------
(* Instances of ListCommand for TLC.  With nine messages every number and  *)
(* every index has one digit; message 10 is index 9.                       *)
EXTENDS ListCommand

MCOctets == [m \in 1 .. MailCount |-> IF m = 3 THEN 120 ELSE m]

MCDeletions == SUBSET {1, 3, 5, MailCount}
=============================================================================
