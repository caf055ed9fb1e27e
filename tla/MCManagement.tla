---------------------------- MODULE MCManagement ----------------------------
(* An instance of Management for TLC: two places for users, names of one   *)
(* character, data of four bytes, the metric of current connections        *)
(* changing over a boundary of its bytes, and datagrams of others that are *)
(* wrong in each possible way.                                             *)
EXTENDS Management, TLC

A == 97
B == 98
C == 99

(* One without a colon and one twice; three for two places.                *)
MCOptions == {<<<<A>>, <<B, Colon>>, <<B, Colon, A>>>>, <<<<A, Colon>>, <<B, Colon>>, <<B, A, Colon>>>>}

(* One that may be an account by then, one that the server refuses, one    *)
(* that the client refuses.                                                *)
MCLines == {<<A, Colon, B>>, <<A, Blank, Colon>>, <<Blank, A, Colon>>}

MCToken == 915374905
MCStarted == 0 :> 0 @@ 1 :> 0 @@ 2 :> 0 @@ 3 :> 65535

AddA == [version |-> MNG_V1, auth_token |-> MCToken, op_code |-> MNG_ADD_USER,
         request_id |-> 0, length |-> 2, data |-> <<A, Colon>>]
NoColon == mng_request_to_buffer([AddA EXCEPT !.data = <<A, A>>])

(* In turn: a user; another token, version and operation; one without a    *)
(* name, one without a colon; a length beyond the data field, with a name; *)
(* a datagram that is cut.                                                 *)
MCStrange ==
  {mng_request_to_buffer(r) :
     r \in {AddA, [AddA EXCEPT !.auth_token = MCToken + 256, !.data = <<C, Colon>>],
            [AddA EXCEPT !.version = 2], [AddA EXCEPT !.op_code = 6],
            [AddA EXCEPT !.data = <<Colon, A>>]}}
  \cup {NoColon, [NoColon EXCEPT ![9] = 255] \o <<Colon, A>>, SubSeq(NoColon, 1, 6)}
=============================================================================
