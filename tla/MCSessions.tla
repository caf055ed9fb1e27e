----------------------------- MODULE MCSessions -----------------------------
(* Instances of Sessions for TLC.  Three connections and two names contain *)
(* the interesting case: a session, a client that mentions its name and    *)
(* leaves, and a third client that logs in.                                *)
EXTENDS Sessions, TLC

(* Safety runs only: permuting connections or names changes nothing.       *)
Symmetry == Permutations(Conn) \cup Permutations(Name)
=============================================================================
