----------------------------- MODULE MCSelector -----------------------------
(* An instance of Selector for TLC: three interchangeable clients, fewer   *)
(* descriptors than they can use, and fewer still that select() can watch. *)
EXTENDS Selector, TLC

Symmetry == Permutations(Client)
=============================================================================
