---------------------------- MODULE MCRetrieval -----------------------------
(* Instances of Retrieval for TLC: every file of up to five bytes, which   *)
(* is long enough for a line that is a single "." between two others.      *)
EXTENDS Retrieval

AllFiles == UNION {[1 .. n -> Byte] : n \in 0 .. 5}
=============================================================================
