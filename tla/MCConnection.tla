---------------------------- MODULE MCConnection ----------------------------
(* Instances of Connection for TLC.                                        *)
EXTENDS Connection

Scripts(n, kinds) == UNION {[1 .. m -> kinds] : m \in 1 .. n}

Around(S, sizes, pipelining, partialSend, faults) ==
  [script : S, writeSize : sizes, pipelining : pipelining, partialSend : partialSend,
   fileErrors : faults, clientVanishes : faults, isDirValid : {TRUE}]

(* One command of each sort: single lines, the two long answers, the end.  *)
Common == {"NOOP", "LIST", "RETR", "QUIT"}

(* A maildrop that could not be read.                                      *)
InvalidDir ==
  [script : Scripts(2, Common), writeSize : {3}, pipelining : BOOLEAN, partialSend : BOOLEAN,
   fileErrors : {FALSE}, clientVanishes : {FALSE}, isDirValid : {FALSE}]

(* A write buffer (3) below the length of a LIST or RETR answer (6 and 7), *)
(* with each fault or without; one of 16 holds any two answers.            *)
MCWorlds ==
  Around(Scripts(3, Common \cup {"RETRGONE"}), {3}, {TRUE}, {FALSE}, {FALSE})
  \cup Around(Scripts(2, Kind), {3}, BOOLEAN, {FALSE}, {FALSE})
  \cup Around(Scripts(2, Kind), {3}, {FALSE}, {TRUE}, {FALSE})
  \cup Around(Scripts(2, Kind), {3}, {TRUE}, {TRUE}, BOOLEAN)
  \cup Around(Scripts(2, Kind), {16}, {TRUE}, {TRUE}, {FALSE})
  \cup InvalidDir

(* The client pipelines, and send() takes what it likes.                   *)
PartialWorlds == Around(Scripts(3, Kind), {3}, {TRUE}, {TRUE}, {FALSE})
=============================================================================
