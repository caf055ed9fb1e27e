------------------------------ MODULE Accounts ------------------------------
(***************************************************************************)
(* How accounts come to be: add_user (pop3/users.c) on a string            *)
(* "name:password", and parse_args (utils/args.c), which calls it for      *)
(* every -u of the command line before the server starts.                  *)
(*                                                                         *)
(* A string is a sequence of characters, numbers; the server's list of     *)
(* users is the sequence of their names.  Names and passwords are shorter  *)
(* than MAX_NAME_SIZE.                                                     *)
(***************************************************************************)
EXTENDS Naturals, Sequences, SequencesExt

CONSTANT MaxUsers   \* MAX_USERS

ASSUME MaxUsersAssumption == MaxUsers \in Nat \ {0}

NUL == 0
Blank == 32
Colon == 58

(* The part of s before the first character of C: all of s if there is     *)
(* none.                                                                   *)
Before(s, C) ==
  SubSeq(s, 1, Min({i \in DOMAIN s : s[i] \in C} \cup {Len(s) + 1}) - 1)

name_of(s) == Before(s, {Colon, NUL})

(* strchr() finds a colon in s, and it is not the first character.         *)
HasNameAndColon(s) == Len(name_of(s)) \in 1 .. Len(Before(s, {NUL})) - 1

(* Mutant: the name is not looked up.                                      *)
AddsTwice(us, s) == Len(us) < MaxUsers /\ HasNameAndColon(s)

can_add(us, s) ==
  Len(us) < MaxUsers /\ HasNameAndColon(s) /\ name_of(s) \notin Range(us)

add_user(us, s) == IF can_add(us, s) THEN Append(us, name_of(s)) ELSE us

(* The arguments of -u, in order.  The result of add_user is not looked    *)
(* at, and nusers, which is to limit them, is never counted up: users that *)
(* are too many, twice there or without a colon are passed over in         *)
(* silence.                                                                *)
parse_args(options) == FoldLeft(add_user, <<>>, options)
=============================================================================
