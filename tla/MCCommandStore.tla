--------------------------- MODULE MCCommandStore ---------------------------
(* CommandStore on two commands.  The clock reaches past the longest       *)
(* lifetime and twice the claim timeout, so claims go stale and commands   *)
(* expire; the history has room for a stale claim and then a full walk of  *)
(* one command, or for shorter lives of both.                              *)
EXTENDS CommandStore

=============================================================================
