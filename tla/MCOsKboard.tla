----------------------------- MODULE MCOsKboard -----------------------------
(* OsKboard for TLC: two values that can be told apart and a negative one. *)
EXTENDS OsKboard

MCArguments == {-1, 1, 2}
=============================================================================
