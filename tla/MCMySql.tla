------------------------------ MODULE MCMySql ------------------------------
(* Small instances of MySqlSession. *)
EXTENDS MySqlSession

CONSTANTS s1, s2

MCStmts == {s1, s2}
=============================================================================
