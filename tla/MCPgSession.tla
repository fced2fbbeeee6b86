---------------------------- MODULE MCPgSession ----------------------------
(* A small instance of PgSession. *)
EXTENDS PgSession

CONSTANTS s1, s2

MCStmts == {s1, s2}

\* Of simple queries only, one at a time, while the operator edits the policy.
Waiting == [pipelined |-> FALSE, extended |-> FALSE, describes |-> FALSE,
            requests |-> 3, edits |-> 2]

\* Of everything, in a hurry.
Pipelining == [pipelined |-> TRUE, extended |-> TRUE, describes |-> TRUE,
               requests |-> 3, edits |-> 0]

MCSessions == {Waiting, Pipelining}
=============================================================================
