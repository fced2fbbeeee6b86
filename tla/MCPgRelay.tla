----------------------------- MODULE MCPgRelay -----------------------------
(* Small instances of PgRelay. *)
EXTENDS PgRelay

CONSTANTS s1, s2

MCStmts == {s1, s2}

\* Of simple queries only, one at a time, while the operator edits the policy.
Waiting == [pipelined |-> FALSE, extended |-> FALSE, describes |-> FALSE,
            requests |-> 3, edits |-> 2]

\* Of prepared statements and simple queries, one exchange at a time.
Preparing == [pipelined |-> FALSE, extended |-> TRUE, describes |-> FALSE,
              requests |-> 5, edits |-> 0]

MCPreparing == {Preparing}
MCWaiting == {[Waiting EXCEPT !.requests = 1, !.edits = 0]}
=============================================================================
