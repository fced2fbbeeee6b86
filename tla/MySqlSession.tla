---------------------------- MODULE MySqlSession ----------------------------
(***************************************************************************)
(* A whole MySQL session (handle_mysql_protocol, main.rs): authentication  *)
(* (MySqlAuth), then the command phase (MySqlRelay), on one upstream       *)
(* decoder.  The session is the proxy's; the two ends go on by themselves. *)
(***************************************************************************)
EXTENDS MySqlAuth

CONSTANTS Stmts, NoStmt, MultiResults   \* of MySqlRelay

ASSUME MySqlSessionAssumption ==
    Stmts # {} /\ NoStmt \notin Stmts /\ MultiResults \in BOOLEAN

VARIABLES deprecateEof, asked, commands, requests, replies, columns, shown

relay == <<deprecateEof, asked, commands, requests, replies, columns, shown>>
vars  == <<authVars, relay>>

Relaying == INSTANCE MySqlRelay

\* handle_mysql_protocol runs one phase after the other; a client that has been
\* let in issues its commands.
Init == AuthInit /\ Relaying!RelayInit

AuthStep == AuthNext /\ UNCHANGED relay

CommandStep ==
    /\ Relaying!RelayNext
    /\ client.at = "in" \/ commands' = commands
    /\ UNCHANGED <<mode, verified, seq, rounds, cCodec, client, server, toProxy,
                   toClient, toServer, toUs, inOrder>>

\* The session has ended and nothing is left to be delivered.
Ended == phase = "closed" /\ UNCHANGED vars

Next == AuthStep \/ CommandStep \/ Ended

Spec == Init /\ [][Next]_vars

\* The proxy is polled, its deadlines fire, and the server answers commands;
\* nothing is assumed of the client, or of the server before it has let it in.
FairSpec ==
    /\ Spec
    /\ WF_vars((ProxyStep \/ AuthStepEnds) /\ UNCHANGED relay)
    /\ WF_vars(CommandStep /\ (Relaying!LoopStep \/ Relaying!Serve))

-----------------------------------------------------------------------------
(* Properties *)

TypeOK == AuthTypeOK /\ Relaying!RelayTypeOK

RowsOwnColumns == Relaying!RowsOwnColumns

\* HANDSHAKE_DEADLINE and the command loop: authentication ends, and every command
\* after it is answered.
SessionProgresses == AuthEnds /\ Relaying!CommandsAnswered

\* "a scramble whose first byte happens to be 0x03 would be decoded as COM_QUERY"
\* (MySqlState), "so a desynced response stream cannot persist" (set_command_state):
\* all the places where the proxy stumbles over a packet of a legal peer.  It breaks
\* off a passthrough, and the answers to COM_CHANGE_USER and COM_FIELD_LIST, which
\* look like the start of a result set; it refuses, prepared statements aside, a
\* piece of a file or of a proof, which may begin like one.  Everywhere else, through
\* any sequence of commands, what is sent is read for what it is.
StumblesOnlyThere ==
    /\ cause = "broken off" => ~mode.terminating
    /\ cause = "protocol" => asked \in {"ChangeUser", "FieldList"}
    /\ shown.packet.kind = "Refusal" => shown.readAs \in {"Prepare", "Reply", "Data"}
=============================================================================
