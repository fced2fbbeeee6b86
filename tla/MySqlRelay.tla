----------------------------- MODULE MySqlRelay -----------------------------
(***************************************************************************)
(* The command phase of a MySQL session: the select! loop of               *)
(* handle_mysql_protocol (main.rs), its upstream-facing decoder, and the   *)
(* MySqlAnonymizer's column list, which a COM_QUERY clears, every column   *)
(* definition extends and every row is masked with (interceptor.rs).       *)
(*                                                                         *)
(* The client sends one command and waits for its answer, as the protocol  *)
(* demands.  An answer may ask for something in return: the contents of a  *)
(* file (LOAD DATA LOCAL INFILE), or a proof (COM_CHANGE_USER).            *)
(***************************************************************************)
EXTENDS MySqlCodec, Sequences

(* A definition named Step_Slip is Step with the slip made: it is no part of  *)
(* the specification, and shows which property would notice.                  *)

CONSTANTS Stmts,         \* the client's statements, each with its own columns
          NoStmt,        \* not a statement
          MultiResults   \* one COM_QUERY may bring two result sets

VARIABLES
    phase,         \* "command" while this loop runs, "closed" after it
    cause,         \* why the session ended
    uCodec,        \* state of the upstream-facing decoder
    deprecateEof,  \* CLIENT_DEPRECATE_EOF, on both legs or on neither
    asked,         \* the client: what it waits for, what it is asked for in return, or
                   \* that a refusal has come in between
    commands,      \* client -> proxy
    requests,      \* proxy -> server
    replies,       \* server -> proxy
    columns,       \* column_names, and with it target_cols: whose columns they are
    shown          \* what the client was sent last, and how it was treated

relayVars == <<phase, cause, uCodec, deprecateEof, asked, commands, requests,
               replies, columns, shown>>

Command(kind, s) == [kind |-> kind, of |-> s]
Commands == {Command(kind, s) : kind \in {"Query", "FieldList"}, s \in Stmts}
                \cup {Command(kind, NoStmt) :
                          kind \in {"Prepare", "Ping", "Stats", "ChangeUser"}}
Expecting == {c.kind : c \in Commands}

\* n is the number of columns of the result set the packet belongs to.
Answer(kind, s, n) == [kind |-> kind, of |-> s, n |-> n]
Short(kind)        == Answer(kind, NoStmt, 0)
Shown(packet, readAs) == [packet |-> packet, readAs |-> readAs, columns |-> columns]

RelayInit ==
    /\ deprecateEof \in BOOLEAN
    /\ asked = "nothing"
    /\ commands = <<>> /\ requests = <<>> /\ replies = <<>>
    /\ columns = <<>>
    /\ shown = Shown(Short("Ok"), "Ok")

-----------------------------------------------------------------------------
(* The client and the server *)

Issue ==
    /\ phase = "command"
    /\ asked = "nothing"
    /\ \E c \in Commands :
          /\ c.kind = "FieldList" => Len(columns) < MaxColumns  \* bound: they add up
          /\ commands' = <<c>> /\ asked' = c.kind
    /\ UNCHANGED <<phase, cause, uCodec, deprecateEof, requests, replies, columns,
                   shown>>

\* The file goes out in packets, an empty one last; a refusal in between is met
\* after it.
InReturn ==
    /\ phase = "command"
    /\ commands = <<>> /\ requests = <<>>
    /\ \/ /\ asked = "Prove"
          /\ commands' = <<Command("Reply", NoStmt)>> /\ asked' = "ChangeUser"
       \/ /\ asked \in {"Upload", "Spoilt"}
          /\ commands' = <<Command("Data", NoStmt)>> /\ UNCHANGED asked
       \/ /\ asked \in {"Upload", "Spoilt"}
          /\ commands' = <<Command("Done", NoStmt)>>
          /\ asked' = IF asked = "Upload" THEN "Query" ELSE "lost"
    /\ UNCHANGED <<phase, cause, uCodec, deprecateEof, requests, replies, columns,
                   shown>>

\* The text protocol's result set.  A row of 16 MB and more comes in several
\* packets; an error may end the rows.
Definitions(s, n) == [i \in 1..n |-> Answer("Column", s, n)]
ResultSet(s, n, end) ==
    <<Answer("Count", s, n)>>
        \o Definitions(s, n)
        \o (IF deprecateEof THEN <<>> ELSE <<Short("Eof")>>)
        \o <<Answer("HugeRow", s, n), Answer("Row", s, n)>>
        \o <<Short(end)>>
EndOfRows == {IF deprecateEof THEN "End" ELSE "Eof", "Err"}
ResultSets(s) ==
    {ResultSet(s, n, end) : n \in 1..MaxColumns, end \in EndOfRows}

Answers(request) ==
    CASE request.kind = "Query" ->
           {<<Short("Ok")>>, <<Short("Err")>>, <<Short("Infile")>>}
             \cup ResultSets(request.of)
             \cup (IF MultiResults
                   THEN {ResultSet(request.of, 1, CHOOSE e \in EndOfRows : e # "Err")
                            \o second : second \in UNION {ResultSets(t) : t \in Stmts}}
                   ELSE {})
      [] request.kind \in {"Ping", "Done"} -> {<<Short("Ok")>>, <<Short("Err")>>}
      [] request.kind = "Stats" -> {<<Short("Text")>>}
      [] request.kind = "Data"  -> {<<>>}
      [] request.kind = "FieldList" ->
           {<<Short("Err")>>}
             \cup {Definitions(request.of, n) \o <<Short(end)>> :
                      n \in 1..MaxColumns, end \in EndOfRows \ {"Err"}}
      [] request.kind = "ChangeUser" ->
           {<<Short("Ok")>>, <<Short("Err")>>, <<Short("Switch")>>}
      [] request.kind = "Reply" ->
           {<<Short("Ok")>>, <<Short("Err")>>, <<Short("Full")>>,
            <<Short("Fast"), Short("Ok")>>}

Serve ==
    /\ requests # <<>>
    /\ requests' = <<>>
    /\ \E answer \in Answers(Head(requests)) : replies' = answer
    /\ UNCHANGED <<phase, cause, uCodec, deprecateEof, asked, commands, columns,
                   shown>>

-----------------------------------------------------------------------------
(* The proxy *)

Close(why) == phase' = "closed" /\ cause' = why

\* What goes to the server in return for something is a command to the client-facing
\* decoder, too, and may begin with the byte of any.
CommandReadAs(c) ==
    CASE c.kind = "Query"             -> {"Query"}
      [] c.kind = "Prepare"           -> {"Binary"}
      [] c.kind \in {"Reply", "Data"} -> ReplyReadAs(At("Command")) \cup {"Binary"}
      [] OTHER                        -> {"Generic"}

\* Prepared statements are refused by the proxy itself (ER_UNSUPPORTED_PS, number 1),
\* and so is whatever begins like one.  That is the answer to a command; in the
\* middle of an exchange it has the wrong number, and the client gives up on it.
RefuseBinary ==
    /\ phase = "command"
    /\ commands # <<>>
    /\ "Binary" \in CommandReadAs(Head(commands))
    /\ commands' = <<>>
    /\ shown' = Shown(Short("Refusal"), Head(commands).kind)
    /\ asked' = CASE asked \in {"Upload", "Spoilt"}     -> "Spoilt"
                  [] Head(commands).kind = "Reply" -> "lost"
                  [] OTHER                         -> "nothing"
    /\ UNCHANGED <<phase, cause, uCodec, deprecateEof, requests, replies, columns>>

\* Every command brings the decoder back to the start of an answer, whatever the
\* last answer has led it to believe; a query also clears the columns.
Forward ==
    /\ phase = "command"
    /\ commands # <<>>
    /\ CommandReadAs(Head(commands)) # {"Binary"}
    /\ commands' = <<>>
    /\ requests' = commands
    /\ UNCHANGED <<phase, cause, deprecateEof, asked, replies, shown>>
ForwardCommand_KeepsColumns ==
    /\ Forward
    /\ uCodec' = At("Command")
    /\ UNCHANGED columns
ForwardCommand_KeepsDecoder ==
    /\ Forward
    /\ \E read \in CommandReadAs(Head(commands)) \ {"Binary"} :
          columns' = IF read = "Query" THEN <<>> ELSE columns
    /\ UNCHANGED uCodec
ForwardCommand ==
    /\ Forward
    /\ uCodec' = At("Command")
    /\ \E read \in CommandReadAs(Head(commands)) \ {"Binary"} :
          columns' = IF read = "Query" THEN <<>> ELSE columns

\* What the client does when an answer is complete.
AskedBy(packet) ==
    CASE packet.kind = "Infile"            -> "Upload"
      [] packet.kind \in {"Switch", "Full"} -> "Prove"
      [] OTHER                             -> "nothing"

\* Upstream -> client: a column definition is recorded, a row is masked, anything
\* else is forwarded as it is.
ForwardReply ==
    /\ phase = "command"
    /\ replies # <<>>
    /\ replies' = Tail(replies)
    /\ LET packet == Head(replies)
           read   == Decode(uCodec, packet, deprecateEof)
       IN \/ /\ read.kind # "Malformed"
             /\ uCodec' = read.state
             /\ shown' = Shown(packet, read.kind)
             /\ columns' = IF read.kind = "Column" THEN Append(columns, packet.of)
                                                   ELSE columns
             /\ asked' = IF Tail(replies) # <<>> \/ asked = "lost" THEN asked
                         ELSE AskedBy(packet)
             /\ UNCHANGED <<phase, cause>>
          \/ /\ read.kind = "Malformed"
             /\ Close("protocol")
             /\ UNCHANGED <<uCodec, shown, columns, asked>>
    /\ UNCHANGED <<deprecateEof, commands, requests>>

\* A peer closes, the idle timeout fires, or the proxy shuts down.
Stop ==
    /\ phase = "command"
    /\ Close("stopped")
    /\ UNCHANGED <<uCodec, deprecateEof, asked, commands, requests, replies,
                   columns, shown>>

LoopStep == RefuseBinary \/ ForwardCommand \/ ForwardReply

RelayNext == Issue \/ InReturn \/ Serve \/ LoopStep \/ Stop

-----------------------------------------------------------------------------
(* Properties *)

RelayTypeOK ==
    /\ deprecateEof \in BOOLEAN
    /\ asked \in {"nothing", "Upload", "Prove", "Spoilt", "lost"} \cup Expecting
    /\ columns \in Seq(Stmts)
    /\ uCodec \in DecoderStates

\* "a desynced response stream must not survive past the next command"
\* (handle_mysql_protocol): every row of a result set that follows, whatever was
\* asked before it, is read as a row and masked, and the columns it is masked by
\* are its own.
RowsOwnColumns ==
    shown.packet.kind \in {"Row", "HugeRow"} =>
        /\ shown.readAs = "Row"
        /\ Len(shown.columns) >= shown.packet.n
        /\ \A i \in 1..shown.packet.n : shown.columns[i] = shown.packet.of

\* Every command is answered, by the server or by the proxy, or the session ends.
CommandsAnswered ==
    asked \in Expecting ~> (asked \notin Expecting \/ phase = "closed")
=============================================================================
