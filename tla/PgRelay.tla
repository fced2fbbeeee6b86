------------------------------ MODULE PgRelay ------------------------------
(***************************************************************************)
(* One PostgreSQL session after authentication: the select! loop that      *)
(* forwards messages both ways (handle_postgres_protocol_inner in          *)
(* main.rs), the catalog bootstrap it runs at the first ReadyForQuery, and *)
(* the Anonymizer's column map, which a client's Query or Parse clears, a  *)
(* RowDescription fills and every DataRow is masked with (interceptor.rs). *)
(*                                                                         *)
(* The client and the server are modelled from what the protocol lets them *)
(* send.  The proxy reads client and server on their own schedules, so the *)
(* column map is shared between a request on its way up and the rows of an *)
(* earlier one on their way down.                                          *)
(***************************************************************************)
EXTENDS Naturals, FiniteSets, SequencesExt

(* A definition named Step_Slip is Step with the slip made: it is no part of  *)
(* the specification, and shows which property would notice.                  *)

CONSTANTS Stmts,         \* the client's statements, each with its own columns
          NoStmt,        \* not a statement
          Styles,        \* ways of a client and an operator to look at
          CatalogSize    \* rows of the catalog query's answer

\* A client may send before its last answer is in; it may use Parse, Bind +
\* Execute and Sync; it may use Describe.  requests bounds the messages it sends,
\* edits the changes an operator makes to the rules or to masking_enabled.
ClientStyles ==
    [pipelined : BOOLEAN, extended : BOOLEAN, describes : BOOLEAN,
     requests : Nat, edits : Nat]

ASSUME PgRelayAssumption ==
    /\ IsFiniteSet(Stmts)
    /\ NoStmt \notin Stmts
    /\ Styles \subseteq ClientStyles
    /\ CatalogSize \in Nat

VARIABLES
    style,       \* the client and operator of this session
    rules,       \* version of config.rules; 0 is the empty list
    enabled,     \* config.masking_enabled
    edits,       \* changes made to the two
    outstanding, \* ReadyForQuery messages the client still expects
    sent,        \* messages the client has sent
    prepared,    \* statements the client has parsed
    fromClient,  \* client -> proxy
    toServer,    \* proxy -> server
    fromServer,  \* server -> proxy
    answers,     \* all the server has ever answered to the client's messages
    delivered,   \* proxy -> client, all of it
    relay,       \* the proxy: "relaying", "bootstrapping" or "closed"
    bootDone,    \* postgres_oid_bootstrap_done
    bootRules,   \* the rules when the bootstrap was decided
    loaded,      \* catalog rows registered with the Anonymizer
    colMap       \* target_cols and column_labels

config     == <<style, rules, enabled, edits>>
client     == <<outstanding, sent, prepared>>
anonymizer == <<loaded, colMap>>
boot       == <<bootDone, bootRules>>
relayVars == <<config, client, fromClient, toServer, fromServer, answers,
               delivered, relay, boot, anonymizer>>

\* Requests, and the catalog query of the proxy itself.
Request(kind, s) == [kind |-> kind, of |-> s]
CatalogQuery == Request("Catalog", NoStmt)
Sync         == Request("Sync", NoStmt)

\* Answers: RowDescription, DataRow, ReadyForQuery; "Other" stands for the
\* messages the loop only forwards (ErrorResponse, CommandComplete...).  via is
\* the kind of request answered.
Answer(kind, s, via) == [kind |-> kind, of |-> s, via |-> via]
ReadyForQuery        == Answer("Z", NoStmt, "Sync")

\* Which statement's description the map was made from, under which version of
\* the rules, and whether the catalog was there to resolve provenance.
NoMap == [stmt |-> NoStmt, rules |-> 0, provenance |-> FALSE]

RelayInit ==
    /\ style \in Styles
    /\ rules \in 0..1
    /\ enabled = TRUE
    /\ edits = 0
    /\ outstanding = 1
    /\ sent = 0
    /\ prepared = {}
    /\ fromClient = <<>>
    /\ toServer = <<>>
    /\ fromServer = <<ReadyForQuery>>
    /\ answers = <<ReadyForQuery>>
    /\ delivered = <<>>
    /\ relay = "relaying"
    /\ bootDone = FALSE
    /\ bootRules = 0
    /\ loaded = 0
    /\ colMap = NoMap

-----------------------------------------------------------------------------
(* The client.  It may send nothing before the ReadyForQuery that ends startup. *)

Send(request, readies) ==
    /\ relay # "closed"
    /\ delivered # <<>>
    /\ sent < style.requests
    /\ style.pipelined \/ outstanding = 0
    /\ sent' = sent + 1
    /\ outstanding' = outstanding + readies
    /\ fromClient' = Append(fromClient, request)
    /\ UNCHANGED <<config, toServer, fromServer, answers, delivered, relay,
                   boot, anonymizer>>

SendQuery(s)   == Send(Request("Query", s), 1) /\ UNCHANGED prepared
SendParse(s)   == /\ style.extended
                  /\ Send(Request("Parse", s), 0)
                  /\ prepared' = prepared \cup {s}
SendExecute(s) == /\ style.extended
                  /\ s \in prepared
                  /\ Send(Request("Execute", s), 0)
                  /\ UNCHANGED prepared
SendSync       == style.extended /\ Send(Sync, 1) /\ UNCHANGED prepared
SendDescribe(s) == /\ style.describes
                   /\ s \in prepared
                   /\ Send(Request("Describe", s), 0)
                   /\ UNCHANGED prepared

-----------------------------------------------------------------------------
(* The server: it answers one request after the other *)

\* What a request may be answered with.  The catalog query can fail at once, or
\* part way through its rows.
Answers(request) ==
    LET Of(kind) == Answer(kind, request.of, request.kind)
        rows     == <<Of("D"), Of("D")>>
        Catalog(n) == [i \in 1..n |-> Of("D")]
    IN CASE request.kind = "Query" ->
              {<<Of("T")>> \o rows \o <<ReadyForQuery>>,
               <<Of("Other"), ReadyForQuery>>}
         [] request.kind = "Parse"    -> {<<Of("Other")>>}
         [] request.kind = "Describe" -> {<<Of("T")>>}
         [] request.kind = "Execute"  -> {rows}
         [] request.kind = "Sync"     -> {<<ReadyForQuery>>}
         [] request.kind = "Catalog"  ->
              {<<Of("T")>> \o Catalog(CatalogSize) \o <<ReadyForQuery>>}
              \cup {Catalog(n) \o <<Of("Other"), ReadyForQuery>> :
                        n \in 0..(CatalogSize - 1)}

Serve ==
    /\ toServer # <<>>
    /\ relay # "closed"
    /\ toServer' = Tail(toServer)
    /\ \E as \in Answers(Head(toServer)) :
          /\ fromServer' = fromServer \o as
          /\ answers' = IF Head(toServer) = CatalogQuery THEN answers
                                                         ELSE answers \o as
    /\ UNCHANGED <<config, client, fromClient, delivered, relay, boot,
                   anonymizer>>

-----------------------------------------------------------------------------
(* The client -> upstream arm *)

ResetColumns == colMap' = NoMap

\* PostgresCodec reads every 'D' as a DataRow, whichever side it comes from: a
\* Describe does not parse as one, and the session ends.
Decodes(request) == request.kind # "Describe"

Forward(request) ==
    /\ toServer' = Append(toServer, request)
    /\ UNCHANGED relay

ForwardClient ==
    /\ relay = "relaying"
    /\ fromClient # <<>>
    /\ fromClient' = Tail(fromClient)
    /\ LET request == Head(fromClient)
       IN \/ /\ Decodes(request)
             /\ Forward(request)
             /\ IF request.kind \in {"Query", "Parse"} THEN ResetColumns
                                                       ELSE UNCHANGED colMap
          \/ /\ ~Decodes(request)
             /\ relay' = "closed"
             /\ UNCHANGED <<toServer, colMap>>
    /\ UNCHANGED <<config, client, fromServer, answers, delivered, boot, loaded>>

-----------------------------------------------------------------------------
(* The upstream -> client arm *)

Deliver(answer, map, raw) ==
    delivered' = Append(delivered, [answer |-> answer, map |-> map, raw |-> raw])

NextAnswer(kind) ==
    /\ relay = "relaying"
    /\ fromServer # <<>>
    /\ Head(fromServer).kind = kind
    /\ fromServer' = Tail(fromServer)

\* The first ReadyForQuery is forwarded before the bootstrap it sets off, which
\* is skipped for good when there are no rules.
FirstReady ==
    /\ NextAnswer("Z")
    /\ ~bootDone
    /\ Deliver(ReadyForQuery, NoMap, FALSE)
    /\ outstanding' = outstanding - 1
    /\ bootRules' = rules
    /\ \/ /\ rules = 0
          /\ bootDone' = TRUE
          /\ UNCHANGED <<relay, toServer>>
       \/ /\ rules # 0
          /\ relay' = "bootstrapping"
          /\ toServer' = Append(toServer, CatalogQuery)
          /\ UNCHANGED bootDone
    /\ UNCHANGED <<config, sent, prepared, fromClient, answers, anonymizer>>

LaterReady ==
    /\ NextAnswer("Z")
    /\ bootDone
    /\ Deliver(ReadyForQuery, NoMap, FALSE)
    /\ outstanding' = outstanding - 1
    /\ UNCHANGED <<config, sent, prepared, fromClient, toServer, answers,
                   relay, boot, anonymizer>>

\* on_row_description: the rules of this moment decide for the whole result set.
Description_KeepsOldMap ==
    /\ NextAnswer("T")
    /\ Deliver(Head(fromServer), NoMap, FALSE)
    /\ colMap' = IF colMap = NoMap
                 THEN [stmt |-> Head(fromServer).of, rules |-> rules,
                       provenance |-> loaded = CatalogSize]
                 ELSE colMap
    /\ UNCHANGED <<config, client, fromClient, toServer, answers, relay, boot,
                   loaded>>
Description ==
    /\ NextAnswer("T")
    /\ Deliver(Head(fromServer), NoMap, FALSE)
    /\ colMap' = [stmt |-> Head(fromServer).of, rules |-> rules,
                  provenance |-> loaded = CatalogSize]
    /\ UNCHANGED <<config, client, fromClient, toServer, answers, relay, boot,
                   loaded>>

\* on_data_row: masking_enabled is read for every row.
Row ==
    /\ NextAnswer("D")
    /\ Deliver(Head(fromServer), colMap, ~enabled)
    /\ UNCHANGED <<config, client, fromClient, toServer, answers, relay, boot,
                   anonymizer>>

Other ==
    /\ NextAnswer("Other")
    /\ Deliver(Head(fromServer), NoMap, FALSE)
    /\ UNCHANGED <<config, client, fromClient, toServer, answers, relay, boot,
                   anonymizer>>

\* bootstrap_postgres_table_oid_map reads the upstream alone until the next
\* ReadyForQuery, registers what DataRows it meets and drops everything else,
\* an ErrorResponse included.
Bootstrap_EndsAtFirstOther ==
    /\ relay = "bootstrapping"
    /\ fromServer # <<>>
    /\ fromServer' = Tail(fromServer)
    /\ loaded' = IF Head(fromServer).kind = "D" THEN loaded + 1 ELSE loaded
    /\ IF Head(fromServer).kind \in {"Z", "Other"}
       THEN relay' = "relaying" /\ bootDone' = TRUE
       ELSE UNCHANGED <<relay, bootDone>>
    /\ UNCHANGED <<config, client, fromClient, toServer, answers, delivered,
                   bootRules, colMap>>
Bootstrap_CountsEverything ==
    /\ relay = "bootstrapping"
    /\ fromServer # <<>>
    /\ fromServer' = Tail(fromServer)
    /\ loaded' = loaded + 1
    /\ IF Head(fromServer).kind = "Z"
       THEN relay' = "relaying" /\ bootDone' = TRUE
       ELSE UNCHANGED <<relay, bootDone>>
    /\ UNCHANGED <<config, client, fromClient, toServer, answers, delivered,
                   bootRules, colMap>>
Bootstrap_WaitsForNextReady ==
    /\ relay = "bootstrapping"
    /\ fromServer # <<>>
    /\ fromServer' = Tail(fromServer)
    /\ loaded' = IF Head(fromServer).kind = "D" THEN loaded + 1 ELSE loaded
    /\ UNCHANGED <<config, client, fromClient, toServer, answers, delivered,
                   relay, boot, colMap>>
Bootstrap ==
    /\ relay = "bootstrapping"
    /\ fromServer # <<>>
    /\ fromServer' = Tail(fromServer)
    /\ loaded' = IF Head(fromServer).kind = "D" THEN loaded + 1 ELSE loaded
    /\ IF Head(fromServer).kind = "Z"
       THEN relay' = "relaying" /\ bootDone' = TRUE
       ELSE UNCHANGED <<relay, bootDone>>
    /\ UNCHANGED <<config, client, fromClient, toServer, answers, delivered,
                   bootRules, colMap>>

\* A peer closes, the idle timeout fires or the shutdown arm is taken; only a
\* lost upstream ends a bootstrap.
Close ==
    /\ relay # "closed"
    /\ relay' = "closed"
    /\ UNCHANGED <<config, client, fromClient, toServer, fromServer, answers,
                   delivered, boot, anonymizer>>

Closed == relay = "closed" /\ UNCHANGED relayVars

-----------------------------------------------------------------------------
(* The operator, through the management API or a reload *)

EditRules ==
    /\ edits < style.edits
    /\ relay # "closed"
    /\ edits' = edits + 1
    /\ rules' = rules + 1
    /\ UNCHANGED <<style, enabled, client, fromClient, toServer, fromServer, answers,
                   delivered, relay, boot, anonymizer>>

ToggleMasking ==
    /\ edits < style.edits
    /\ relay # "closed"
    /\ edits' = edits + 1
    /\ enabled' = ~enabled
    /\ UNCHANGED <<style, rules, client, fromClient, toServer, fromServer, answers,
                   delivered, relay, boot, anonymizer>>

-----------------------------------------------------------------------------

Upstream == FirstReady \/ LaterReady \/ Description \/ Row \/ Other

RelayNext ==
    \/ ForwardClient \/ Upstream \/ Bootstrap \/ Close \/ Closed
    \/ Serve \/ EditRules \/ ToggleMasking \/ SendSync
    \/ \E s \in Stmts : \/ SendQuery(s) \/ SendParse(s) \/ SendExecute(s)
                        \/ SendDescribe(s)

RelaySpec == RelayInit /\ [][RelayNext]_relayVars

-----------------------------------------------------------------------------
(* Properties *)

RequestKinds == {"Query", "Parse", "Execute", "Describe", "Sync", "Catalog"}
Requests == [kind : RequestKinds, of : Stmts \cup {NoStmt}]
ServerAnswers == [kind : {"T", "D", "Z", "Other"}, of : Stmts \cup {NoStmt},
                  via : RequestKinds]
Maps == [stmt : Stmts \cup {NoStmt}, rules : Nat, provenance : BOOLEAN]

RelayTypeOK ==
    /\ style \in Styles
    /\ rules \in Nat
    /\ enabled \in BOOLEAN
    /\ edits \in 0..style.edits
    /\ outstanding \in 0..(style.requests + 1)
    /\ sent \in 0..style.requests
    /\ prepared \in SUBSET Stmts
    /\ fromClient \in Seq(Requests)
    /\ toServer \in Seq(Requests)
    /\ fromServer \in Seq(ServerAnswers)
    /\ answers \in Seq(ServerAnswers)
    /\ delivered \in Seq([answer : ServerAnswers, map : Maps, raw : BOOLEAN])
    /\ relay \in {"relaying", "bootstrapping", "closed"}
    /\ bootDone \in BOOLEAN
    /\ bootRules \in Nat
    /\ loaded \in 0..CatalogSize
    /\ colMap \in Maps

DeliveredRows == {i \in DOMAIN delivered : delivered[i].answer.kind = "D"}
MaskedRows    == {i \in DeliveredRows : ~delivered[i].raw}

\* The client sees the server's answers to its own messages, all of them and in
\* order: nothing of the catalog exchange reaches it, and the catalog exchange
\* swallows none of its answers.
Transparent ==
    IsPrefix([i \in DOMAIN delivered |-> delivered[i].answer], answers)

\* reset_columns, interceptor.rs: "so a stale index->strategy map from a
\* previous statement can never mask the wrong columns".
\* The code does not guarantee it: see the run stale_map.
Own(i) == delivered[i].answer.of
NeverWrongColumns ==
    \A i \in MaskedRows : delivered[i].map.stmt \in {Own(i), NoStmt}

\* What does hold of it, whatever the client pipelines and mixes: the rows of a
\* simple query are never masked with the columns of another statement.
SimpleRowsOwnColumns ==
    \A i \in MaskedRows :
        delivered[i].answer.via = "Query" =>
            delivered[i].map.stmt \in {Own(i), NoStmt}

\* A client that sends one simple query and waits for its answer.
Waits == ~style.pipelined /\ ~style.extended

\* "Fail closed: never forward the original bytes of a column an operator
\* explicitly marked as sensitive" (interceptor.rs): for a client that waits for
\* its answers, no row is forwarded without the map of its own description.
RowsHaveTheirMap ==
    Waits => \A i \in MaskedRows : delivered[i].map.stmt = Own(i)

\* A result set is masked under one version of the rules from its first row to
\* its last, whatever the operator changes meanwhile, for a client that waits for
\* its answers (the next request of another one clears the map).
OneRuleSetPerResult ==
    Waits => \A i \in DeliveredRows :
        i + 1 \in DeliveredRows => delivered[i].map = delivered[i + 1].map

\* The bootstrap is over before a statement of the client is described: when it
\* succeeds, no row is masked without provenance.
CatalogBeforeRows ==
    loaded = CatalogSize => \A i \in DeliveredRows :
        delivered[i].map.stmt # NoStmt => delivered[i].map.provenance

\* on_row_description decides, on_data_row masks by what was decided: the four
\* together say whose columns and which rules the rows of a client are masked by.
RowsOwnRules ==
    SimpleRowsOwnColumns /\ RowsHaveTheirMap /\ OneRuleSetPerResult /\ CatalogBeforeRows

\* README: "If the PostgreSQL catalog bootstrap fails ... it is retried on the
\* next ReadyForQuery".
BootstrapRetried == bootDone /\ bootRules # 0 => loaded = CatalogSize

\* Every request is answered, or the session ends: under the fairness of PgSession.
Answered == (outstanding > 0) ~> (outstanding = 0 \/ relay = "closed")
=============================================================================
