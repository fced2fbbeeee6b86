------------------------------ MODULE DataPath ------------------------------
(***************************************************************************)
(* One direction of one session: bytes arrive in pieces, messages are      *)
(* decoded out of them, column descriptions decide which rule each column  *)
(* is under, rows are masked, statements and changes go to the log ring,   *)
(* and everything is encoded again for the other side.                     *)
(***************************************************************************)
EXTENDS MySqlFrames, Redaction

(* A definition named Step_Slip is Step with the slip made: it is no part of  *)
(* the specification, and shows which property would notice.                  *)

CONSTANTS Jobs,      \* the sessions to look at, in a sequence
          RingSize   \* 100 entries of the log ring

(* A job is a protocol, a direction, the catalog known of PostgreSQL's tables,  *)
(* a policy, the messages the peer sends, bytes after them that are wrong, and  *)
(* the table and column each column of its results comes from.                  *)

VARIABLES
    job,       \* the session looked at
    wire,      \* bytes the peer has sent and the proxy has not read
    buf,       \* the codec's buffer
    startup,   \* PostgresCodec.is_startup
    pending,   \* MySqlCodec.pending_large
    targets,   \* the strategy of each column: target_cols
    labels,    \* the name of each column: column_labels, column_names
    delivered, \* the messages given to the encoder
    out,       \* bytes written to the other side
    ring,      \* AppState.logs, newest first
    masked,    \* MaskingStats.total()
    status     \* "open", or "closed" after an error

IsRow(message) == message.kind \in {"DataRow", "ResultRow"}

\* The columns a MySQL result has described up to a place in the traffic.
Described(j, i) == {k \in 1..i : j.traffic[k].kind = "Column"}

\* The messages of a direction, in an order its peer can send them in: a session of
\* PostgreSQL starts with SSLRequests and a startup message, and rows follow what
\* describes them.
Kinds(j) ==
    CASE j.protocol = "postgres" /\ j.side = "client" ->
             {"SSLRequest", "Startup", "Query", "Parse", "B", "S"}
      [] j.protocol = "postgres" /\ j.side = "server" ->
             {"RowDescription", "DataRow", "Z", "C", "E"}
      [] j.protocol = "mysql" /\ j.side = "client" -> {"Query", "Generic"}
      [] OTHER -> {"Column", "ResultRow", "Generic"}
InOrder(j, i) ==
    LET kind(k) == j.traffic[k].kind
        width   == Len(j.origins)
    IN /\ j.protocol = "postgres" /\ j.side = "client" =>
             (kind(i) \in {"SSLRequest", "Startup"} <=> \A k \in 1..(i - 1) : kind(k) = "SSLRequest")
       /\ kind(i) \in {"RowDescription", "DataRow", "ResultRow"} =>
             Len(j.traffic[i].body) = width
       /\ kind(i) = "DataRow" => \E k \in 1..(i - 1) : kind(k) = "RowDescription"
       /\ kind(i) = "Column" => Cardinality(Described(j, i)) <= width
       /\ kind(i) = "ResultRow" => width > 0 /\ Cardinality(Described(j, i)) = width
       /\ IsRow(j.traffic[i]) =>
             \A k \in DOMAIN j.traffic : kind(k) \in {"RowDescription", "Column"} => k < i

\* Where the columns come from is what the descriptions and the catalog say.
CatalogKnown(j) == j.protocol = "mysql" \/ j.catalog.columns # <<>>
OfOrigin(column, origin) ==
    origin # NoName => origin[2] # NoName /\ column.origin = origin[2]
                       /\ origin[1] # NoName /\ column.originTable = origin[1]
FieldOfOrigin(field, origin, catalog) ==
    origin # NoName =>
        /\ <<field.oid, field.number>> \in DOMAIN catalog.columns
        /\ origin[2] # NoName /\ catalog.columns[<<field.oid, field.number>>] = origin[2]
        /\ field.oid \in DOMAIN catalog.tables /\ origin[1] \in catalog.tables[field.oid]
Provenance(j) ==
    \A i \in DOMAIN j.traffic :
        LET message == j.traffic[i]
        IN CASE message.kind = "Column" ->
                  OfOrigin(message.body, j.origins[Cardinality(Described(j, i))])
             [] message.kind = "RowDescription" ->
                  CatalogKnown(j) => \A c \in DOMAIN message.body :
                      FieldOfOrigin(message.body[c], j.origins[c], j.catalog)
             [] OTHER -> TRUE

\* Bytes that the codec refuses, in the state the traffic leaves it in.
Refused(j) ==
    \A n \in 0..Len(j.garbage) :
        LET first == SubSeq(j.garbage, 1, n)
            asked == \A i \in DOMAIN j.traffic : j.traffic[i].kind = "SSLRequest"
            read  == IF j.protocol = "postgres" THEN PgDecode(j.side = "client" /\ asked, first)
                     ELSE MySqlRead(NoPending, first, Cardinality(Described(j, Len(j.traffic))))
        IN read.status \in {"more", "malformed"}

IsJob(j) ==
    /\ j.protocol \in {"postgres", "mysql"} /\ j.side \in {"client", "server"}
    /\ IsList(j.traffic) /\ IsList(j.garbage) /\ IsList(j.origins)
    /\ \A i \in DOMAIN j.traffic :
          /\ j.traffic[i].kind \in Kinds(j)
          /\ IF j.protocol = "postgres" THEN IsPgMessage(j.traffic[i])
                                        ELSE IsMySqlPacket(j.traffic[i])
          /\ InOrder(j, i)
    /\ IsList(j.policy.rules)
    /\ \A r \in DOMAIN j.policy.rules : j.policy.rules[r].strategy # NoRule
    /\ j.policy.heuristics.types \subseteq PiiTypes
    /\ Provenance(j)
    /\ Refused(j)

ASSUME DataPathAssumption ==
    /\ RingSize \in Nat \ {0}
    /\ \A i \in DOMAIN Jobs : IsJob(Jobs[i])

codec == <<startup, pending>>
vars  == <<job, wire, buf, codec, targets, labels, delivered, out, ring, masked, status>>

\* The peer writes every packet as its protocol has it.
PeerWrites(message) ==
    IF job.protocol = "postgres" THEN PgEncode(message)
    ELSE IF message.kind = "Query"
         THEN WriteChunked(<<Unit("command", "query")>> \o Flatten(Char, message.body), message.id)
         ELSE MySqlEncode(message)

Init ==
    /\ \E i \in DOMAIN Jobs : job = Jobs[i]
    /\ wire = Flatten(PeerWrites, job.traffic) \o job.garbage
    /\ buf = <<>>
    /\ startup = (job.protocol = "postgres" /\ job.side = "client")
    /\ pending = NoPending
    /\ targets = <<>>
    /\ labels = <<>>
    /\ delivered = <<>>
    /\ out = <<>>
    /\ ring = <<>>
    /\ masked = 0
    /\ status = "open"

\* The network hands over the next bytes, however many.
Arrive(n) ==
    /\ status = "open"
    /\ n \in 1..Len(wire)
    /\ buf' = buf \o SubSeq(wire, 1, n)
    /\ wire' = SubSeq(wire, n + 1, Len(wire))
    /\ UNCHANGED <<job, codec, targets, labels, delivered, out, ring, masked, status>>

Decoded ==
    IF job.protocol = "postgres" THEN PgDecode(startup, buf)
                                 ELSE MySqlRead(pending, buf, Len(targets))

\* send: the encoder of the other leg.
SendOn(message) ==
    /\ delivered' = Append(delivered, message)
    /\ out' = out \o IF job.protocol = "postgres" THEN PgEncode(message)
                                                  ELSE MySqlEncode(message)

Entry(kind, shown, names, inClear) ==
    [kind |-> kind, shown |-> shown, names |-> names, inClear |-> inClear]

AddLog_Unbounded(entry) == ring' = <<entry>> \o ring
AddLog_PopsFront(entry) ==
    ring' = <<entry>> \o IF Len(ring) < RingSize THEN ring ELSE Tail(ring)
\* add_log: the oldest makes way.
AddLog(entry) ==
    ring' = <<entry>> \o IF Len(ring) < RingSize THEN ring ELSE Front(ring)

\* A message out of the buffer, and the buffer and the reassembly without it.
Take(kinds) ==
    /\ status = "open"
    /\ Decoded.status = "message"
    /\ Decoded.message.kind \in kinds
    /\ buf' = Decoded.rest
    /\ pending' = NoPending

\* on_row_description and on_column_definition: rules as they are now.
Describe ==
    /\ Take({"RowDescription", "Column"})
    /\ LET message == Decoded.message
       IN /\ targets' = IF message.kind = "Column"
                        THEN Append(targets, MySqlTarget(message.body, job.policy.rules))
                        ELSE [i \in DOMAIN message.body |->
                                PgTarget(message.body[i], job.policy.rules, job.catalog)]
          /\ labels' = IF message.kind = "Column" THEN Append(labels, message.body.name)
                       ELSE [i \in DOMAIN message.body |-> message.body[i].name]
          /\ SendOn(message)
    /\ UNCHANGED <<job, wire, startup, ring, masked, status>>

\* on_data_row and on_result_row: what changed is counted and logged.
Row ==
    /\ Take({"DataRow", "ResultRow"})
    /\ LET message == Decoded.message
           row     == MaskRow(message.body, targets, job.policy)
       IN /\ SendOn([message EXCEPT !.body = row.values])
          /\ masked' = masked + Len(row.used)
          /\ IF row.shown = <<>> THEN UNCHANGED ring
             ELSE AddLog(Entry("DataMasked", row.shown,
                               {labels[i] : i \in row.told \cap DOMAIN labels}, {}))
    /\ UNCHANGED <<job, wire, startup, targets, labels, status>>

\* Query and Parse: the statement is logged, redacted, and forwarded.
Statement ==
    /\ Take({"Query", "Parse"})
    /\ LET message == Decoded.message
           sql == IF message.kind = "Parse" THEN message.body.query ELSE message.body
       IN /\ AddLog(Entry(message.kind, <<>>, {}, InClear(sql, job.protocol = "mysql")))
          /\ SendOn(message)
    /\ targets' = <<>>
    /\ labels' = <<>>
    /\ UNCHANGED <<job, wire, startup, masked, status>>

\* An SSLRequest that reaches the loop is answered with 'N' and not forwarded.
DenySsl ==
    /\ Take({"SSLRequest"})
    /\ UNCHANGED <<job, wire, startup, targets, labels, delivered, out, ring, masked, status>>

\* All other messages are forwarded as they came; regular ones follow a startup.
Others == {"Startup", "Generic"} \cup {"Z", "C", "E", "B", "S"}
Forward ==
    /\ Take(Others)
    /\ startup' = FALSE
    /\ SendOn(Decoded.message)
    /\ UNCHANGED <<job, wire, targets, labels, ring, masked, status>>

\* A packet that continues in the next one.
Reassemble ==
    /\ status = "open"
    /\ Decoded.status = "part"
    /\ pending' = Decoded.message
    /\ buf' = Decoded.rest
    /\ UNCHANGED <<job, wire, startup, targets, labels, delivered, out, ring, masked, status>>

\* What cannot be decoded ends the session.
Reject ==
    /\ status = "open"
    /\ Decoded.status = "malformed"
    /\ status' = "closed"
    /\ UNCHANGED <<job, wire, buf, codec, targets, labels, delivered, out, ring, masked>>

Finished ==
    /\ \/ status = "closed"
       \/ wire = <<>> /\ Decoded.status = "more"
    /\ UNCHANGED vars

Next ==
    \/ \E n \in 1..Len(wire) : Arrive(n)
    \/ Describe \/ Row \/ Statement \/ DenySsl \/ Forward
    \/ Reassemble \/ Reject \/ Finished

Spec == Init /\ [][Next]_vars

-----------------------------------------------------------------------------
(* Properties *)

Statuses == {"open", "closed"}

TypeOK ==
    /\ status \in Statuses
    /\ startup \in BOOLEAN
    /\ pending.some => Len(pending.payload) % Chunk = 0
    /\ Len(ring) <= RingSize
    /\ masked \in Nat
    /\ Len(delivered) <= Len(job.traffic)

\* The messages of the traffic that go on: SSLRequests, which come before all others,
\* are answered here.
Asked   == {i \in DOMAIN job.traffic : job.traffic[i].kind = "SSLRequest"}
Traffic == SubSeq(job.traffic, Cardinality(Asked) + 1, Len(job.traffic))
Rows == {i \in DOMAIN delivered : IsRow(delivered[i])}

\* "Forward the client's packet byte-for-byte", "a single header would silently
\* truncate" (mysql.rs): however the network cuts the stream, the other side is
\* sent the same messages in the same order under the same numbers, each framed
\* as its protocol has it, with nothing but the values of rows changed; and the
\* session breaks off at the first wrong byte, not before.
LongQuery(message) ==
    job.protocol = "mysql" /\ message.kind = "Query" /\ Len(message.body) + 1 >= Chunk
FramesWhole ==
    /\ \A i \in DOMAIN delivered :
          delivered[i] = [Traffic[i] EXCEPT !.body = delivered[i].body]
    /\ \A i \in DOMAIN delivered \ Rows : delivered[i] = Traffic[i]
    /\ \A i \in Rows :
          /\ Len(delivered[i].body) = Len(Traffic[i].body)
          /\ \A c \in DOMAIN delivered[i].body :
                delivered[i].body[c] = Null <=> Traffic[i].body[c] = Null
    /\ \/ \E i \in DOMAIN delivered : LongQuery(delivered[i])
       \/ out = Flatten(PeerWrites, delivered)
    /\ status = "closed" => job.garbage # <<>> /\ Len(delivered) = Len(Traffic)
    /\ wire = <<>> /\ Decoded.status = "more" /\ job.garbage = <<>> =>
          buf = <<>> /\ Len(delivered) = Len(Traffic)

\* The data's own tokens that a cell still shows.
Own(cell) == {i \in DOMAIN Flat(cell) : ~Flat(cell)[i].fake /\ Flat(cell)[i].kind # "gap"}

\* What the operator names is the column of a table, whatever a query calls it.
Names(rule, origin) ==
    origin # NoName /\ rule.table \in {AnyTable, origin[1]} /\ rule.column = origin[2]
Named(c) ==
    \E r \in DOMAIN job.policy.rules : Names(job.policy.rules[r], job.origins[c])

\* "True provenance when the bootstrap resolved it; aliases can't hide a protected
\* source column from a rule then" (on_row_description): no own token of a value
\* leaves from a column a rule names, under any alias, whatever its value is like.
\* Under a json rule (any in force, not this column's alone), from a document or scalar,
\* no string that is detected; a member shadowed by another of its key is no string
\* the proxy sees, and leaves if the document is not rewritten.
SharesGap(text, i) ==
    i > 2 /\ text[i].kind = "phone" /\ text[i - 1] = Gap /\ text[i - 2] = Fake("phone")
TextHidden(text, types) ==
    /\ Detected(text, types) => text[1].fake
    /\ \A i \in DOMAIN text :
          text[i].kind \in {"email", "phone"} \cap types => text[i].fake \/ SharesGap(text, i)
JsonHidden(cell, types) ==
    \A l \in DOMAIN cell.leaves :
        cell.leaves[l].role = "string" => TextHidden(cell.leaves[l].text, types)
UnderJson == \E r \in DOMAIN job.policy.rules : job.policy.rules[r].strategy = "json"
SensitiveHidden ==
    job.policy.enabled /\ CatalogKnown(job) =>
        \A r \in Rows : \A c \in DOMAIN delivered[r].body :
            Named(c) => LET cell == delivered[r].body[c]
                        IN \/ Own(cell) = {}
                           \/ /\ UnderJson /\ IsJson(cell)
                              /\ JsonHidden(cell, job.policy.heuristics.types)

\* "Mask email/phone occurrences embedded in free text" (mask_text_spans): under
\* the heuristics no address leaves, and no number but the second of two with one
\* character between them.  Not looked into are, of a document, its keys, its numbers and
\* its shadowed members; and of an array that has a whole element replaced, the other
\* elements: so of an array of arrays an address at the end of an inner one, being no
\* whole element for its brace, leaves beside those replaced.  What is no personal data
\* leaves as it came, except that a document of which a string is replaced is printed
\* anew: it loses its shadowed members, and its long numbers are rounded.
ArrayHidden(cell, came, types) ==
    IF cell = came THEN TextHidden(Flat(cell), types)
    ELSE \A l \in DOMAIN cell.leaves : Detected(cell.leaves[l].text, types) =>
                                             cell.leaves[l].text[1].fake
CellHidden(cell, came, types) ==
    CASE cell.shape = "document" -> JsonHidden(cell, types)
      [] cell.shape = "array"    -> ArrayHidden(cell, came, types)
      [] OTHER                   -> TextHidden(Flat(cell), types)
OnlyDetectedChanged(text, came, types) ==
    /\ Len(text) = Len(came)
    /\ \A i \in DOMAIN text : text[i] = came[i] \/ came[i].kind \in types
OnlyRounded(text, came) ==
    /\ Len(text) = Len(came)
    /\ \A i \in DOMAIN text :
          text[i] = came[i] \/ (came[i].kind = "long" /\ text[i] = Token("rounded"))
LeafReprinted(leaf, came, types) ==
    CASE came.role = "string" -> OnlyDetectedChanged(leaf.text, came.text, types)
      [] came.role = "other"  -> OnlyRounded(leaf.text, came.text)
      [] OTHER                -> leaf.text = <<>>
DocumentReprinted(cell, came, types) ==
    /\ DOMAIN cell.leaves = DOMAIN came.leaves
    /\ \A l \in DOMAIN came.leaves : LeafReprinted(cell.leaves[l], came.leaves[l], types)
    /\ \E l \in DOMAIN came.leaves :
          came.leaves[l].role = "string" /\ cell.leaves[l].text # came.leaves[l].text
ElseAsItCame(cell, came, types) ==
    IF came.shape = "document" THEN cell = came \/ DocumentReprinted(cell, came, types)
    ELSE OnlyDetectedChanged(Flat(cell), Flat(came), types)
DetectedHidden ==
    job.policy.enabled /\ job.policy.heuristics.enabled =>
        \A r \in Rows : \A c \in DOMAIN delivered[r].body :
            LET types == job.policy.heuristics.types
                cell  == delivered[r].body[c]
                came  == Traffic[r].body[c]
            IN targets[c] = NoRule =>
                   CellHidden(cell, came, types) /\ ElseAsItCame(cell, came, types)

\* Of some messages delivered, the one of which the entry at e tells, if all do.
Newest(e, places) == CHOOSE i \in places : Cardinality({k \in places : k >= i}) = e

\* "The record intentionally carries no pre-masking bytes", "metadata and generated
\* values, not result data" (interceptor.rs), redact_sql_literals (main.rs): the log ring
\* shows no token of a row, and of a row's columns only names that a description gave them
\* (which for a literal column without an alias MySQL makes of the literal itself).  It shows
\* a character of a literal, as the server's lexer finds them, only behind a place where
\* redaction and the server have fallen out of step: there the rest does go on "in
\* cleartext", against the comment of redact_sql_literals.
Sql(message) == IF message.kind = "Parse" THEN message.body.query ELSE message.body
Statements == {i \in DOMAIN delivered : delivered[i].kind \in {"Query", "Parse"}}
NamesOf(message) ==
    CASE message.kind = "Column"         -> {message.body.name}
      [] message.kind = "RowDescription" -> {message.body[c].name : c \in DOMAIN message.body}
      [] OTHER                           -> {}
NamesGiven(j) == UNION {NamesOf(j.traffic[i]) : i \in DOMAIN j.traffic}
OutOfStep(sql, i) == \E k \in Misleading(sql, job.protocol = "mysql") : k <= i
LogCarriesNoValue ==
    \A e \in DOMAIN ring :
        /\ \A i \in DOMAIN ring[e].shown : ring[e].shown[i].fake
        /\ ring[e].names \subseteq NamesGiven(job)
        /\ ring[e].kind # "DataMasked" =>
              LET sql == Sql(delivered[Newest(e, Statements)])
              IN \A i \in ring[e].inClear \cap Literals(sql, job.protocol = "mysql") :
                    OutOfStep(sql, i)

\* The ring tells of the last changes, newest first: every row that left other than
\* it came is counted, and is in the ring until enough others have followed.
ChangedRows == {i \in Rows : delivered[i] # Traffic[i]}
TokensOf(row) == UNION {Range(Flat(row.body[c])) : c \in DOMAIN row.body}
RingTellsRecent ==
    job.side = "server" =>
        LET n == Cardinality(ChangedRows)
        IN /\ Len(ring) = IF n < RingSize THEN n ELSE RingSize
           /\ \A e \in DOMAIN ring :
                 Range(ring[e].shown) \ {Fake("word")} \subseteq TokensOf(delivered[Newest(e, ChangedRows)])
           /\ masked >= n
           /\ n = 0 => masked = 0
=============================================================================
