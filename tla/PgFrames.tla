------------------------------ MODULE PgFrames ------------------------------
(***************************************************************************)
(* The framing of protocol/postgres.rs: PostgresCodec decodes messages out *)
(* of a buffer that grows as the network pleases, and encodes them again.  *)
(*                                                                         *)
(* A buffer is a sequence of units: the type of a message, a length, a     *)
(* count, the characters of a name, its NUL, the fixed part of a field...  *)
(* A length counts units as the code's counts bytes, itself included, and  *)
(* a value takes up as many units as it has tokens, so that masking one    *)
(* changes the length of its message.                                      *)
(***************************************************************************)
EXTENDS Masking, Integers

CONSTANTS MaxFrame,   \* MAX_FRAME_LEN
          MaxStartup  \* MAX_STARTUP_LEN

Unit(tag, value) == <<tag, value>>
Nul       == Unit("nul", 0)
Is(u, tag) == u[1] = tag

\* The bytes of a value, which know where they come from.
Size(cell)    == Len(Flat(cell))
BytesOf(cell) == [i \in 1..Size(cell) |-> <<"of", cell, i>>]

\* split_to gives the value back if the bytes taken are its own, all of them.
Garbled == Cell("garbled", <<>>)
CellOf(units) ==
    IF units = <<>> THEN Text(<<>>)
    ELSE IF Is(units[1], "of") /\ units = BytesOf(units[1][2]) THEN units[1][2]
    ELSE Garbled

-----------------------------------------------------------------------------
(* Encoding *)

Frame(type, payload) ==
    <<Unit("type", type), Unit("len", Len(payload) + 1)>> \o payload

String(chars) == <<Unit("chars", chars), Nul>>

EncodeField(field) ==
    String(field.name) \o <<Unit("fixed", <<field.oid, field.number>>)>>

EncodeValue(cell) ==
    IF cell = Null THEN <<Unit("size", -1)>>
                   ELSE <<Unit("size", Size(cell))>> \o BytesOf(cell)

PgMessage(kind, body) == [kind |-> kind, body |-> body]

PgEncode(message) ==
    LET body == message.body
    IN CASE message.kind = "RowDescription" ->
              Frame("T", <<Unit("count", Len(body))>> \o Flatten(EncodeField, body))
         [] message.kind = "DataRow" ->
              Frame("D", <<Unit("count", Len(body))>> \o Flatten(EncodeValue, body))
         [] message.kind = "Query"   -> Frame("Q", String(body))
         [] message.kind = "Parse"   ->
              Frame("P", String(body.statement) \o String(body.query)
                            \o <<Unit("count", Len(body.types))>> \o body.types)
         [] message.kind = "Startup" ->
              LET params == Flatten(LAMBDA pair : String(pair[1]) \o String(pair[2]), body)
              IN <<Unit("len", Len(params) + 3), Unit("version", "3.0")>>
                    \o params \o <<Nul>>
         [] message.kind = "SSLRequest" ->
              <<Unit("len", 2), Unit("version", "ssl")>>
         [] OTHER -> Frame(message.kind, body)

\* Messages that can be sent, the kinds of a direction aside.
IsPgMessage(message) ==
    LET body == message.body
    IN /\ message = PgMessage(message.kind, body)
       /\ Len(PgEncode(message)) <= IF message.kind \in {"Startup", "SSLRequest"}
                                   THEN MaxStartup ELSE MaxFrame + 1
       /\ CASE message.kind = "RowDescription" ->
                 IsList(body) /\ \A i \in DOMAIN body :
                     body[i] = Field(body[i].name, body[i].oid, body[i].number)
            [] message.kind = "DataRow" ->
                 IsList(body) /\ \A i \in DOMAIN body : IsCell(body[i])
            [] message.kind = "Parse"   ->
                 /\ body = [statement |-> body.statement, query |-> body.query,
                            types |-> body.types]
                 /\ IsList(body.query) /\ IsList(body.types)
            [] message.kind = "Startup" ->
                 IsList(body) /\ \A i \in DOMAIN body :
                     body[i] = <<body[i][1], body[i][2]>> /\ body[i][1] # NoName
            [] message.kind = "SSLRequest" -> body = <<>>
            [] OTHER -> IsList(body)

-----------------------------------------------------------------------------
(* Decoding *)

\* A reader goes through a payload; one that runs past its end has failed.
Reader(rest, items, ok) == [rest |-> rest, items |-> items, ok |-> ok]
Failed == Reader(<<>>, <<>>, FALSE)

Advance(reader, n, item) ==
    Reader(SubSeq(reader.rest, n + 1, Len(reader.rest)), Append(reader.items, item), TRUE)

Repeat(n, Step(_), reader) ==
    LET after[i \in 0..n] ==
          IF i = 0 THEN reader
          ELSE IF after[i - 1].ok THEN Step(after[i - 1]) ELSE Failed
    IN after[n]

\* read_cstring_bytes: up to the first NUL, which must be there.
ReadString(reader) ==
    LET nuls == {i \in DOMAIN reader.rest : reader.rest[i] = Nul}
        at   == Min(nuls)
    IN IF nuls = {} THEN Failed
       ELSE Advance(reader, at, IF at = 1 THEN NoName ELSE reader.rest[1][2])

ReadFixed(reader, tag) ==
    IF reader.rest = <<>> \/ ~Is(Head(reader.rest), tag) THEN Failed
    ELSE Advance(reader, 1, Head(reader.rest)[2])

ReadField(reader) ==
    LET name  == ReadString(Reader(reader.rest, <<>>, TRUE))
        fixed == ReadFixed(name, "fixed")
    IN IF ~name.ok \/ ~fixed.ok THEN Failed
       ELSE Reader(fixed.rest,
                   Append(reader.items, Field(fixed.items[1], fixed.items[2][1],
                                              fixed.items[2][2])), TRUE)

ReadValue(reader) ==
    IF reader.rest = <<>> THEN Failed
    ELSE LET size == Head(reader.rest)[2]
         IN CASE size = -1 -> Advance(reader, 1, Null)
              [] size < -1 \/ size >= Len(reader.rest) -> Failed
              [] OTHER ->
                    Advance(reader, size + 1, CellOf(SubSeq(reader.rest, 2, size + 1)))

\* A payload read as what its type says; trailing units are dropped.
Counted(payload, Step(_)) ==
    IF payload = <<>> THEN Failed
    ELSE Repeat(Head(payload)[2], Step, Reader(Tail(payload), <<>>, TRUE))

ReadParse(payload) ==
    LET strings == Repeat(2, ReadString, Reader(payload, <<>>, TRUE))
    IN IF ~strings.ok \/ strings.rest = <<>> THEN Failed
       ELSE LET n == Head(strings.rest)[2]
            IN IF Len(strings.rest) <= n THEN Failed
               ELSE Reader(<<>>, [statement |-> strings.items[1],
                                  query     |-> strings.items[2],
                                  types     |-> SubSeq(strings.rest, 2, n + 1)], TRUE)

\* Key and value by turns, up to an empty key or the end, where the reader stays.
ReadParam(reader) ==
    LET key   == ReadString(Reader(reader.rest, <<>>, TRUE))
        value == ReadString(key)
    IN CASE reader.rest = <<>> -> reader
         [] reader.rest # <<>> /\ ~key.ok -> Failed
         [] reader.rest # <<>> /\ key.ok /\ key.items[1] = NoName -> reader
         [] reader.rest # <<>> /\ key.ok /\ key.items[1] # NoName /\ ~value.ok -> Failed
         [] OTHER -> Reader(value.rest, Append(reader.items, value.items), TRUE)
ReadParams(reader) == Repeat(Len(reader.rest), ReadParam, reader)

\* What decode returns: nothing yet, an error, or a message; and the buffer.
Result(status, message, rest) ==
    [status |-> status, message |-> message, rest |-> rest]
NoMessage    == PgMessage("none", <<>>)
More(buf)    == Result("more", NoMessage, buf)
Malformed    == Result("malformed", NoMessage, <<>>)
Read(kind, reader, rest) ==
    IF reader.ok THEN Result("message", PgMessage(kind, reader.items), rest)
                 ELSE Malformed

DecodeStartup(buf) ==
    LET length  == buf[1][2]
        rest    == SubSeq(buf, length + 1, Len(buf))
    IN CASE buf = <<>> -> More(buf)
         [] buf # <<>> /\ length \notin 2..MaxStartup -> Malformed
         [] buf # <<>> /\ length \in 2..MaxStartup /\ Len(buf) < length -> More(buf)
         [] OTHER ->
              IF buf[2] = Unit("version", "ssl")
              THEN Result("message", PgMessage("SSLRequest", <<>>), rest)
              ELSE Read("Startup", ReadParams(Reader(SubSeq(buf, 3, length), <<>>, TRUE)), rest)

ReadPayload(type, payload, rest) ==
    LET query == ReadString(Reader(payload, <<>>, TRUE))
    IN CASE type = "T" -> Read("RowDescription", Counted(payload, ReadField), rest)
         [] type = "D" -> Read("DataRow", Counted(payload, ReadValue), rest)
         [] type = "Q" -> Read("Query", IF query.ok THEN [query EXCEPT !.items = query.items[1]]
                                                    ELSE query, rest)
         [] type = "P" -> Read("Parse", ReadParse(payload), rest)
         [] OTHER -> Result("message", PgMessage(type, payload), rest)

DecodeRegular(buf) ==
    LET type    == buf[1][2]
        length  == buf[2][2]
        payload == SubSeq(buf, 3, length + 1)
        rest    == SubSeq(buf, length + 2, Len(buf))
    IN CASE Len(buf) < 2 -> More(buf)
         [] Len(buf) >= 2 /\ length \notin 1..MaxFrame -> Malformed
         [] Len(buf) >= 2 /\ length \in 1..MaxFrame /\ Len(buf) < length + 1 -> More(buf)
         [] OTHER -> ReadPayload(type, payload, rest)

\* is_startup: of the codec that faces the client, up to the startup message.
PgDecode(startup, buf) == IF startup THEN DecodeStartup(buf) ELSE DecodeRegular(buf)
=============================================================================
