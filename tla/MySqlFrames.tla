---------------------------- MODULE MySqlFrames ----------------------------
(***************************************************************************)
(* The framing of protocol/mysql.rs: packets of at most 16 MB, a payload   *)
(* reassembled from as many as it takes, and the writers of what the proxy *)
(* changes (a row, a query) and of what it forwards as it came.  Which     *)
(* state takes a packet for what is MySqlCodec's matter; here a payload    *)
(* says itself what it is.                                                 *)
(***************************************************************************)
EXTENDS PgFrames

CONSTANTS Chunk,    \* 0xFFFFFF, the longest payload of one packet
          SeqIds,   \* 256, the number of sequence ids
          OneByte   \* 251, the first length that takes more than one byte

ASSUME FramesAssumption ==
    /\ {Chunk, SeqIds, OneByte, MaxFrame, MaxStartup} \subseteq Nat \ {0}

-----------------------------------------------------------------------------
(* Encoding *)

Packet(payload, id) == <<Unit("len", Len(payload)), Unit("id", id)>> \o payload

\* write_packet_chunked: full packets, then one that is not, if only an empty one.
WriteChunked(payload, id) ==
    LET full == Len(payload) \div Chunk
    IN FlattenSeq([i \in 1..(full + 1) |->
          Packet(SubSeq(payload, (i - 1) * Chunk + 1,
                        IF i > full THEN Len(payload) ELSE i * Chunk),
                 (id + i - 1) % SeqIds)])

\* write_lenenc_int, in its short form and one of its long ones.
LenencInt(n) == IF n < OneByte THEN <<Unit("size", n)>>
                               ELSE <<Unit("wide", 0), Unit("size", n)>>

LenencValue(cell) ==
    IF cell = Null THEN <<Unit("null", 0)>> ELSE LenencInt(Size(cell)) \o BytesOf(cell)

MySqlPacket(kind, id, body) == [kind |-> kind, id |-> id, body |-> body]

Char(c) == <<Unit("char", c)>>

\* encode_query alone writes a single header, of a length that has three bytes.
MySqlEncode(packet) ==
    CASE packet.kind = "ResultRow" ->
           WriteChunked(Flatten(LenencValue, packet.body), packet.id)
      [] packet.kind = "Query" ->
           <<Unit("len", (Len(packet.body) + 1) % (Chunk + 1)), Unit("id", packet.id),
             Unit("command", "query")>> \o Flatten(Char, packet.body)
      [] packet.kind = "Column" ->
           WriteChunked(<<Unit("column", packet.body)>>, packet.id)
      [] OTHER -> WriteChunked(packet.body, packet.id)

\* Packets that can be sent, the kinds of a direction aside.  A payload that is
\* forwarded as it came is none of those that are taken apart.
IsMySqlPacket(packet) ==
    LET body == packet.body
    IN /\ packet = MySqlPacket(packet.kind, packet.id, body)
       /\ packet.id \in 0..(SeqIds - 1)
       /\ packet.kind = "ResultRow" => IsList(body) /\ \A i \in DOMAIN body : IsCell(body[i])
       /\ packet.kind = "Query" => IsList(body)
       /\ packet.kind = "Generic" =>
             /\ IsList(body)
             /\ body # <<>> => /\ body[1][1] \notin {"column", "size", "wide", "null"}
                               /\ body[1] # Unit("command", "query")

-----------------------------------------------------------------------------
(* Decoding *)

\* read_lenenc_int, and the value behind it.
ReadLenenc(reader) ==
    LET rest == reader.rest
        head == IF rest = <<>> THEN Nul ELSE Head(rest)
        at   == IF Is(head, "wide") THEN 2 ELSE 1
        size == rest[at][2]
    IN CASE rest = <<>> -> Failed
         [] Is(head, "null") -> Advance(reader, 1, Null)
         [] ~Is(head, "null") /\ rest # <<>> /\ Len(rest) < at -> Failed
         [] ~Is(head, "null") /\ rest # <<>> /\ Len(rest) >= at /\ Len(rest) < at + size ->
              Failed
         [] OTHER -> Advance(reader, at + size, CellOf(SubSeq(rest, at + 1, at + size)))

\* dispatch, of a whole payload: columns is the column count of the result set.
Dispatch(payload, id, columns) ==
    LET first == IF payload = <<>> THEN Nul ELSE Head(payload)
        row   == Repeat(columns, ReadLenenc, Reader(payload, <<>>, TRUE))
    IN CASE Is(first, "column") -> Reader(<<>>, MySqlPacket("Column", id, first[2]), TRUE)
         [] first = Unit("command", "query") ->
              Reader(<<>>, MySqlPacket("Query", id, Flatten(LAMBDA u : <<u[2]>>, Tail(payload))), TRUE)
         [] first[1] \in {"size", "wide", "null"} ->
              IF row.ok THEN Reader(<<>>, MySqlPacket("ResultRow", id, row.items), TRUE)
                        ELSE Failed
         [] OTHER -> Reader(<<>>, MySqlPacket("Generic", id, payload), TRUE)

\* A payload of exactly Chunk continues in the next packet and keeps the first id.
\* pending is what has been put together so far.
NoPending == [id |-> 0, payload |-> <<>>, some |-> FALSE]

MySqlRead_EveryPacket(pending, buf, columns) ==
    LET length  == buf[1][2]
        payload == SubSeq(buf, 3, length + 2)
        rest    == SubSeq(buf, length + 3, Len(buf))
        whole   == Dispatch(payload, buf[2][2], columns)
    IN CASE Len(buf) < 2 -> [More(buf) EXCEPT !.message = NoPending]
         [] Len(buf) >= 2 /\ Len(buf) < length + 2 -> [More(buf) EXCEPT !.message = NoPending]
         [] OTHER -> IF whole.ok THEN Result("message", whole.items, rest) ELSE Malformed
MySqlRead(pending, buf, columns) ==
    LET length  == buf[1][2]
        id      == IF pending.some THEN pending.id ELSE buf[2][2]
        payload == pending.payload \o SubSeq(buf, 3, length + 2)
        rest    == SubSeq(buf, length + 3, Len(buf))
        whole   == Dispatch(payload, id, columns)
    IN CASE Len(buf) < 2 -> [More(buf) EXCEPT !.message = pending]
         [] Len(buf) >= 2 /\ Len(buf) < length + 2 -> [More(buf) EXCEPT !.message = pending]
         [] Len(buf) >= 2 /\ Len(buf) >= length + 2 /\ length = Chunk ->
              Result("part", [id |-> id, payload |-> payload, some |-> TRUE], rest)
         [] OTHER -> IF whole.ok THEN Result("message", whole.items, rest) ELSE Malformed
=============================================================================
