----------------------------- MODULE MySqlCodec -----------------------------
(***************************************************************************)
(* How iron-veil's MySqlCodec reads a packet (protocol/mysql.rs): a MySQL  *)
(* packet does not say what it is, so the decoder goes by its first byte   *)
(* and by the state it thinks the connection is in.                        *)
(*                                                                         *)
(* A packet is a record with the kind its sender means by it.  Decoding    *)
(* gives the kind the proxy takes it for, and the decoder's next state.    *)
(***************************************************************************)
EXTENDS Naturals

CONSTANT MaxColumns   \* column counts up to this one are told apart

ASSUME MySqlCodecAssumption == MaxColumns \in Nat \ {0, 1}

\* Decoder states; left counts the column definitions still to come.
At(state)          == [at |-> state, left |-> 0]
ReadingColumns(n)  == [at |-> "ReadingColumns", left |-> n]
DecoderStates ==
    {At(s) : s \in {"WaitingHandshake", "WaitingHandshakeResponse",
                    "WaitingAuthResponse", "Command", "ReadingRows"}}
        \cup {ReadingColumns(n) : n \in 1..MaxColumns}

\* Packets that begin with 0xFE: an AuthSwitchRequest, a legacy EOF, and the OK
\* that ends a result set under CLIENT_DEPRECATE_EOF.
BeginsFE == {"Switch", "Eof", "End"}

\* The number of columns a packet announces when its first byte is taken for a
\* length: AuthMoreData begins with 0x01, a text answer with a letter (any letter
\* is more than MaxColumns; two columns never complete is all that matters).
CountOf(packet) ==
    CASE packet.kind = "Count" -> packet.n
      [] packet.kind \in {"Fast", "Full", "Key"} -> 1
      [] OTHER -> MaxColumns

Read(kind, state) == [kind |-> kind, state |-> state]
Malformed(state)  == Read("Malformed", state)

\* The upstream-facing decoder.  Short answers (OK, ERR) are recognised in every
\* state but among columns and rows; a request for a file announces no columns.
InCommand(packet) ==
    CASE packet.kind \in {"Ok", "Err", "Eof"} -> Read(packet.kind, At("Command"))
      [] packet.kind \in (BeginsFE \ {"Eof"}) \cup {"Infile"} ->
            Read("Generic", At("Command"))
      [] OTHER -> Read("Generic", ReadingColumns(CountOf(packet)))

\* The last column definition is followed by rows at once under
\* CLIENT_DEPRECATE_EOF, by an EOF otherwise.
InColumns(state, packet, deprecateEof) ==
    CASE packet.kind = "Eof" /\ ~deprecateEof -> Read("Eof", At("ReadingRows"))
      [] packet.kind = "Column" ->
            Read("Column",
                 IF state.left > 1 THEN ReadingColumns(state.left - 1)
                 ELSE IF deprecateEof THEN At("ReadingRows")
                 ELSE state)
      [] OTHER -> Malformed(state)

\* A row of 16 MB may begin with 0xFE too, but it comes in several packets; the
\* packet that ends the result set never does.
InRows(packet) ==
    CASE packet.kind \in BeginsFE -> Read("Generic", At("Command"))
      [] packet.kind = "Err"      -> Read("Err", At("Command"))
      [] OTHER                    -> Read("Row", At("ReadingRows"))

InAuth(packet) ==
    CASE packet.kind = "Ok"  -> Read("Ok", At("Command"))
      [] packet.kind = "Err" -> Read("Err", At("WaitingAuthResponse"))
      [] OTHER               -> Read("Generic", At("WaitingAuthResponse"))

\* After the handshake response, whatever is not an ERR ends the wait for it.
AfterResponse(packet) ==
    CASE packet.kind = "Ok"  -> Read("Ok", At("Command"))
      [] packet.kind = "Err" -> Read("Err", At("WaitingHandshakeResponse"))
      [] OTHER               -> Read("Generic", At("Command"))

Decode(state, packet, deprecateEof) ==
    CASE state.at = "WaitingHandshake" ->
            Read("Handshake", At("WaitingHandshakeResponse"))
      [] state.at = "WaitingHandshakeResponse" -> AfterResponse(packet)
      [] state.at = "WaitingAuthResponse"      -> InAuth(packet)
      [] state.at = "Command"                  -> InCommand(packet)
      [] state.at = "ReadingColumns" -> InColumns(state, packet, deprecateEof)
      [] state.at = "ReadingRows"              -> InRows(packet)

\* What the client-facing decoder may take an authentication reply for: a scramble
\* or a password is opaque, and may begin with the byte of COM_QUERY.
ReplyReadAs(state) ==
    IF state.at = "Command" THEN {"Generic", "Query"} ELSE {"Generic"}
=============================================================================
