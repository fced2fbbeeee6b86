------------------------------ MODULE PgStartup ------------------------------
(***************************************************************************)
(* How a PostgreSQL session gets from an accepted connection to the        *)
(* server's first ReadyForQuery (main.rs): the prelude that answers an     *)
(* SSLRequest, under a deadline (process_postgres_connection); a slot, the *)
(* upstream connection and TLS on it (handle_postgres_protocol); and the   *)
(* first turns of the loop, whose codec still awaits a startup message     *)
(* (handle_postgres_protocol_inner).  PgSession goes on with PgRelay.      *)
(*                                                                         *)
(* Client and server are modelled from what the protocol lets them send;   *)
(* either may fall silent or leave at any point.                           *)
(***************************************************************************)
EXTENDS Naturals, Sequences

(* A definition named Step_Slip is Step with the slip made: it is no part of  *)
(* the specification, and shows which property would notice.                  *)

CONSTANTS MaxAsks,    \* bound: SSLRequests of the client
          MaxToggles  \* bound: edits of upstream_tls

ASSUME PgStartupAssumption == {MaxAsks, MaxToggles} \subseteq Nat

VARIABLES
    acceptor,    \* a TlsAcceptor is configured
    upstreamTls, \* config.upstream_tls
    toggles,     \* edits of it
    wasOptional, \* history: it has been FALSE since the connection was accepted
    at,          \* where the connection's task is
    legs,        \* which of its two sockets speak TLS
    isStartup,   \* PostgresCodec.is_startup of the client's codec
    peer,        \* the client: where it is, what it sent first, how often it asked
    wire,        \* client -> proxy
    arrived,     \* how much has arrived of the first message there
    down,        \* proxy -> client
    server,      \* the server: where it is
    up,          \* proxy -> server
    back,        \* server -> proxy
    forwarded    \* history: the client's messages the server was sent, over which legs

policy   == <<acceptor, upstreamTls, toggles, wasOptional>>
ends     == <<peer, server>>
channels == <<wire, arrived, down, up, back>>
startup  == <<policy, at, legs, isStartup, ends, channels, forwarded>>

\* Of a message nothing has arrived, less than the eight bytes of the prelude, those
\* eight, or all of it.
Nothing == 0
Whole   == 3
Arrivals(kind) == IF kind \in {"ssl", "gss"} THEN {1, Whole} ELSE 1..Whole

StartupInit ==
    /\ acceptor \in BOOLEAN
    /\ upstreamTls \in BOOLEAN
    /\ toggles = 0
    /\ wasOptional = ~upstreamTls
    /\ at = "peeking"
    /\ legs = [client |-> FALSE, server |-> FALSE]
    /\ isStartup = TRUE
    /\ peer = [at |-> "fresh", first |-> "none", asks |-> 0]
    /\ wire = <<>> /\ arrived = Nothing
    /\ down = <<>> /\ up = <<>> /\ back = <<>>
    /\ server = "listening"
    /\ forwarded = <<>>

\* An operator edits upstream_tls.
Toggle ==
    /\ toggles < MaxToggles
    /\ toggles' = toggles + 1
    /\ upstreamTls' = ~upstreamTls
    /\ wasOptional' = TRUE
    /\ UNCHANGED <<acceptor, at, legs, isStartup, ends, channels, forwarded>>

-----------------------------------------------------------------------------
(* The client and the network *)

Sends(kind, next) ==
    /\ wire' = Append(wire, kind)
    /\ peer' = [peer EXCEPT !.at = next,
                            !.first = IF @ = "none" THEN kind ELSE @,
                            !.asks = IF kind = "ssl" THEN @ + 1 ELSE @]
    /\ UNCHANGED <<policy, at, legs, isStartup, server, arrived, up, back, forwarded>>

\* It asks for TLS, or for GSSAPI, and waits for one byte; it starts up, or asks to
\* cancel a statement of another session.
Asks ==
    /\ peer.at \in {"fresh", "denied"} /\ peer.asks < MaxAsks
    /\ Sends("ssl", "asked") /\ UNCHANGED down
AsksGss ==
    peer.at = "fresh" /\ Sends("gss", "askedGss") /\ UNCHANGED down
Starts ==
    /\ peer.at \in {"fresh", "denied", "secured"}
    /\ \/ Sends("startup", "starting")
       \/ Sends("cancel", "cancelling")
    /\ UNCHANGED down

Expected(kind) ==
    \/ kind = "S" /\ peer.at = "asked"
    \/ kind = "N" /\ peer.at \in {"asked", "askedGss"}
    \/ kind = "auth" /\ peer.at = "starting"
    \/ kind = "fatal"

Hears ==
    /\ down # <<>>
    /\ peer.at \notin {"gone", "confused"}
    /\ down' = Tail(down)
    /\ LET kind == Head(down)
           Becomes(next) == /\ peer' = [peer EXCEPT !.at = next]
                            /\ UNCHANGED <<policy, at, legs, isStartup, server, wire,
                                           arrived, up, back, forwarded>>
       IN \/ kind = "S" /\ Expected(kind) /\ Sends("hello", "shaking")
          \/ kind = "N" /\ Expected(kind) /\ Becomes("denied")
          \/ kind = "auth" /\ Expected(kind) /\ Sends("password", "proving")
          \/ kind = "fatal" /\ Becomes("gone")
          \/ ~Expected(kind) /\ Becomes("confused")

Leaves ==
    /\ peer.at # "gone"
    /\ peer' = [peer EXCEPT !.at = "gone"]
    /\ UNCHANGED <<policy, at, legs, isStartup, server, channels, forwarded>>

\* What the codec makes of less than a message is the matter of PgFrames.
Arrive(n) ==
    /\ wire # <<>>
    /\ at # "closed"
    /\ n \in Arrivals(Head(wire)) /\ n > arrived
    /\ at = "peeking" \/ n = Whole
    /\ arrived' = n
    /\ UNCHANGED <<policy, at, legs, isStartup, ends, wire, down, up, back, forwarded>>

-----------------------------------------------------------------------------
(* The task *)

Says(kind) == down' = Append(down, kind)
Consume(kinds) ==
    /\ wire # <<>> /\ arrived = Whole
    /\ Head(wire) \in kinds
    /\ wire' = Tail(wire)
    /\ arrived' = Nothing

GoOn(next) ==
    /\ at' = next
    /\ UNCHANGED <<policy, isStartup, ends, forwarded>>
Ends == GoOn("closed") /\ UNCHANGED <<legs, wire, arrived, up, back>>
Quietly == UNCHANGED down

AcceptSsl ==
    /\ at = "peeking" /\ acceptor
    /\ Consume({"ssl"})
    /\ Says("S")
    /\ GoOn("shaking") /\ UNCHANGED <<legs, up, back>>

DenySsl ==
    /\ at = "peeking" /\ ~acceptor
    /\ Consume({"ssl"})
    /\ Says("N")
    /\ GoOn("waiting") /\ UNCHANGED <<legs, up, back>>

\* peek until there are eight bytes, or the client has closed without a byte.
PreludeRead_AtFirstBytes ==
    arrived > Nothing \/ (peer.at = "gone" /\ wire = <<>>)
PreludeRead ==
    arrived >= 2 \/ (peer.at = "gone" /\ wire = <<>>)
AskedTls == arrived = Whole /\ Head(wire) = "ssl"

NoSsl ==
    /\ at = "peeking"
    /\ PreludeRead
    /\ ~AskedTls
    /\ GoOn("waiting") /\ UNCHANGED <<legs, channels>>

\* HANDSHAKE_DEADLINE of the prelude and of the TLS handshake, which may fail too.
DeadlinePasses == at \in {"peeking", "shaking"} /\ Ends /\ Quietly

Secure ==
    /\ at = "shaking"
    /\ peer.at = "shaking"
    /\ Consume({"hello"})
    /\ at' = "waiting"
    /\ legs' = [legs EXCEPT !.client = TRUE]
    /\ peer' = [peer EXCEPT !.at = "secured"]
    /\ UNCHANGED <<policy, isStartup, server, down, up, back, forwarded>>

GetSlot == at = "waiting" /\ GoOn("connecting") /\ UNCHANGED <<legs, channels>>
SlotTimesOut == at = "waiting" /\ Ends /\ Says("fatal")

\* upstream_tls is read when the connection stands.
Connect ==
    /\ at = "connecting"
    /\ IF upstreamTls THEN GoOn("asking") /\ up' = Append(up, "ssl")
                      ELSE GoOn("relaying") /\ UNCHANGED up
    /\ UNCHANGED <<legs, wire, arrived, down, back>>
ConnectFails == at = "connecting" /\ Ends /\ Quietly

\* One byte, awaited without a deadline; anything but 'S' ends the session.
UpstreamAgrees ==
    /\ at = "asking"
    /\ back # <<>> /\ Head(back) = "S"
    /\ back' = Tail(back)
    /\ GoOn("upgrading") /\ UNCHANGED <<legs, wire, arrived, down, up>>
UpstreamRefuses ==
    /\ at = "asking"
    /\ back # <<>> /\ Head(back) # "S"
    /\ Ends /\ Says("fatal")

Upgrade ==
    /\ at = "upgrading"
    /\ legs' = [legs EXCEPT !.server = TRUE]
    /\ GoOn("relaying") /\ UNCHANGED channels
UpgradeFails == at = "upgrading" /\ Ends /\ Quietly

\* Another SSLRequest is denied; the codec goes on awaiting a startup message.
LoopDeniesSsl ==
    /\ at = "relaying" /\ isStartup
    /\ Consume({"ssl"})
    /\ Says("N")
    /\ UNCHANGED <<policy, at, legs, isStartup, ends, up, back, forwarded>>

\* The codec takes a GSSENCRequest and a CancelRequest for startup messages without
\* parameters, and encodes them so: the one becomes longer, the other loses its key.
Recoded(kind) ==
    CASE kind = "gss"    -> "long gss"
      [] kind = "cancel" -> "keyless"
      [] OTHER           -> kind

ForwardUp ==
    /\ at = "relaying"
    /\ Consume(IF isStartup THEN {"startup", "gss", "cancel"} ELSE {"password"})
    /\ isStartup' = FALSE
    /\ up' = Append(up, Recoded(Head(wire)))
    /\ forwarded' = Append(forwarded, legs)
    /\ UNCHANGED <<policy, at, legs, ends, down, back>>

\* A byte that is no message stays in the buffer.
ForwardDown ==
    /\ at = "relaying"
    /\ back # <<>> /\ Head(back) \in {"auth", "fatal"}
    /\ back' = Tail(back)
    /\ Says(Head(back))
    /\ UNCHANGED <<policy, at, legs, isStartup, ends, wire, arrived, up, forwarded>>

\* The idle timeout, the shutdown arm.
IdleTimesOut == at = "relaying" /\ Ends /\ Quietly
ShutsDown    == at = "relaying" /\ Ends /\ Says("fatal")

PeerLost ==
    /\ \/ peer.at = "gone" /\ at \in {"peeking", "shaking", "relaying"}
       \/ server = "gone" /\ back = <<>> /\ at \in {"asking", "upgrading", "relaying"}
    /\ Ends /\ Quietly

-----------------------------------------------------------------------------
(* The server *)

Serves(kind, next, answer) ==
    /\ up # <<>> /\ Head(up) = kind
    /\ up' = Tail(up)
    /\ server' = next
    /\ back' = back \o answer
    /\ UNCHANGED <<policy, at, legs, isStartup, peer, wire, arrived, down, forwarded>>

ServeSsl == server = "listening" /\ \E byte \in {"S", "N", "E"} :
                                        Serves("ssl", "listening", <<byte>>)
ServeStartup ==
    /\ server = "listening"
    /\ \/ Serves("startup", "asked", <<"auth">>)
       \/ Serves("startup", "gone", <<"fatal">>)
       \/ Serves("long gss", "listening", <<"N">>)
       \/ Serves("keyless", "gone", <<>>)
ServePassword ==
    /\ server = "asked"
    /\ \/ Serves("password", "ready", <<>>)
       \/ Serves("password", "gone", <<"fatal">>)

ServerLeaves ==
    /\ server \in {"listening", "asked"}
    /\ server' = "gone"
    /\ UNCHANGED <<policy, at, legs, isStartup, peer, channels, forwarded>>

-----------------------------------------------------------------------------

\* The server has accepted the client, and its ReadyForQuery is the relay's.  What
\* comes is the same however the session began, so that is forgotten.
Opens ==
    /\ at = "relaying"
    /\ server = "ready"
    /\ peer.at = "proving"
    /\ at' = "open"
    /\ acceptor' = FALSE /\ upstreamTls' = FALSE /\ toggles' = 0 /\ wasOptional' = TRUE
    /\ legs' = [client |-> FALSE, server |-> FALSE]
    /\ peer' = [at |-> "in", first |-> "none", asks |-> 0]
    /\ forwarded' = <<>>
    /\ UNCHANGED <<isStartup, server, channels>>

TaskStep ==
    \/ AcceptSsl \/ DenySsl \/ NoSsl \/ DeadlinePasses \/ Secure
    \/ GetSlot \/ SlotTimesOut \/ Connect \/ ConnectFails
    \/ UpstreamAgrees \/ UpstreamRefuses \/ Upgrade \/ UpgradeFails
    \/ PeerLost

LoopStep == LoopDeniesSsl \/ ForwardUp \/ ForwardDown \/ IdleTimesOut \/ ShutsDown

StartupNext ==
    \/ Toggle \/ Asks \/ AsksGss \/ Starts \/ Hears \/ Leaves
    \/ \E n \in 1..Whole : Arrive(n)
    \/ TaskStep \/ LoopStep \/ Opens
    \/ ServeSsl \/ ServeStartup \/ ServePassword \/ ServerLeaves

-----------------------------------------------------------------------------
(* Properties *)

StartupTypeOK ==
    /\ {acceptor, upstreamTls, wasOptional, isStartup} \subseteq BOOLEAN
    /\ toggles \in 0..MaxToggles
    /\ at \in {"peeking", "shaking", "waiting", "connecting", "asking", "upgrading",
               "relaying", "open", "closed"}
    /\ legs \in [client : BOOLEAN, server : BOOLEAN]
    /\ peer.asks \in 0..MaxAsks
    /\ arrived \in Nothing..Whole /\ (wire = <<>> => arrived = Nothing)
    /\ server \in {"listening", "asked", "ready", "gone"}

\* "silently cleartext against a proxy the operator had configured for TLS"
\* (process_postgres_connection): a client that begins by asking for TLS, in
\* however many pieces, is never denied it, and sends nothing on without it.
AskedIsSecured ==
    acceptor /\ peer.first = "ssl" =>
        /\ peer.at # "denied" /\ \A i \in DOMAIN down : down[i] # "N"
        /\ \A i \in DOMAIN forwarded : forwarded[i].client

\* "upstream_tls: true means required" (handle_postgres_protocol): no message of the
\* client goes to the server in the clear unless an edit has allowed that meanwhile.
RequiredIsSecured ==
    \A i \in DOMAIN forwarded : forwarded[i].server \/ wasOptional

\* "Do NOT set is_startup = false, because the next message will be the actual
\* StartupMessage" (postgres.rs): each end hears only what it waits for, though the
\* proxy speaks for either of them.
EndsUnderstand ==
    /\ peer.at # "confused"
    /\ up # <<>> => Head(up) \in
          CASE server = "listening" -> {"ssl", "startup", "long gss", "keyless"}
            [] server = "asked"     -> {"password"}
            [] OTHER                -> {"startup", "password", "long gss", "keyless", "ssl"}

\* The three together: how a session opens is what its client and its policy ask.
OpensAsAsked == AskedIsSecured /\ RequiredIsSecured /\ EndsUnderstand
=============================================================================
